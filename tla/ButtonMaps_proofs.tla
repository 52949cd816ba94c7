------------------------- MODULE ButtonMaps_proofs -------------------------
(***************************************************************************)
(* Proofs about the pages that edit button maps, for every number of       *)
(* pages, remotes, buttons, maps and edits.                                *)
(*                                                                         *)
(* A page that missed nothing is compared with the tables while frames are *)
(* on their way to it: what the page does not have yet, or has no more in  *)
(* the table, is the matter of a frame, and the frames are in an order in  *)
(* which the last word on each item is the right one.                      *)
(***************************************************************************)
EXTENDS ButtonMaps, Hub_proofs

-----------------------------------------------------------------------------
(***************************************************************************)
(* Kinds of values.                                                        *)
(***************************************************************************)
Partial(S, T) == UNION {[D -> T] : D \in SUBSET S}

Name == ({"row"} \X Nat) \cup ({"temp"} \X Nat)

Bind == [button_id : Nat, remote_id : Nat]

Element == [bind : Bind, ready : BOOLEAN, hidden : BOOLEAN]

Page == [up : BOOLEAN, remotes : SUBSET Nat, panels : SUBSET Nat,
         buttons : Partial(Nat, Nat), maps : Partial(Name, Element),
         index : Partial(Name, Name), deleted : SUBSET Name, temp_id : Nat]

Tables(Kind) == [seq : Nat, rows : Partial(Nat, Kind)]

LEMMA PartialParts ==
    ASSUME NEW S, NEW T, NEW f, f \in Partial(S, T)
    PROVE  /\ f = [x \in DOMAIN f |-> f[x]]
           /\ DOMAIN f \subseteq S
           /\ \A x \in DOMAIN f : f[x] \in T
BY DEF Partial

LEMMA IsPartial ==
    ASSUME NEW S, NEW T, NEW f, f = [x \in DOMAIN f |-> f[x]],
           DOMAIN f \subseteq S, \A x \in DOMAIN f : f[x] \in T
    PROVE  f \in Partial(S, T)
<1>1. f \in [DOMAIN f -> T]
  OBVIOUS
<1> QED
  BY <1>1 DEF Partial

LEMMA EmptyPartial == \A S, T : <<>> \in Partial(S, T) /\ DOMAIN <<>> = {}
<1> TAKE S, T
<1>1. <<>> \in [{} -> T] /\ DOMAIN <<>> = {}
  OBVIOUS
<1> QED
  BY <1>1 DEF Partial

LEMMA WithParts ==
    /\ \A f, k, v : DOMAIN With(f, k, v) = DOMAIN f \cup {k}
    /\ \A f, k, v : With(f, k, v)[k] = v
    /\ \A f, k, v : \A x \in DOMAIN f \ {k} : With(f, k, v)[x] = f[x]
BY DEF With

LEMMA WithPartial ==
    ASSUME NEW S, NEW T, NEW f, f \in Partial(S, T), NEW k, k \in S, NEW v, v \in T
    PROVE  With(f, k, v) \in Partial(S, T)
<1>1. DOMAIN f \subseteq S /\ \A x \in DOMAIN f : f[x] \in T
  BY PartialParts
<1>2. With(f, k, v) \in [DOMAIN f \cup {k} -> T]
  BY <1>1 DEF With
<1> QED
  BY <1>1, <1>2 DEF Partial

Except(f, gone) == Restrict(f, DOMAIN f \ gone)

LEMMA ExceptParts ==
    /\ \A f, gone : DOMAIN Except(f, gone) = DOMAIN f \ gone
    /\ \A f, gone : \A x \in DOMAIN f \ gone : Except(f, gone)[x] = f[x]
BY DEF Except, Restrict

LEMMA ExceptPartial ==
    ASSUME NEW S, NEW T, NEW f, f \in Partial(S, T), NEW gone
    PROVE  Except(f, gone) \in Partial(S, T)
<1>1. DOMAIN f \subseteq S /\ \A x \in DOMAIN f : f[x] \in T
  BY PartialParts
<1>2. Except(f, gone) \in [DOMAIN f \ gone -> T]
  BY <1>1 DEF Except, Restrict
<1> QED
  BY <1>1, <1>2 DEF Partial

LEMMA Names ==
    /\ \A i \in Nat : Row(i) \in Name /\ Temp(i) \in Name
    /\ \A i : ~ IsTemp(Row(i)) /\ Row(i)[2] = i /\ IsTemp(Temp(i)) /\ Temp(i)[2] = i
    /\ \A i, j : Row(i) = Row(j) => i = j
    /\ \A name \in Name : name[2] \in Nat
    /\ \A name \in Name : ~ IsTemp(name) => name = Row(name[2])
    /\ \A name \in Name : IsTemp(name) => name = Temp(name[2])
BY DEF Name, Row, Temp, IsTemp

LEMMA Binds ==
    /\ Unbound \in Bind /\ Unbound.button_id = 0 /\ Unbound.remote_id = 0
    /\ \A b, r \in Nat : Button(b, r) \in Bind
    /\ \A b, r : Button(b, r).button_id = b /\ Button(b, r).remote_id = r
    /\ \A x, y \in Bind : x.button_id = y.button_id /\ x.remote_id = y.remote_id => x = y
    /\ \A x \in Bind : x = Button(x.button_id, x.remote_id)
BY DEF Bind, Unbound, Button, Null

-----------------------------------------------------------------------------
(***************************************************************************)
(* What the callbacks make of a page.                                      *)
(***************************************************************************)
LEMMA PageParts ==
    ASSUME NEW pg \in Page
    PROVE  /\ pg.buttons \in Partial(Nat, Nat) /\ pg.maps \in Partial(Name, Element)
           /\ pg.index \in Partial(Name, Name)
           /\ pg.remotes \subseteq Nat /\ pg.panels \subseteq Nat /\ pg.deleted \subseteq Name
           /\ pg.temp_id \in Nat /\ pg.up \in BOOLEAN
           /\ DOMAIN pg.maps \subseteq Name /\ DOMAIN pg.index \subseteq Name
           /\ DOMAIN pg.buttons \subseteq Nat
           /\ \A b \in DOMAIN pg.buttons : pg.buttons[b] \in Nat
           /\ \A n \in DOMAIN pg.maps : pg.maps[n] \in Element /\ pg.maps[n].bind \in Bind
           /\ \A k \in DOMAIN pg.index : pg.index[k] \in Name
<1>1. /\ pg.buttons \in Partial(Nat, Nat) /\ pg.maps \in Partial(Name, Element)
      /\ pg.index \in Partial(Name, Name)
      /\ pg.remotes \subseteq Nat /\ pg.panels \subseteq Nat /\ pg.deleted \subseteq Name
      /\ pg.temp_id \in Nat /\ pg.up \in BOOLEAN
  BY DEF Page
<1>2. /\ DOMAIN pg.maps \subseteq Name /\ DOMAIN pg.index \subseteq Name
      /\ DOMAIN pg.buttons \subseteq Nat
      /\ \A b \in DOMAIN pg.buttons : pg.buttons[b] \in Nat
      /\ \A n \in DOMAIN pg.maps : pg.maps[n] \in Element
      /\ \A k \in DOMAIN pg.index : pg.index[k] \in Name
  BY <1>1, PartialParts
<1>3. \A e \in Element : e.bind \in Bind
  BY DEF Element
<1> QED
  BY <1>1, <1>2, <1>3

\* The fields that the callbacks about maps leave alone.
SameButtons(pg, new) ==
    /\ new.up = pg.up
    /\ new.remotes = pg.remotes
    /\ new.panels = pg.panels
    /\ new.buttons = pg.buttons
    /\ new.temp_id = pg.temp_id

SetMaps(pg, maps, index) == [pg EXCEPT !.maps = maps, !.index = index]

LEMMA SetMapsPage ==
    ASSUME NEW pg \in Page, NEW maps \in Partial(Name, Element),
           NEW index \in Partial(Name, Name)
    PROVE  /\ SetMaps(pg, maps, index) \in Page
           /\ SameButtons(pg, SetMaps(pg, maps, index))
           /\ SetMaps(pg, maps, index).maps = maps
           /\ SetMaps(pg, maps, index).index = index
           /\ SetMaps(pg, maps, index).deleted = pg.deleted
BY DEF Page, SameButtons, SetMaps

\* What an element shows of its button is its last known one.
Shown(pg, name) == IF name \in DOMAIN pg.maps THEN pg.maps[name].bind ELSE Unbound

Displays(pg, name, bind, new) ==
    /\ new \in Page /\ SameButtons(pg, new) /\ new.deleted = pg.deleted
    /\ DOMAIN new.maps = DOMAIN pg.maps \cup {name}
    /\ \A n \in DOMAIN pg.maps \ {name} : new.maps[n] = pg.maps[n]
    /\ new.maps[name].bind = IF bind.button_id \in DOMAIN pg.buttons THEN bind
                                                                 ELSE Shown(pg, name)
    /\ DOMAIN new.index = DOMAIN pg.index \cup {name}
    /\ new.index[name] = name
    /\ \A k \in DOMAIN pg.index \ {name} : new.index[k] = pg.index[k]

LEMMA Displayed ==
    ASSUME NEW pg \in Page, NEW name \in Name, NEW bind \in Bind
    PROVE  Displays(pg, name, bind, display_button_map(pg, name, bind))
<1> DEFINE old   == IF name \in DOMAIN pg.maps THEN pg.maps[name]
                    ELSE [bind |-> Unbound, ready |-> FALSE, hidden |-> FALSE]
           throws == Throws(DOMAIN pg.buttons, pg.remotes, bind)
           shown == [bind   |-> IF bind.button_id \in DOMAIN pg.buttons THEN bind ELSE old.bind,
                     ready  |-> old.ready \/ ~ throws,
                     hidden |-> old.hidden]
           maps  == With(pg.maps, name, shown)
           index == With(pg.index, name, name)
           new   == display_button_map(pg, name, bind)
<1>1. old \in Element /\ old.bind = Shown(pg, name)
  <2>1. CASE name \in DOMAIN pg.maps
    BY <2>1, PageParts DEF Shown
  <2>2. CASE name \notin DOMAIN pg.maps
    BY <2>2, Binds DEF Element, Shown
  <2> QED
    BY <2>1, <2>2
<1>2. throws \in BOOLEAN
  BY DEF Throws
<1>3. shown \in Element
  <2> HIDE DEF throws, old
  <2> QED
    BY <1>1, <1>2 DEF Element
<1>4. shown.bind = IF bind.button_id \in DOMAIN pg.buttons THEN bind ELSE Shown(pg, name)
  BY <1>1
<1>5. new = SetMaps(pg, maps, index)
  BY DEF display_button_map, SetMaps
<1> HIDE DEF new
<1> HIDE DEF old, throws, shown
<1> pg.maps \in Partial(Name, Element) /\ pg.index \in Partial(Name, Name)
  BY PageParts
<1>6. /\ maps \in Partial(Name, Element) /\ DOMAIN maps = DOMAIN pg.maps \cup {name}
      /\ maps[name] = shown /\ \A n \in DOMAIN pg.maps \ {name} : maps[n] = pg.maps[n]
  <2>1. maps \in Partial(Name, Element)
    BY <1>3, WithPartial
  <2>2. DOMAIN maps = DOMAIN pg.maps \cup {name}
    BY WithParts
  <2>3. maps[name] = shown
    BY WithParts
  <2>4. \A n \in DOMAIN pg.maps \ {name} : maps[n] = pg.maps[n]
    BY WithParts
  <2> HIDE DEF maps
  <2> QED
    BY <2>1, <2>2, <2>3, <2>4
<1>7. /\ index \in Partial(Name, Name) /\ DOMAIN index = DOMAIN pg.index \cup {name}
      /\ index[name] = name /\ \A k \in DOMAIN pg.index \ {name} : index[k] = pg.index[k]
  <2>1. index \in Partial(Name, Name)
    BY WithPartial
  <2>2. DOMAIN index = DOMAIN pg.index \cup {name}
    BY WithParts
  <2>3. index[name] = name
    BY WithParts
  <2>4. \A k \in DOMAIN pg.index \ {name} : index[k] = pg.index[k]
    BY WithParts
  <2> HIDE DEF index
  <2> QED
    BY <2>1, <2>2, <2>3, <2>4
<1> HIDE DEF maps, index
<1>8. /\ new \in Page /\ SameButtons(pg, new)
      /\ new.maps = maps /\ new.index = index /\ new.deleted = pg.deleted
  BY <1>5, <1>6, <1>7, SetMapsPage
<1> QED
  BY <1>4, <1>6, <1>7, <1>8 DEF Displays, new

Renames(pg, temp, name, new) ==
    /\ new \in Page /\ SameButtons(pg, new) /\ new.deleted = pg.deleted
    /\ DOMAIN new.maps = (DOMAIN pg.maps \ {temp}) \cup {name}
    /\ new.maps[name] = pg.maps[temp]
    /\ \A n \in DOMAIN pg.maps \ {temp, name} : new.maps[n] = pg.maps[n]
    /\ DOMAIN new.index = DOMAIN pg.index
    /\ \A k \in DOMAIN pg.index :
          new.index[k] = IF pg.index[k] = temp THEN name ELSE pg.index[k]

LEMMA Renamed ==
    ASSUME NEW pg \in Page, NEW temp \in Name, NEW name \in Name, temp # name,
           temp \in DOMAIN pg.maps
    PROVE  Renames(pg, temp, name, rename(pg, temp, name))
<1> DEFINE rest  == Except(pg.maps, {temp})
           maps  == With(rest, name, pg.maps[temp])
           index == [k \in DOMAIN pg.index |-> IF pg.index[k] = temp THEN name ELSE pg.index[k]]
           new   == rename(pg, temp, name)
<1>1. /\ rest \in Partial(Name, Element) /\ DOMAIN rest = DOMAIN pg.maps \ {temp}
      /\ \A n \in DOMAIN rest : rest[n] = pg.maps[n]
  <2>1. pg.maps \in Partial(Name, Element)
    BY PageParts
  <2> QED
    <3>1. rest \in Partial(Name, Element)
      BY <2>1, ExceptPartial
    <3>2. DOMAIN rest = DOMAIN pg.maps \ {temp}
      BY ExceptParts
    <3>3. \A n \in DOMAIN pg.maps \ {temp} : rest[n] = pg.maps[n]
      BY ExceptParts
    <3> HIDE DEF rest
    <3> QED
      BY <3>1, <3>2, <3>3
<1> HIDE DEF rest
<1>2. pg.maps[temp] \in Element
  BY PageParts
<1>3. /\ maps \in Partial(Name, Element) /\ DOMAIN maps = DOMAIN rest \cup {name}
      /\ maps[name] = pg.maps[temp] /\ \A n \in DOMAIN rest \ {name} : maps[n] = rest[n]
  <2>1. maps \in Partial(Name, Element)
    BY <1>1, <1>2, WithPartial
  <2>2. DOMAIN maps = DOMAIN rest \cup {name}
    BY WithParts
  <2>3. maps[name] = pg.maps[temp]
    BY WithParts
  <2>4. \A n \in DOMAIN rest \ {name} : maps[n] = rest[n]
    BY WithParts
  <2> HIDE DEF maps
  <2> QED
    BY <2>1, <2>2, <2>3, <2>4
<1>4. index \in Partial(Name, Name)
  <2>1. /\ index = [k \in DOMAIN index |-> index[k]] /\ DOMAIN index \subseteq Name
        /\ \A k \in DOMAIN index : index[k] \in Name
    BY PageParts
  <2> HIDE DEF index
  <2> QED
    BY <2>1, IsPartial
<1>5. /\ DOMAIN index = DOMAIN pg.index
      /\ \A k \in DOMAIN pg.index : index[k] = IF pg.index[k] = temp THEN name ELSE pg.index[k]
  OBVIOUS
<1>6. new = SetMaps(pg, maps, index)
  BY DEF rename, SetMaps, rest, Except
<1> HIDE DEF new
<1> HIDE DEF maps, index
<1>7. /\ new \in Page /\ SameButtons(pg, new)
      /\ new.maps = maps /\ new.index = index /\ new.deleted = pg.deleted
  BY <1>3, <1>4, <1>6, SetMapsPage
<1> QED
  BY <1>1, <1>3, <1>5, <1>7 DEF Renames, new

\* The reply to an insertion.
NamesRow(pg, temp, i, bind, new) ==
    /\ new \in Page /\ SameButtons(pg, new) /\ new.deleted = pg.deleted
    /\ DOMAIN new.maps = (DOMAIN pg.maps \ {temp}) \cup {Row(i)}
    /\ \A n \in DOMAIN pg.maps \ {temp, Row(i)} : new.maps[n] = pg.maps[n]
    /\ new.maps[Row(i)].bind =
          IF bind.button_id \in DOMAIN pg.buttons THEN bind
          ELSE IF temp \in DOMAIN pg.maps THEN pg.maps[temp].bind
          ELSE Shown(pg, Row(i))
    /\ DOMAIN new.index = DOMAIN pg.index \cup {Row(i)}
    /\ new.index[Row(i)] = Row(i)
    /\ \A k \in DOMAIN pg.index \ {Row(i)} :
          new.index[k] = IF temp \in DOMAIN pg.maps /\ pg.index[k] = temp THEN Row(i)
                                                                         ELSE pg.index[k]

LEMMA NamedPage ==
    ASSUME NEW pg \in Page, NEW temp \in Name, IsTemp(temp), NEW i \in Nat, NEW bind \in Bind
    PROVE  NamesRow(pg, temp, i, bind, name_map(pg, temp, i, bind))
<1> DEFINE mid == rename(pg, temp, Row(i))
           new == display_button_map(mid, Row(i), bind)
<1>1. Row(i) \in Name /\ temp # Row(i)
  BY Names
<1>2. new = name_map(pg, temp, i, bind)
  BY DEF name_map
<1>3. CASE temp \in DOMAIN pg.maps
  <2>1. Renames(pg, temp, Row(i), mid)
    BY <1>1, <1>3, Renamed
  <2>2. mid \in Page
    BY <2>1 DEF Renames
  <2>3. Displays(mid, Row(i), bind, new)
    BY <1>1, <2>2, Displayed
  <2> HIDE DEF mid, new
  <2>4. new \in Page /\ SameButtons(pg, new) /\ new.deleted = pg.deleted
    BY <2>1, <2>3 DEF Renames, Displays, SameButtons
  <2>5. DOMAIN new.maps = (DOMAIN pg.maps \ {temp}) \cup {Row(i)}
    BY <2>1, <2>3 DEF Renames, Displays
  <2>6. \A n \in DOMAIN pg.maps \ {temp, Row(i)} : new.maps[n] = pg.maps[n]
    BY <2>1, <2>3 DEF Renames, Displays
  <2>7. Shown(mid, Row(i)) = pg.maps[temp].bind
    BY <2>1 DEF Renames, Shown
  <2>8. new.maps[Row(i)].bind = IF bind.button_id \in DOMAIN pg.buttons THEN bind
                                                                     ELSE pg.maps[temp].bind
    BY <2>1, <2>3, <2>7 DEF Renames, Displays, SameButtons
  <2>9. DOMAIN new.index = DOMAIN pg.index \cup {Row(i)} /\ new.index[Row(i)] = Row(i)
    BY <2>1, <2>3 DEF Renames, Displays
  <2>10. \A k \in DOMAIN pg.index \ {Row(i)} :
            new.index[k] = IF pg.index[k] = temp THEN Row(i) ELSE pg.index[k]
    BY <2>1, <2>3 DEF Renames, Displays
  <2> QED
    BY <1>2, <1>3, <2>4, <2>5, <2>6, <2>8, <2>9, <2>10 DEF NamesRow
<1>4. CASE temp \notin DOMAIN pg.maps
  <2>1. mid = pg
    BY <1>4 DEF rename
  <2>2. Displays(pg, Row(i), bind, new)
    BY <1>1, <2>1, Displayed
  <2> HIDE DEF mid, new
  <2>3. DOMAIN pg.maps \ {temp} = DOMAIN pg.maps
    BY <1>4
  <2>4. DOMAIN new.maps = (DOMAIN pg.maps \ {temp}) \cup {Row(i)}
    BY <2>2, <2>3 DEF Displays
  <2> QED
    BY <1>2, <1>4, <2>2, <2>4 DEF NamesRow, Displays
<1> QED
  BY <1>3, <1>4

\* The confirmation of a deletion.
Hides(pg, name, new) ==
    /\ new \in Page /\ SameButtons(pg, new) /\ new.deleted = pg.deleted \cup {name}
    /\ DOMAIN new.maps = DOMAIN pg.maps
    /\ \A n \in DOMAIN pg.maps : new.maps[n].bind = pg.maps[n].bind
    /\ DOMAIN new.index \subseteq DOMAIN pg.index
    /\ DOMAIN pg.index \ {name} \subseteq DOMAIN new.index
    /\ \A k \in DOMAIN new.index : new.index[k] = pg.index[k]

SetHidden(pg, deleted, maps, index) ==
    [pg EXCEPT !.deleted = deleted, !.index = index, !.maps = maps]

LEMMA SetHiddenPage ==
    ASSUME NEW pg \in Page, NEW deleted \in SUBSET Name, NEW maps \in Partial(Name, Element),
           NEW index \in Partial(Name, Name)
    PROVE  /\ SetHidden(pg, deleted, maps, index) \in Page
           /\ SameButtons(pg, SetHidden(pg, deleted, maps, index))
           /\ SetHidden(pg, deleted, maps, index).maps = maps
           /\ SetHidden(pg, deleted, maps, index).index = index
           /\ SetHidden(pg, deleted, maps, index).deleted = deleted
BY DEF Page, SameButtons, SetHidden

LEMMA HiddenPage ==
    ASSUME NEW pg \in Page, NEW name \in Name
    PROVE  Hides(pg, name, delete_button_map_callback(pg, name))
<1> DEFINE new   == delete_button_map_callback(pg, name)
           index == Except(pg.index, {name})
           maps  == [n \in DOMAIN pg.maps |->
                       IF n = name THEN [pg.maps[n] EXCEPT !.hidden = TRUE] ELSE pg.maps[n]]
<1>1. CASE name \in pg.deleted
  <2>1. new = pg
    BY <1>1 DEF delete_button_map_callback
  <2> HIDE DEF new
  <2>2. new.deleted = pg.deleted \cup {name}
    BY <1>1, <2>1
  <2> QED
    BY <2>1, <2>2 DEF Hides, SameButtons, new
<1>2. CASE name \notin pg.deleted
  <2>1. new = SetHidden(pg, pg.deleted \cup {name}, maps, index)
    BY <1>2 DEF delete_button_map_callback, SetHidden, Except
  <2>2. index \in Partial(Name, Name)
    BY PageParts, ExceptPartial
  <2>3. DOMAIN index = DOMAIN pg.index \ {name}
    BY ExceptParts
  <2>4. \A k \in DOMAIN pg.index \ {name} : index[k] = pg.index[k]
    BY ExceptParts
  <2>5. \A n \in DOMAIN pg.maps : maps[n] \in Element /\ maps[n].bind = pg.maps[n].bind
    BY PageParts DEF Element
  <2>6. maps \in Partial(Name, Element) /\ DOMAIN maps = DOMAIN pg.maps
    <3>1. DOMAIN maps = DOMAIN pg.maps /\ maps = [n \in DOMAIN maps |-> maps[n]]
      OBVIOUS
    <3>2. DOMAIN pg.maps \subseteq Name
      BY PageParts
    <3> HIDE DEF maps
    <3> QED
      BY <2>5, <3>1, <3>2, IsPartial
  <2>7. pg.deleted \cup {name} \in SUBSET Name
    BY PageParts
  <2> HIDE DEF maps, index, new
  <2>8. /\ new \in Page /\ SameButtons(pg, new) /\ new.deleted = pg.deleted \cup {name}
        /\ new.maps = maps /\ new.index = index
    BY <2>1, <2>2, <2>6, <2>7, SetHiddenPage
  <2> QED
    BY <2>3, <2>4, <2>5, <2>6, <2>8 DEF Hides, new
<1> QED
  BY <1>1, <1>2

\* Elements that lose their button, and elements that keep it.
Unbinds(pg, names, new) ==
    /\ DOMAIN new.maps = DOMAIN pg.maps
    /\ \A n \in DOMAIN pg.maps :
          new.maps[n].bind = IF n \in names THEN Unbound ELSE pg.maps[n].bind

LEMMA UnboundMaps ==
    ASSUME NEW pg \in Page, NEW names
    PROVE  /\ unbind_elements(pg.maps, names) \in Partial(Name, Element)
           /\ DOMAIN unbind_elements(pg.maps, names) = DOMAIN pg.maps
           /\ \A n \in DOMAIN pg.maps : unbind_elements(pg.maps, names)[n].bind =
                 IF n \in names THEN Unbound ELSE pg.maps[n].bind
<1> DEFINE maps == unbind_elements(pg.maps, names)
<1>1. DOMAIN maps = DOMAIN pg.maps /\ maps = [n \in DOMAIN maps |-> maps[n]]
  BY DEF unbind_elements
<1>2. ASSUME NEW n \in DOMAIN pg.maps
      PROVE  /\ maps[n] \in Element
             /\ maps[n].bind = IF n \in names THEN Unbound ELSE pg.maps[n].bind
  <2>1. pg.maps[n] \in Element /\ Unbound \in Bind
    BY PageParts, Binds
  <2>2. CASE n \in names
    <3>1. maps[n] = [pg.maps[n] EXCEPT !.bind = Unbound]
      BY <2>2 DEF unbind_elements
    <3> HIDE DEF maps
    <3> QED
      BY <2>1, <2>2, <3>1 DEF Element
  <2>3. CASE n \notin names
    <3>1. maps[n] = pg.maps[n]
      BY <2>3 DEF unbind_elements
    <3> HIDE DEF maps
    <3> QED
      BY <2>1, <2>3, <3>1
  <2> QED
    BY <2>2, <2>3
<1>3. DOMAIN pg.maps \subseteq Name
  BY PageParts
<1> HIDE DEF maps
<1>4. maps \in Partial(Name, Element)
  BY <1>1, <1>2, <1>3, IsPartial
<1> QED
  BY <1>1, <1>2, <1>4 DEF maps

Led(pg) == {pg.index[k] : k \in DOMAIN pg.index}    \* the elements that the index leads to

\* A button is gone.
DropsButton(pg, b, new) ==
    /\ new \in Page
    /\ new.up = pg.up /\ new.remotes = pg.remotes /\ new.panels = pg.panels
    /\ new.deleted = pg.deleted /\ new.temp_id = pg.temp_id
    /\ DOMAIN new.buttons = DOMAIN pg.buttons \ {b}
    /\ \A c \in DOMAIN pg.buttons \ {b} : new.buttons[c] = pg.buttons[c]
    /\ Unbinds(pg, {n \in Led(pg) : pg.maps[n].bind.button_id = b}, new)
    /\ DOMAIN new.index \subseteq DOMAIN pg.index
    /\ \A k \in DOMAIN new.index : new.index[k] = pg.index[k]
    /\ \A k \in DOMAIN pg.index :
          pg.maps[pg.index[k]].bind.button_id # b => k \in DOMAIN new.index

SetButtons(pg, maps, index, buttons) ==
    [pg EXCEPT !.maps = maps, !.index = index, !.buttons = buttons]

LEMMA SetButtonsPage ==
    ASSUME NEW pg \in Page, NEW maps \in Partial(Name, Element),
           NEW index \in Partial(Name, Name), NEW buttons \in Partial(Nat, Nat)
    PROVE  LET new == SetButtons(pg, maps, index, buttons)
           IN  /\ new \in Page
               /\ new.up = pg.up /\ new.remotes = pg.remotes /\ new.panels = pg.panels
               /\ new.deleted = pg.deleted /\ new.temp_id = pg.temp_id
               /\ new.maps = maps /\ new.index = index /\ new.buttons = buttons
BY DEF Page, SetButtons

LEMMA ButtonGonePage ==
    ASSUME NEW pg \in Page, NEW b
    PROVE  DropsButton(pg, b, delete_remote_button_callback(pg, b))
<1> DEFINE new   == delete_remote_button_callback(pg, b)
           keys  == {k \in DOMAIN pg.index : pg.maps[pg.index[k]].bind.button_id = b}
           first == {k \in keys : IsTemp(k) =>
                       \A j \in keys : pg.index[j] = pg.index[k] => IsTemp(j)}
           names == {pg.index[k] : k \in keys}
           maps  == unbind_elements(pg.maps, names)
           index == Except(pg.index, first)
           buttons == Except(pg.buttons, {b})
<1>1. new = SetButtons(pg, maps, index, buttons)
  BY DEF delete_remote_button_callback, SetButtons, Except
<1>2. names = {n \in Led(pg) : pg.maps[n].bind.button_id = b}
  BY DEF Led
<1>3. first \subseteq keys /\ keys \subseteq DOMAIN pg.index
  OBVIOUS
<1>4. \A k \in keys : pg.maps[pg.index[k]].bind.button_id = b
  OBVIOUS
<1> HIDE DEF keys, first, names
<1>5. /\ maps \in Partial(Name, Element) /\ DOMAIN maps = DOMAIN pg.maps
      /\ \A n \in DOMAIN pg.maps : maps[n].bind = IF n \in names THEN Unbound
                                                                 ELSE pg.maps[n].bind
  BY UnboundMaps
<1>6. index \in Partial(Name, Name) /\ buttons \in Partial(Nat, Nat)
  BY PageParts, ExceptPartial
<1>7. DOMAIN index = DOMAIN pg.index \ first
  BY ExceptParts
<1>8. \A k \in DOMAIN pg.index \ first : index[k] = pg.index[k]
  BY ExceptParts
<1>9. DOMAIN buttons = DOMAIN pg.buttons \ {b}
  BY ExceptParts
<1>10. \A c \in DOMAIN pg.buttons \ {b} : buttons[c] = pg.buttons[c]
  BY ExceptParts
<1> HIDE DEF maps, index, buttons, new
<1>11. /\ new \in Page
       /\ new.up = pg.up /\ new.remotes = pg.remotes /\ new.panels = pg.panels
       /\ new.deleted = pg.deleted /\ new.temp_id = pg.temp_id
       /\ new.maps = maps /\ new.index = index /\ new.buttons = buttons
  BY <1>1, <1>5, <1>6, SetButtonsPage
<1>12. Unbinds(pg, {n \in Led(pg) : pg.maps[n].bind.button_id = b}, new)
  <2>1. Unbinds(pg, names, new)
    BY <1>5, <1>11 DEF Unbinds
  <2> QED
    BY <1>2, <2>1
<1>13. \A k \in DOMAIN pg.index :
          pg.maps[pg.index[k]].bind.button_id # b => k \in DOMAIN new.index
  BY <1>3, <1>4, <1>7, <1>11
<1> QED
  BY <1>7, <1>8, <1>9, <1>10, <1>11, <1>12, <1>13 DEF DropsButton, new

\* A remote is gone.
DropsRemote(pg, r, new) ==
    /\ new \in Page
    /\ new.up = pg.up /\ new.panels = pg.panels /\ new.buttons = pg.buttons
    /\ new.deleted = pg.deleted /\ new.temp_id = pg.temp_id /\ new.index = pg.index
    /\ new.remotes = pg.remotes \ {r}
    /\ Unbinds(pg, {n \in Led(pg) : pg.maps[n].bind.remote_id = r}, new)

SetRemotes(pg, maps, known) == [pg EXCEPT !.maps = maps, !.remotes = known]

LEMMA SetRemotesPage ==
    ASSUME NEW pg \in Page, NEW maps \in Partial(Name, Element), NEW known \in SUBSET Nat
    PROVE  LET new == SetRemotes(pg, maps, known)
           IN  /\ new \in Page
               /\ new.up = pg.up /\ new.panels = pg.panels /\ new.buttons = pg.buttons
               /\ new.deleted = pg.deleted /\ new.temp_id = pg.temp_id
               /\ new.maps = maps /\ new.index = pg.index /\ new.remotes = known
BY DEF Page, SetRemotes

LEMMA RemoteGonePage ==
    ASSUME NEW pg \in Page, NEW r
    PROVE  DropsRemote(pg, r, delete_remote_callback(pg, r))
<1> DEFINE new   == delete_remote_callback(pg, r)
           keys  == {k \in DOMAIN pg.index : pg.maps[pg.index[k]].bind.remote_id = r}
           names == {pg.index[k] : k \in keys}
           maps  == unbind_elements(pg.maps, names)
           known == pg.remotes \ {r}
<1>1. new = SetRemotes(pg, maps, known)
  BY DEF delete_remote_callback, SetRemotes
<1>2. names = {n \in Led(pg) : pg.maps[n].bind.remote_id = r}
  BY DEF Led
<1> HIDE DEF keys, names
<1>3. /\ maps \in Partial(Name, Element) /\ DOMAIN maps = DOMAIN pg.maps
      /\ \A n \in DOMAIN pg.maps : maps[n].bind = IF n \in names THEN Unbound
                                                                 ELSE pg.maps[n].bind
  BY UnboundMaps
<1>4. known \in SUBSET Nat
  BY PageParts
<1> HIDE DEF maps, known, new
<1>5. /\ new \in Page
      /\ new.up = pg.up /\ new.panels = pg.panels /\ new.buttons = pg.buttons
      /\ new.deleted = pg.deleted /\ new.temp_id = pg.temp_id
      /\ new.maps = maps /\ new.index = pg.index /\ new.remotes = known
  BY <1>1, <1>3, <1>4, SetRemotesPage
<1>6. Unbinds(pg, {n \in Led(pg) : pg.maps[n].bind.remote_id = r}, new)
  <2>1. Unbinds(pg, names, new)
    BY <1>3, <1>5 DEF Unbinds
  <2> QED
    BY <1>2, <2>1
<1> QED
  BY <1>5, <1>6 DEF DropsRemote, new, known

\* A button was learnt.
Learns(pg, b, r, new) ==
    /\ new \in Page
    /\ new.up = pg.up /\ new.panels = pg.panels /\ new.remotes = pg.remotes
    /\ new.maps = pg.maps /\ new.index = pg.index
    /\ new.deleted = pg.deleted /\ new.temp_id = pg.temp_id
    /\ DOMAIN new.buttons = DOMAIN pg.buttons \cup {b}
    /\ new.buttons[b] = r
    /\ \A c \in DOMAIN pg.buttons \ {b} : new.buttons[c] = pg.buttons[c]

LEMMA LearntPage ==
    ASSUME NEW pg \in Page, NEW b \in Nat, NEW r \in Nat
    PROVE  Learns(pg, b, r, display_remote_button(pg, b, r))
<1> DEFINE new     == display_remote_button(pg, b, r)
           buttons == With(pg.buttons, b, r)
<1>1. new = [pg EXCEPT !.buttons = buttons]
  BY DEF display_remote_button
<1>2. pg.buttons \in Partial(Nat, Nat)
  BY PageParts
<1>3. buttons \in Partial(Nat, Nat)
  BY <1>2, WithPartial
<1>4. DOMAIN buttons = DOMAIN pg.buttons \cup {b}
  BY WithParts
<1>5. buttons[b] = r
  BY WithParts
<1>6. \A c \in DOMAIN pg.buttons \ {b} : buttons[c] = pg.buttons[c]
  BY WithParts
<1> HIDE DEF buttons, new
<1>7. /\ new \in Page
      /\ new.up = pg.up /\ new.panels = pg.panels /\ new.remotes = pg.remotes
      /\ new.maps = pg.maps /\ new.index = pg.index
      /\ new.deleted = pg.deleted /\ new.temp_id = pg.temp_id
      /\ new.buttons = buttons
  BY <1>1, <1>3 DEF Page
<1> QED
  BY <1>4, <1>5, <1>6, <1>7 DEF Learns, new

\* A remote was added.
AddsRemote(pg, r, new) ==
    /\ new \in Page
    /\ new.up = pg.up /\ new.buttons = pg.buttons
    /\ new.maps = pg.maps /\ new.index = pg.index
    /\ new.deleted = pg.deleted /\ new.temp_id = pg.temp_id
    /\ new.panels = pg.panels \cup {r}
    /\ new.remotes = IF r \in pg.panels THEN pg.remotes ELSE pg.remotes \cup {r}

LEMMA AddedPage ==
    ASSUME NEW pg \in Page, NEW r \in Nat
    PROVE  AddsRemote(pg, r, add_remote_callback(pg, r))
<1>1. CASE r \in pg.panels
  <2>1. pg.panels \cup {r} = pg.panels
    BY <1>1
  <2>2. add_remote_callback(pg, r) = pg
    BY <1>1 DEF add_remote_callback
  <2>3. AddsRemote(pg, r, pg)
    BY <1>1, <2>1 DEF AddsRemote
  <2> QED
    BY <2>2, <2>3
<1>2. CASE r \notin pg.panels
  <2> DEFINE new == add_remote_callback(pg, r)
  <2>1. new = [pg EXCEPT !.remotes = pg.remotes \cup {r}, !.panels = pg.panels \cup {r}]
    BY <1>2 DEF add_remote_callback
  <2>2. PICK known, tabs : known = pg.remotes \cup {r} /\ tabs = pg.panels \cup {r}
    OBVIOUS
  <2>3. known \in SUBSET Nat /\ tabs \in SUBSET Nat
    BY <2>2, PageParts
  <2>4. new = [pg EXCEPT !.remotes = known, !.panels = tabs]
    BY <2>1, <2>2
  <2> HIDE DEF new
  <2>5. /\ new \in Page
        /\ new.up = pg.up /\ new.buttons = pg.buttons
        /\ new.maps = pg.maps /\ new.index = pg.index
        /\ new.deleted = pg.deleted /\ new.temp_id = pg.temp_id
        /\ new.panels = tabs /\ new.remotes = known
    BY <2>3, <2>4 DEF Page
  <2> QED
    BY <1>2, <2>2, <2>5 DEF AddsRemote, new
<1> QED
  BY <1>1, <1>2

-----------------------------------------------------------------------------
(***************************************************************************)
(* What the statements make of a table.                                    *)
(***************************************************************************)
Rows(tab) == DOMAIN tab.rows

Inserts(tab, row, new) ==
    /\ new.seq = tab.seq + 1
    /\ Rows(new) = Rows(tab) \cup {tab.seq + 1}
    /\ new.rows[tab.seq + 1] = row
    /\ \A i \in Rows(tab) : new.rows[i] = tab.rows[i]

LEMMA InsertedRow ==
    ASSUME NEW Kind, NEW tab \in Tables(Kind), Rows(tab) \subseteq 1..tab.seq,
           NEW row \in Kind
    PROVE  Insert(tab, row) \in Tables(Kind) /\ Inserts(tab, row, Insert(tab, row))
<1> DEFINE new == Insert(tab, row)
           rows == [i \in DOMAIN tab.rows \cup (tab.seq + 1)..(tab.seq + 1) |->
                      IF i \in DOMAIN tab.rows THEN tab.rows[i] ELSE <<row>>[i - tab.seq]]
<1>1. tab.seq \in Nat /\ tab.rows \in Partial(Nat, Kind)
  BY DEF Tables
<1>2. new = [seq |-> tab.seq + 1, rows |-> rows]
  <2>1. Len(<<row>>) = 1
    OBVIOUS
  <2> QED
    BY <2>1 DEF Insert, InsertAll
<1>3. (tab.seq + 1)..(tab.seq + 1) = {tab.seq + 1} /\ tab.seq + 1 \notin DOMAIN tab.rows
  BY <1>1 DEF Rows
<1>4. DOMAIN rows = DOMAIN tab.rows \cup {tab.seq + 1} /\ rows = [i \in DOMAIN rows |-> rows[i]]
  BY <1>3
<1>5. \A i \in DOMAIN tab.rows : rows[i] = tab.rows[i]
  OBVIOUS
<1>6. rows[tab.seq + 1] = row
  <2>1. (tab.seq + 1) - tab.seq = 1 /\ <<row>>[1] = row
    BY <1>1
  <2> QED
    BY <1>3, <2>1
<1> HIDE DEF rows
<1>7. rows \in Partial(Nat, Kind)
  <2>1. DOMAIN tab.rows \subseteq Nat
    BY <1>1, PartialParts
  <2>2. \A i \in DOMAIN tab.rows : tab.rows[i] \in Kind
    BY <1>1, PartialParts
  <2>3. DOMAIN rows \subseteq Nat /\ \A i \in DOMAIN rows : rows[i] \in Kind
    BY <1>1, <1>4, <1>5, <1>6, <2>1, <2>2
  <2> QED
    BY <1>4, <2>3, IsPartial
<1>8. new.seq = tab.seq + 1 /\ new.rows = rows /\ new \in Tables(Kind)
  BY <1>1, <1>2, <1>7 DEF Tables
<1> HIDE DEF new
<1> QED
  BY <1>4, <1>5, <1>6, <1>8 DEF Inserts, Rows, new

Deletes(tab, ids, new) ==
    /\ new.seq = tab.seq
    /\ Rows(new) = Rows(tab) \ ids
    /\ \A i \in Rows(tab) \ ids : new.rows[i] = tab.rows[i]

LEMMA DeletedRow ==
    ASSUME NEW Kind, NEW tab \in Tables(Kind), NEW ids
    PROVE  Delete(tab, ids) \in Tables(Kind) /\ Deletes(tab, ids, Delete(tab, ids))
<1> DEFINE new == Delete(tab, ids)
           rows == Except(tab.rows, ids)
<1>1. tab.seq \in Nat /\ tab.rows \in Partial(Nat, Kind)
  BY DEF Tables
<1>2. new = [seq |-> tab.seq, rows |-> rows]
  BY DEF Delete, Except
<1>3. rows \in Partial(Nat, Kind)
  BY <1>1, ExceptPartial
<1>4. DOMAIN rows = DOMAIN tab.rows \ ids
  BY ExceptParts
<1>5. \A i \in DOMAIN tab.rows \ ids : rows[i] = tab.rows[i]
  BY ExceptParts
<1> HIDE DEF rows
<1>6. new.seq = tab.seq /\ new.rows = rows /\ new \in Tables(Kind)
  BY <1>1, <1>2, <1>3 DEF Tables
<1> HIDE DEF new
<1> QED
  BY <1>4, <1>5, <1>6 DEF Deletes, Rows, new

Assigns(tab, ids, row, new) ==
    /\ new.seq = tab.seq
    /\ Rows(new) = Rows(tab)
    /\ \A i \in Rows(tab) : new.rows[i] = IF i \in ids THEN row ELSE tab.rows[i]

LEMMA AssignedRow ==
    ASSUME NEW Kind, NEW tab \in Tables(Kind), NEW ids, NEW row \in Kind
    PROVE  Assign(tab, ids, row) \in Tables(Kind) /\ Assigns(tab, ids, row, Assign(tab, ids, row))
<1> DEFINE new == Assign(tab, ids, row)
           rows == [i \in DOMAIN tab.rows |-> IF i \in ids THEN row ELSE tab.rows[i]]
<1>1. tab.seq \in Nat /\ tab.rows \in Partial(Nat, Kind)
  BY DEF Tables
<1>2. new = [seq |-> tab.seq, rows |-> rows]
  BY DEF Assign
<1>3. /\ DOMAIN rows = DOMAIN tab.rows /\ rows = [i \in DOMAIN rows |-> rows[i]]
      /\ \A i \in DOMAIN tab.rows : rows[i] = IF i \in ids THEN row ELSE tab.rows[i]
  OBVIOUS
<1> HIDE DEF rows
<1>4. rows \in Partial(Nat, Kind)
  <2>1. DOMAIN tab.rows \subseteq Nat
    BY <1>1, PartialParts
  <2>2. \A i \in DOMAIN tab.rows : tab.rows[i] \in Kind
    BY <1>1, PartialParts
  <2>3. DOMAIN rows \subseteq Nat /\ \A i \in DOMAIN rows : rows[i] \in Kind
    BY <1>3, <2>1, <2>2
  <2> QED
    BY <1>3, <2>3, IsPartial
<1>5. new.seq = tab.seq /\ new.rows = rows /\ new \in Tables(Kind)
  BY <1>1, <1>2, <1>4 DEF Tables
<1> HIDE DEF new
<1> QED
  BY <1>3, <1>5 DEF Assigns, Rows, new

-----------------------------------------------------------------------------
(***************************************************************************)
(* What names and ids refer to: only rows and buttons that the tables have *)
(* handed out, and a button only together with its remote.                 *)
(***************************************************************************)
RightRemote(b, r) ==
    /\ b \in 1..remote_buttons.seq
    /\ r \in 1..remotes.seq
    /\ b \in Rows(remote_buttons) => r = remote_buttons.rows[b].remote_id

BindOK(x) ==
    /\ x \in Bind
    /\ x = Unbound \/ RightRemote(x.button_id, x.remote_id)

NameOK(name) == name \in Name /\ (IsTemp(name) \/ name[2] \in 1..button_binds.seq)

PageIds(pg) ==
    /\ pg \in Page
    /\ PageOK(pg)
    /\ \A b \in DOMAIN pg.buttons : RightRemote(b, pg.buttons[b])
    /\ \A n \in DOMAIN pg.maps : BindOK(pg.maps[n].bind)

FrameOK(f) ==
    /\ f.type \in {"inserted", "updated", "map_gone", "button_gone", "button_learnt",
                   "remote_gone", "remote_added"}
    /\ (f.type = "inserted" =>
          /\ f.temp_id \in Name /\ IsTemp(f.temp_id)
          /\ f.id \in 1..button_binds.seq /\ BindOK(f.bind))
    /\ (f.type = "updated" =>
          /\ \E i \in 1..button_binds.seq : DOMAIN f.found \subseteq {i}
          /\ \A i \in DOMAIN f.found : BindOK(f.found[i]))
    /\ (f.type = "map_gone" => NameOK(f.id))
    /\ (f.type = "button_gone" => f.id \in 1..remote_buttons.seq)
    /\ (f.type = "button_learnt" => RightRemote(f.id, f.remote_id))
    /\ (f.type \in {"remote_gone", "remote_added"} => f.id \in 1..remotes.seq)

MessageOK(m) ==
    /\ m.type \in {"save_button_map", "delete_button_map", "delete_remote_button",
                   "delete_remote", "learn", "add_remote"}
    /\ (m.type = "save_button_map" => NameOK(m.id) /\ BindOK(m.bind))
    /\ (m.type = "delete_button_map" => NameOK(m.id))
    /\ (m.type = "delete_remote_button" => m.id \in 1..remote_buttons.seq)
    /\ (m.type = "delete_remote" => m.id \in 1..remotes.seq)
    /\ (m.type = "learn" => m.remote_id \in 1..remotes.seq)

TablesOK ==
    /\ remotes \in Tables([name : {"remote"}])
    /\ remote_buttons \in Tables([remote_id : Nat])
    /\ button_binds \in Tables(Bind)
    /\ Rows(remotes) \subseteq 1..remotes.seq
    /\ Rows(remote_buttons) \subseteq 1..remote_buttons.seq
    /\ Rows(button_binds) \subseteq 1..button_binds.seq
    /\ \A b \in Rows(remote_buttons) : remote_buttons.rows[b].remote_id \in 1..remotes.seq
    /\ \A i \in Rows(button_binds) : BindOK(button_binds.rows[i])
    /\ InstalledMaps <= button_binds.seq

PagesOK ==
    /\ page \in [Conns -> Page]
    /\ \A p \in Conns : PageIds(page[p])
    /\ \A p \in Conns : link[p] # "closed" => page[p].up

StreamsOK ==
    /\ \A p \in Conns : \A n \in 1..Len(inbox[p]) : FrameOK(inbox[p][n])
    /\ \A p \in Conns : \A n \in 1..Len(outbox[p]) : MessageOK(outbox[p][n])

Counts ==
    /\ edits \in 0..MaxEdits /\ losses \in 0..MaxLosses
    /\ missed \subseteq Conns
    /\ blind \in BOOLEAN
    /\ late \subseteq 1..button_binds.seq

TInv == HubOK /\ TablesOK /\ PagesOK /\ StreamsOK /\ Counts

\* What a step may do to the tables: ids are not used again, and a button does not
\* change its remote.
Grow ==
    /\ remotes.seq <= remotes'.seq
    /\ remote_buttons.seq <= remote_buttons'.seq
    /\ button_binds.seq <= button_binds'.seq
    /\ remotes'.seq \in Nat /\ remote_buttons'.seq \in Nat /\ button_binds'.seq \in Nat
    /\ \A b \in Rows(remote_buttons') : b <= remote_buttons.seq =>
          /\ b \in Rows(remote_buttons)
          /\ remote_buttons'.rows[b].remote_id = remote_buttons.rows[b].remote_id

LEMMA Seqs == TablesOK => remotes.seq \in Nat /\ remote_buttons.seq \in Nat /\ button_binds.seq \in Nat
BY DEF TablesOK, Tables

LEMMA StillRight ==
    ASSUME TablesOK, Grow, NEW b, NEW r, RightRemote(b, r)
    PROVE  RightRemote(b, r)'
<1>1. b \in 1..remote_buttons'.seq /\ r \in 1..remotes'.seq
  BY Seqs DEF Grow, RightRemote
<1>2. b \in Rows(remote_buttons') => r = remote_buttons'.rows[b].remote_id
  BY Seqs DEF Grow, RightRemote
<1> QED
  BY <1>1, <1>2 DEF RightRemote, Rows

LEMMA StillBind ==
    ASSUME TablesOK, Grow, NEW x, BindOK(x)
    PROVE  BindOK(x)'
BY StillRight DEF BindOK

LEMMA StillName ==
    ASSUME TablesOK, Grow, NEW name, NameOK(name)
    PROVE  NameOK(name)'
BY Seqs DEF NameOK, Grow

LEMMA StillPage ==
    ASSUME TablesOK, Grow, NEW pg, PageIds(pg)
    PROVE  PageIds(pg)'
<1>1. /\ 1..remotes.seq \subseteq 1..remotes'.seq
      /\ 1..remote_buttons.seq \subseteq 1..remote_buttons'.seq
      /\ 1..button_binds.seq \subseteq 1..button_binds'.seq
  BY Seqs DEF Grow
<1>2. PageOK(pg)'
  BY <1>1 DEF PageIds, PageOK
<1>3. \A b \in DOMAIN pg.buttons : RightRemote(b, pg.buttons[b])'
  BY StillRight DEF PageIds
<1>4. \A n \in DOMAIN pg.maps : BindOK(pg.maps[n].bind)'
  BY StillBind DEF PageIds
<1> QED
  BY <1>2, <1>3, <1>4 DEF PageIds

LEMMA StillFrame ==
    ASSUME TablesOK, Grow, NEW f, FrameOK(f)
    PROVE  FrameOK(f)'
<1>1. /\ 1..remotes.seq \subseteq 1..remotes'.seq
      /\ 1..remote_buttons.seq \subseteq 1..remote_buttons'.seq
      /\ 1..button_binds.seq \subseteq 1..button_binds'.seq
  BY Seqs DEF Grow
<1>2. f.type = "inserted" => BindOK(f.bind)'
  BY StillBind DEF FrameOK
<1>3. f.type = "updated" => \A i \in DOMAIN f.found : BindOK(f.found[i])'
  BY StillBind DEF FrameOK
<1>4. f.type = "map_gone" => NameOK(f.id)'
  BY StillName DEF FrameOK
<1>5. f.type = "button_learnt" => RightRemote(f.id, f.remote_id)'
  BY StillRight DEF FrameOK
<1>6. f.type = "updated" => \E i \in 1..button_binds'.seq : DOMAIN f.found \subseteq {i}
  BY <1>1 DEF FrameOK
<1> QED
  BY <1>1, <1>2, <1>3, <1>4, <1>5, <1>6 DEF FrameOK

LEMMA StillMessage ==
    ASSUME TablesOK, Grow, NEW m, MessageOK(m)
    PROVE  MessageOK(m)'
<1>1. /\ 1..remotes.seq \subseteq 1..remotes'.seq
      /\ 1..remote_buttons.seq \subseteq 1..remote_buttons'.seq
  BY Seqs DEF Grow
<1>2. m.type = "save_button_map" => NameOK(m.id)' /\ BindOK(m.bind)'
  BY StillName, StillBind DEF MessageOK
<1>3. m.type = "delete_button_map" => NameOK(m.id)'
  BY StillName DEF MessageOK
<1> QED
  BY <1>1, <1>2, <1>3 DEF MessageOK

-----------------------------------------------------------------------------
(***************************************************************************)
(* A page keeps to what the tables have handed out, whatever it receives.  *)
(***************************************************************************)
ItemsOK(pg, t) ==
    /\ pg \in Page
    /\ DOMAIN pg.buttons \subseteq 1..remote_buttons.seq
    /\ \A b \in DOMAIN pg.buttons : RightRemote(b, pg.buttons[b])
    /\ pg.remotes \subseteq pg.panels /\ pg.panels \subseteq 1..remotes.seq
    /\ \A n \in DOMAIN pg.maps : NameOK(n) /\ (IsTemp(n) => n[2] < t) /\ BindOK(pg.maps[n].bind)
    /\ \A k \in DOMAIN pg.index : NameOK(k) /\ pg.index[k] \in DOMAIN pg.maps
    /\ \A n \in pg.deleted : NameOK(n)

LEMMA ItemsPage == ASSUME NEW pg \in Page PROVE PageIds(pg) <=> ItemsOK(pg, pg.temp_id)
<1>1. /\ DOMAIN pg.maps \subseteq Name /\ DOMAIN pg.index \subseteq Name
      /\ pg.deleted \subseteq Name
  BY PageParts
<1>2. \A n \in Name : n[2] \in Nat
  BY Names
<1>3. \A n \in Name : NameOK(n) <=> IF IsTemp(n) THEN n[2] \in Nat
                                                 ELSE n[2] \in 1..button_binds.seq
  BY <1>2 DEF NameOK
<1>4. ASSUME PageIds(pg) PROVE ItemsOK(pg, pg.temp_id)
  BY <1>1, <1>3, <1>4 DEF PageIds, PageOK, ItemsOK
<1>5. ASSUME ItemsOK(pg, pg.temp_id) PROVE PageIds(pg)
  <2>1. PageOK(pg)
    BY <1>1, <1>3, <1>5 DEF PageOK, ItemsOK
  <2> QED
    BY <1>5, <2>1 DEF PageIds, ItemsOK
<1> QED
  BY <1>4, <1>5

LEMMA DisplaysItems ==
    ASSUME NEW pg, NEW t \in Nat, ItemsOK(pg, t), NEW name, NameOK(name),
           IsTemp(name) => name[2] < t,
           NEW bind, BindOK(bind), NEW new, Displays(pg, name, bind, new)
    PROVE  ItemsOK(new, t)
<1>1. BindOK(Unbound)
  BY Binds DEF BindOK
<1>2. BindOK(Shown(pg, name))
  BY <1>1 DEF Shown, ItemsOK
<1>3. \A n \in DOMAIN new.maps : NameOK(n) /\ (IsTemp(n) => n[2] < t) /\ BindOK(new.maps[n].bind)
  BY <1>2 DEF ItemsOK, Displays
<1>4. \A k \in DOMAIN new.index : NameOK(k) /\ new.index[k] \in DOMAIN new.maps
  BY DEF ItemsOK, Displays
<1> QED
  BY <1>3, <1>4 DEF ItemsOK, Displays, SameButtons

LEMMA NamesRowItems ==
    ASSUME NEW pg, NEW t \in Nat, ItemsOK(pg, t), NEW temp, NEW i, NameOK(Row(i)),
           NEW bind, BindOK(bind), NEW new, NamesRow(pg, temp, i, bind, new)
    PROVE  ItemsOK(new, t)
<1>1. BindOK(Unbound) /\ ~ IsTemp(Row(i))
  BY Binds, Names DEF BindOK
<1>2. BindOK(Shown(pg, Row(i)))
  BY <1>1 DEF Shown, ItemsOK
<1>3. BindOK(new.maps[Row(i)].bind)
  BY <1>2 DEF NamesRow, ItemsOK
<1>4. \A n \in DOMAIN new.maps : NameOK(n) /\ (IsTemp(n) => n[2] < t) /\ BindOK(new.maps[n].bind)
  BY <1>1, <1>3 DEF ItemsOK, NamesRow
<1>5. ASSUME NEW k \in DOMAIN new.index PROVE NameOK(k) /\ new.index[k] \in DOMAIN new.maps
  <2>1. CASE k = Row(i)
    BY <2>1 DEF NamesRow
  <2>2. CASE k # Row(i)
    <3>1. k \in DOMAIN pg.index /\ NameOK(k) /\ pg.index[k] \in DOMAIN pg.maps
      BY <2>2 DEF NamesRow, ItemsOK
    <3>2. new.index[k] = IF temp \in DOMAIN pg.maps /\ pg.index[k] = temp THEN Row(i)
                                                                         ELSE pg.index[k]
      BY <2>2, <3>1 DEF NamesRow
    <3> QED
      BY <3>1, <3>2 DEF NamesRow
  <2> QED
    BY <2>1, <2>2
<1> QED
  BY <1>4, <1>5 DEF ItemsOK, NamesRow, SameButtons

LEMMA HidesItems ==
    ASSUME NEW pg, NEW t \in Nat, ItemsOK(pg, t), NEW name, NameOK(name), NEW new,
           Hides(pg, name, new)
    PROVE  ItemsOK(new, t)
<1>1. \A n \in DOMAIN new.maps : NameOK(n) /\ (IsTemp(n) => n[2] < t) /\ BindOK(new.maps[n].bind)
  BY DEF ItemsOK, Hides
<1>2. \A k \in DOMAIN new.index : NameOK(k) /\ new.index[k] \in DOMAIN new.maps
  BY DEF ItemsOK, Hides
<1> QED
  BY <1>1, <1>2 DEF ItemsOK, Hides, SameButtons

LEMMA UnbindsItems ==
    ASSUME NEW pg, NEW t \in Nat, ItemsOK(pg, t), NEW names, NEW new, Unbinds(pg, names, new)
    PROVE  \A n \in DOMAIN new.maps :
              NameOK(n) /\ (IsTemp(n) => n[2] < t) /\ BindOK(new.maps[n].bind)
<1>1. BindOK(Unbound)
  BY Binds DEF BindOK
<1> QED
  BY <1>1 DEF Unbinds, ItemsOK

LEMMA DropsButtonItems ==
    ASSUME NEW pg, NEW t \in Nat, ItemsOK(pg, t), NEW b, NEW new, DropsButton(pg, b, new)
    PROVE  ItemsOK(new, t)
<1>1. \A n \in DOMAIN new.maps : NameOK(n) /\ (IsTemp(n) => n[2] < t) /\ BindOK(new.maps[n].bind)
  BY UnbindsItems DEF DropsButton
<1>2. \A k \in DOMAIN new.index : NameOK(k) /\ new.index[k] \in DOMAIN new.maps
  BY DEF ItemsOK, DropsButton, Unbinds
<1> QED
  BY <1>1, <1>2 DEF ItemsOK, DropsButton

LEMMA DropsRemoteItems ==
    ASSUME NEW pg, NEW t \in Nat, ItemsOK(pg, t), NEW r, NEW new, DropsRemote(pg, r, new)
    PROVE  ItemsOK(new, t)
<1>1. \A n \in DOMAIN new.maps : NameOK(n) /\ (IsTemp(n) => n[2] < t) /\ BindOK(new.maps[n].bind)
  BY UnbindsItems DEF DropsRemote
<1>2. \A k \in DOMAIN new.index : NameOK(k) /\ new.index[k] \in DOMAIN new.maps
  BY DEF ItemsOK, DropsRemote, Unbinds
<1> QED
  BY <1>1, <1>2 DEF ItemsOK, DropsRemote

LEMMA LearnsItems ==
    ASSUME NEW pg, NEW t \in Nat, ItemsOK(pg, t), NEW b, NEW r, RightRemote(b, r),
           NEW new, Learns(pg, b, r, new)
    PROVE  ItemsOK(new, t)
<1>1. /\ DOMAIN new.buttons \subseteq 1..remote_buttons.seq
      /\ \A c \in DOMAIN new.buttons : RightRemote(c, new.buttons[c])
  <2>1. b \in 1..remote_buttons.seq
    BY DEF RightRemote
  <2> QED
    BY <2>1 DEF Learns, ItemsOK
<1> QED
  BY <1>1 DEF ItemsOK, Learns

LEMMA AddsRemoteItems ==
    ASSUME NEW pg, NEW t \in Nat, ItemsOK(pg, t), NEW r \in 1..remotes.seq,
           NEW new, AddsRemote(pg, r, new)
    PROVE  ItemsOK(new, t)
BY DEF ItemsOK, AddsRemote

\* The reply to an update has the row that there still is.
Refreshes(pg, found, new) ==
    \/ new = pg /\ \A i \in DOMAIN found : Row(i) \in pg.deleted
    \/ \E i \in DOMAIN found : /\ DOMAIN found = {i} /\ Row(i) \notin pg.deleted
                               /\ Displays(pg, Row(i), found[i], new)

\* What a frame makes of a page.
Receives(pg, f, new) ==
    /\ f.type = "inserted"      => NamesRow(pg, f.temp_id, f.id, f.bind, new)
    /\ f.type = "updated"       => Refreshes(pg, f.found, new)
    /\ f.type = "map_gone"      => Hides(pg, f.id, new)
    /\ f.type = "button_gone"   => DropsButton(pg, f.id, new)
    /\ f.type = "button_learnt" => Learns(pg, f.id, f.remote_id, new)
    /\ f.type = "remote_gone"   => DropsRemote(pg, f.id, new)
    /\ f.type = "remote_added"  => AddsRemote(pg, f.id, new)

LEMMA RefreshedPage ==
    ASSUME NEW pg \in Page, NEW found, NEW i \in Nat, DOMAIN found \subseteq {i},
           \A j \in DOMAIN found : found[j] \in Bind
    PROVE  Refreshes(pg, found, refresh_map(pg, found))
<1> DEFINE fresh == {j \in DOMAIN found : Row(j) \notin pg.deleted}
<1>1. CASE fresh = {}
  <2>1. refresh_map(pg, found) = pg
    BY <1>1 DEF refresh_map
  <2> QED
    BY <1>1, <2>1 DEF Refreshes
<1>2. CASE fresh # {}
  <2>1. fresh = {i} /\ i \in DOMAIN found /\ Row(i) \notin pg.deleted /\ DOMAIN found = {i}
    BY <1>2
  <2>2. (CHOOSE j \in fresh : TRUE) = i
    <3> HIDE DEF fresh
    <3> QED
      BY <2>1
  <2>3. refresh_map(pg, found) = display_button_map(pg, Row(i), found[i])
    BY <1>2, <2>2 DEF refresh_map
  <2>4. Displays(pg, Row(i), found[i], display_button_map(pg, Row(i), found[i]))
    BY <2>1, Names, Displayed
  <2> QED
    BY <2>1, <2>3, <2>4 DEF Refreshes
<1> QED
  BY <1>1, <1>2

LEMMA ReceivedPage ==
    ASSUME TablesOK, NEW pg \in Page, NEW f, FrameOK(f)
    PROVE  Receives(pg, f, ws_onmessage(pg, f))
<1> DEFINE new == ws_onmessage(pg, f)
<1>1. /\ 1..remotes.seq \subseteq Nat /\ 1..remote_buttons.seq \subseteq Nat
      /\ 1..button_binds.seq \subseteq Nat
  BY Seqs
<1>2. CASE f.type = "inserted"
  <2>1. new = name_map(pg, f.temp_id, f.id, f.bind)
    BY <1>2 DEF ws_onmessage, save_button_map_callback
  <2>2. f.temp_id \in Name /\ IsTemp(f.temp_id) /\ f.id \in Nat /\ f.bind \in Bind
    BY <1>1, <1>2 DEF FrameOK, BindOK
  <2>3. NamesRow(pg, f.temp_id, f.id, f.bind, new)
    BY <2>1, <2>2, NamedPage
  <2> QED
    BY <1>2, <2>3 DEF Receives
<1>3. CASE f.type = "updated"
  <2>1. new = refresh_map(pg, f.found)
    BY <1>3 DEF ws_onmessage, save_button_map_callback
  <2>2. PICK i \in 1..button_binds.seq : DOMAIN f.found \subseteq {i}
    BY <1>3 DEF FrameOK
  <2>3. \A j \in DOMAIN f.found : f.found[j] \in Bind
    BY <1>3 DEF FrameOK, BindOK
  <2>4. i \in Nat
    BY <1>1
  <2>5. Refreshes(pg, f.found, new)
    BY <2>1, <2>2, <2>3, <2>4, RefreshedPage
  <2> QED
    BY <1>3, <2>5 DEF Receives
<1>4. CASE f.type = "map_gone"
  <2>1. new = delete_button_map_callback(pg, f.id)
    BY <1>4 DEF ws_onmessage
  <2>2. f.id \in Name
    BY <1>4 DEF FrameOK, NameOK
  <2>3. Hides(pg, f.id, new)
    BY <2>1, <2>2, HiddenPage
  <2> QED
    BY <1>4, <2>3 DEF Receives
<1>5. CASE f.type = "button_gone"
  <2>1. new = delete_remote_button_callback(pg, f.id)
    BY <1>5 DEF ws_onmessage
  <2>2. DropsButton(pg, f.id, new)
    BY <2>1, ButtonGonePage
  <2> QED
    BY <1>5, <2>2 DEF Receives
<1>6. CASE f.type = "button_learnt"
  <2>1. new = display_remote_button(pg, f.id, f.remote_id)
    BY <1>6 DEF ws_onmessage
  <2>2. f.id \in Nat /\ f.remote_id \in Nat
    BY <1>1, <1>6 DEF FrameOK, RightRemote
  <2>3. Learns(pg, f.id, f.remote_id, new)
    BY <2>1, <2>2, LearntPage
  <2> QED
    BY <1>6, <2>3 DEF Receives
<1>7. CASE f.type = "remote_gone"
  <2>1. new = delete_remote_callback(pg, f.id)
    BY <1>7 DEF ws_onmessage
  <2>2. DropsRemote(pg, f.id, new)
    BY <2>1, RemoteGonePage
  <2> QED
    BY <1>7, <2>2 DEF Receives
<1>8. CASE f.type = "remote_added"
  <2>1. new = add_remote_callback(pg, f.id)
    BY <1>8 DEF ws_onmessage
  <2>2. f.id \in Nat
    BY <1>1, <1>8 DEF FrameOK
  <2>3. AddsRemote(pg, f.id, new)
    BY <2>1, <2>2, AddedPage
  <2> QED
    BY <1>8, <2>3 DEF Receives
<1> QED
  BY <1>2, <1>3, <1>4, <1>5, <1>6, <1>7, <1>8 DEF FrameOK

LEMMA ReceivedItems ==
    ASSUME TablesOK, NEW pg, PageIds(pg), NEW f, FrameOK(f), NEW new, Receives(pg, f, new)
    PROVE  PageIds(new) /\ new.up = pg.up /\ new.temp_id = pg.temp_id
<1>1. pg \in Page /\ ItemsOK(pg, pg.temp_id) /\ pg.temp_id \in Nat
  <2>1. pg \in Page
    BY DEF PageIds
  <2> QED
    BY <2>1, PageParts, ItemsPage
<1> DEFINE t == pg.temp_id
<1> SUFFICES new \in Page /\ ItemsOK(new, t) /\ new.up = pg.up /\ new.temp_id = t
  BY ItemsPage
<1> HIDE DEF t
<1>t. t \in Nat /\ ItemsOK(pg, t)
  BY <1>1 DEF t
<1>2. CASE f.type = "inserted"
  <2>1. f.id \in Nat /\ NameOK(Row(f.id)) /\ BindOK(f.bind)
    <3>1. f.id \in 1..button_binds.seq /\ BindOK(f.bind)
      BY <1>2 DEF FrameOK
    <3>2. f.id \in Nat
      BY <3>1, Seqs
    <3>3. Row(f.id) \in Name /\ Row(f.id)[2] = f.id
      BY <3>2, Names
    <3> QED
      BY <3>1, <3>2, <3>3 DEF NameOK
  <2>2. NamesRow(pg, f.temp_id, f.id, f.bind, new)
    BY <1>2 DEF Receives
  <2>3. ItemsOK(new, t)
    BY <1>t, <2>1, <2>2, NamesRowItems
  <2> QED
    BY <2>2, <2>3 DEF NamesRow, SameButtons, t
<1>3. CASE f.type = "updated"
  <2>1. Refreshes(pg, f.found, new)
    BY <1>3 DEF Receives
  <2>2. CASE new = pg
    BY <1>1, <2>2 DEF t
  <2>3. CASE new # pg
    <3>1. PICK i \in DOMAIN f.found : Displays(pg, Row(i), f.found[i], new)
      BY <2>1, <2>3 DEF Refreshes
    <3>2. PICK j \in 1..button_binds.seq : DOMAIN f.found \subseteq {j}
      BY <1>3 DEF FrameOK
    <3>3. i \in 1..button_binds.seq /\ BindOK(f.found[i])
      BY <1>3, <3>2 DEF FrameOK
    <3>4. i \in Nat
      BY <3>3, Seqs
    <3>5. Row(i) \in Name /\ Row(i)[2] = i /\ ~ IsTemp(Row(i))
      BY <3>4, Names
    <3>6. NameOK(Row(i))
      BY <3>3, <3>5 DEF NameOK
    <3>7. ItemsOK(new, t)
      BY <1>t, <3>1, <3>3, <3>5, <3>6, DisplaysItems
    <3> QED
      BY <3>1, <3>7 DEF Displays, SameButtons, t
  <2> QED
    BY <2>2, <2>3
<1>4. CASE f.type = "map_gone"
  <2>1. Hides(pg, f.id, new) /\ NameOK(f.id)
    BY <1>4 DEF Receives, FrameOK
  <2>2. ItemsOK(new, t)
    BY <1>t, <2>1, HidesItems
  <2> QED
    BY <2>1, <2>2 DEF Hides, SameButtons, t
<1>5. CASE f.type = "button_gone"
  <2>1. DropsButton(pg, f.id, new)
    BY <1>5 DEF Receives
  <2>2. ItemsOK(new, t)
    BY <1>t, <2>1, DropsButtonItems
  <2> QED
    BY <2>1, <2>2 DEF DropsButton, t
<1>6. CASE f.type = "button_learnt"
  <2>1. Learns(pg, f.id, f.remote_id, new) /\ RightRemote(f.id, f.remote_id)
    BY <1>6 DEF Receives, FrameOK
  <2>2. ItemsOK(new, t)
    BY <1>t, <2>1, LearnsItems
  <2> QED
    BY <2>1, <2>2 DEF Learns, t
<1>7. CASE f.type = "remote_gone"
  <2>1. DropsRemote(pg, f.id, new)
    BY <1>7 DEF Receives
  <2>2. ItemsOK(new, t)
    BY <1>t, <2>1, DropsRemoteItems
  <2> QED
    BY <2>1, <2>2 DEF DropsRemote, t
<1>8. CASE f.type = "remote_added"
  <2>1. AddsRemote(pg, f.id, new) /\ f.id \in 1..remotes.seq
    BY <1>8 DEF Receives, FrameOK
  <2>2. ItemsOK(new, t)
    BY <1>t, <2>1, AddsRemoteItems
  <2> QED
    BY <2>1, <2>2 DEF AddsRemote, t
<1> QED
  BY <1>2, <1>3, <1>4, <1>5, <1>6, <1>7, <1>8 DEF FrameOK

-----------------------------------------------------------------------------
(***************************************************************************)
(* A page is loaded; a user edits it.                                      *)
(***************************************************************************)
IsLoaded(new) ==
    /\ new.remotes = Rows(remotes) /\ new.panels = Rows(remotes)
    /\ DOMAIN new.buttons = Rows(remote_buttons)
    /\ \A b \in Rows(remote_buttons) : new.buttons[b] = remote_buttons.rows[b].remote_id
    /\ DOMAIN new.maps = {Row(i) : i \in Rows(button_binds)}
    /\ \A i \in Rows(button_binds) : new.maps[Row(i)].bind =
          IF button_binds.rows[i].button_id \in Rows(remote_buttons) THEN button_binds.rows[i]
                                                                     ELSE Unbound
    /\ DOMAIN new.index = DOMAIN new.maps
    /\ \A n \in DOMAIN new.index : new.index[n] = n
    /\ new.deleted = {} /\ new.temp_id = 0 /\ new.up = TRUE

LEMMA NoPageItems ==
    ASSUME TablesOK
    PROVE  PageIds(NoPage) /\ NoPage.up = FALSE
<1>1. NoPage \in Page
  <2>1. <<>> \in Partial(Nat, Nat) /\ <<>> \in Partial(Name, Element) /\ <<>> \in Partial(Name, Name)
    BY EmptyPartial
  <2>2. NoPage = [up |-> FALSE, remotes |-> {}, panels |-> {}, buttons |-> <<>>,
                  maps |-> <<>>, index |-> <<>>, deleted |-> {}, temp_id |-> 0]
    BY DEF NoPage
  <2> QED
    BY <2>1, <2>2 DEF Page
<1>2. DOMAIN <<>> = {}
  BY EmptyPartial
<1>3. ItemsOK(NoPage, NoPage.temp_id)
  BY <1>1, <1>2 DEF ItemsOK, NoPage
<1> QED
  BY <1>1, <1>3, ItemsPage DEF NoPage

LEMMA LoadedItems ==
    ASSUME TablesOK
    PROVE  /\ PageIds(Loaded)
           /\ Loaded.up => IsLoaded(Loaded)
           /\ Loaded.up <=> ~ \E i \in Rows(button_binds) :
                 Throws(Rows(remote_buttons), Rows(remotes), button_binds.rows[i])
<1> DEFINE known   == Rows(remote_buttons)
           binds   == button_binds.rows
           throws  == \E i \in DOMAIN binds : Throws(known, Rows(remotes), binds[i])
           names   == {Row(i) : i \in DOMAIN binds}
           buttons == [b \in known |-> remote_buttons.rows[b].remote_id]
           shown(n) == [bind   |-> IF binds[n[2]].button_id \in known THEN binds[n[2]]
                                                                      ELSE Unbound,
                        ready  |-> TRUE,
                        hidden |-> FALSE]
           maps    == [n \in names |-> shown(n)]
           index   == [n \in names |-> n]
           full    == [up |-> TRUE, remotes |-> Rows(remotes), panels |-> Rows(remotes),
                       buttons |-> buttons, maps |-> maps, index |-> index,
                       deleted |-> {}, temp_id |-> 0]
<1>1. Loaded = IF throws THEN NoPage ELSE full
  BY DEF Loaded, Rows
<1>2. /\ Rows(remotes) \subseteq 1..remotes.seq /\ 1..remotes.seq \subseteq Nat
      /\ known \subseteq 1..remote_buttons.seq /\ 1..remote_buttons.seq \subseteq Nat
      /\ DOMAIN binds \subseteq 1..button_binds.seq /\ 1..button_binds.seq \subseteq Nat
      /\ \A b \in known : remote_buttons.rows[b].remote_id \in 1..remotes.seq
      /\ \A i \in DOMAIN binds : BindOK(binds[i])
  <2>1. /\ 1..remotes.seq \subseteq Nat /\ 1..remote_buttons.seq \subseteq Nat
        /\ 1..button_binds.seq \subseteq Nat
    BY Seqs
  <2> QED
    BY <2>1 DEF TablesOK, Rows
<1>3. buttons \in Partial(Nat, Nat) /\ DOMAIN buttons = known
      /\ \A b \in known : buttons[b] = remote_buttons.rows[b].remote_id
  <2>1. /\ DOMAIN buttons = known /\ buttons = [b \in DOMAIN buttons |-> buttons[b]]
        /\ \A b \in known : buttons[b] = remote_buttons.rows[b].remote_id
    OBVIOUS
  <2> HIDE DEF buttons
  <2> QED
    BY <1>2, <2>1, IsPartial
<1>4. /\ names \subseteq Name
      /\ \A n \in names : ~ IsTemp(n) /\ n[2] \in DOMAIN binds /\ NameOK(n)
  <2>1. \A i \in DOMAIN binds : i \in Nat /\ i \in 1..button_binds.seq
    BY <1>2
  <2> QED
    BY <2>1, Names DEF NameOK
<1>5. \A n \in names : shown(n).bind = IF binds[n[2]].button_id \in known THEN binds[n[2]]
                                                                          ELSE Unbound
  OBVIOUS
<1>6. BindOK(Unbound)
  BY Binds DEF BindOK
<1>7. \A n \in names : shown(n) \in Element /\ BindOK(shown(n).bind)
  <2>1. \A n \in names : BindOK(shown(n).bind) /\ shown(n).bind \in Bind
    BY <1>2, <1>4, <1>5, <1>6 DEF BindOK
  <2>2. \A x \in Bind : [bind |-> x, ready |-> TRUE, hidden |-> FALSE] \in Element
    BY DEF Element
  <2>3. \A n \in names : shown(n) = [bind |-> shown(n).bind, ready |-> TRUE, hidden |-> FALSE]
    OBVIOUS
  <2> HIDE DEF shown, names
  <2> QED
    BY <2>1, <2>2, <2>3
<1>8. /\ maps \in Partial(Name, Element) /\ DOMAIN maps = names
      /\ \A n \in names : maps[n] = shown(n)
  <2>1. /\ DOMAIN maps = names /\ maps = [n \in DOMAIN maps |-> maps[n]]
        /\ \A n \in names : maps[n] = shown(n)
    OBVIOUS
  <2> HIDE DEF maps, shown, names
  <2> QED
    BY <1>4, <1>7, <2>1, IsPartial
<1>9. /\ index \in Partial(Name, Name) /\ DOMAIN index = names
      /\ \A n \in names : index[n] = n
  <2>1. /\ DOMAIN index = names /\ index = [n \in DOMAIN index |-> index[n]]
        /\ \A n \in names : index[n] = n
    OBVIOUS
  <2> HIDE DEF index, names
  <2> QED
    BY <1>4, <2>1, IsPartial
<1>10. Rows(remotes) \in SUBSET Nat
  BY <1>2
<1> HIDE DEF maps, index, buttons
<1>11. full \in Page
  <2> HIDE DEF names, known, binds
  <2> QED
    BY <1>3, <1>8, <1>9, <1>10 DEF Page
<1>12. ItemsOK(full, 0)
  <2>1. \A n \in DOMAIN full.maps : NameOK(n) /\ (IsTemp(n) => n[2] < 0) /\ BindOK(full.maps[n].bind)
    BY <1>4, <1>7, <1>8
  <2>2. \A b \in DOMAIN full.buttons : RightRemote(b, full.buttons[b])
    <3>1. \A b \in known : RightRemote(b, remote_buttons.rows[b].remote_id)
      BY <1>2 DEF RightRemote
    <3> QED
      BY <1>3, <3>1
  <2>3. \A k \in DOMAIN full.index : NameOK(k) /\ full.index[k] \in DOMAIN full.maps
    BY <1>4, <1>8, <1>9
  <2> HIDE DEF names, binds
  <2> QED
    BY <1>2, <1>3, <1>11, <2>1, <2>2, <2>3 DEF ItemsOK
<1>13. PageIds(full)
  <2>1. full.temp_id = 0
    OBVIOUS
  <2> HIDE DEF full
  <2> QED
    BY <1>11, <1>12, <2>1, ItemsPage
<1>14. IsLoaded(full)
  <2>1. \A i \in DOMAIN binds : full.maps[Row(i)].bind =
           IF binds[i].button_id \in known THEN binds[i] ELSE Unbound
    <3>1. ASSUME NEW i \in DOMAIN binds
          PROVE  full.maps[Row(i)].bind =
                    IF binds[i].button_id \in known THEN binds[i] ELSE Unbound
      <4>1. Row(i) \in names /\ Row(i)[2] = i
        BY Names
      <4> QED
        BY <1>5, <1>8, <4>1
    <3> QED
      BY <3>1
  <2>2. DOMAIN full.index = DOMAIN full.maps /\ \A n \in DOMAIN full.index : full.index[n] = n
    BY <1>8, <1>9
  <2> QED
    BY <1>3, <1>8, <2>1, <2>2 DEF IsLoaded, Rows
<1>15. full.up = TRUE
  OBVIOUS
<1>16. throws \in BOOLEAN /\ (throws <=> \E i \in Rows(button_binds) :
                 Throws(Rows(remote_buttons), Rows(remotes), button_binds.rows[i]))
  BY DEF Rows
<1> HIDE DEF full, throws
<1>17. CASE throws
  BY <1>1, <1>16, <1>17, NoPageItems
<1>18. CASE ~ throws
  BY <1>1, <1>13, <1>14, <1>15, <1>16, <1>18
<1> QED
  BY <1>17, <1>18

\* The bind that a button which is there to be dragged gives.
Offers(pg, x) ==
    /\ x.button_id \in DOMAIN pg.buttons
    /\ x.remote_id = pg.buttons[x.button_id]
    /\ x.remote_id \in pg.remotes

\* What an edit leaves of a page: only elements change, and a new one is temporary.
Touches(pg, new) ==
    /\ new.up = pg.up /\ new.remotes = pg.remotes /\ new.panels = pg.panels
    /\ new.buttons = pg.buttons /\ new.deleted = pg.deleted
    /\ DOMAIN pg.maps \subseteq DOMAIN new.maps
    /\ \A n \in DOMAIN new.maps \ DOMAIN pg.maps : IsTemp(n)
    /\ DOMAIN pg.index \subseteq DOMAIN new.index
    /\ \A k \in DOMAIN pg.index : ~ IsTemp(k) => new.index[k] = pg.index[k]

\* An edit sends what it changes.
Edits(pg, messages, new) ==
    /\ PageIds(new) /\ Touches(pg, new)
    /\ IsSeq(messages)
    /\ \A n \in 1..Len(messages) : MessageOK(messages[n])
    /\ \A n \in 1..Len(messages) : messages[n].type = "save_button_map" =>
          \/ messages[n].bind = Unbound
          \/ \E name \in DOMAIN pg.maps : messages[n].bind = pg.maps[name].bind
          \/ Offers(pg, messages[n].bind)
    /\ \A name \in DOMAIN new.maps :
          \/ new.maps[name].bind = Shown(pg, name)
          \/ /\ Offers(pg, new.maps[name].bind)
             /\ \E n \in 1..Len(messages) : messages[n] = SaveMap(name, new.maps[name].bind)

LEMMA OneMessage ==
    ASSUME NEW m
    PROVE  /\ IsSeq(<<m>>) /\ Len(<<m>>) = 1 /\ <<m>>[1] = m
           /\ \A n \in 1..Len(<<m>>) : n = 1
BY OneStream

LEMMA TwoMessages ==
    ASSUME NEW m, NEW k
    PROVE  /\ IsSeq(<<m, k>>) /\ Len(<<m, k>>) = 2 /\ <<m, k>>[1] = m /\ <<m, k>>[2] = k
           /\ \A n \in 1..Len(<<m, k>>) : n = 1 \/ n = 2
<1>1. <<m, k>> \in Seq({m, k})
  OBVIOUS
<1>2. Len(<<m, k>>) = 2 /\ <<m, k>>[1] = m /\ <<m, k>>[2] = k
  OBVIOUS
<1>3. \A n \in 1..Len(<<m, k>>) : n = 1 \/ n = 2
  BY <1>2
<1>4. IsSeq(<<m, k>>)
  BY <1>1 DEF IsSeq
<1> QED
  BY <1>2, <1>3, <1>4

\* A page that an edit leaves as it is.
LEMMA SamePageEdit ==
    ASSUME NEW pg, PageIds(pg), NEW messages, IsSeq(messages),
           \A n \in 1..Len(messages) : MessageOK(messages[n]),
           \A n \in 1..Len(messages) : messages[n].type = "save_button_map" =>
              \E name \in DOMAIN pg.maps : messages[n].bind = pg.maps[name].bind
    PROVE  Edits(pg, messages, pg)
BY DEF Edits, Touches, Shown

LEMMA AddMapEdit ==
    ASSUME TablesOK, NEW pg, PageIds(pg), NEW new,
           new = [display_button_map(pg, Temp(pg.temp_id), Unbound) EXCEPT !.temp_id = @ + 1]
    PROVE  Edits(pg, <<SaveMap(Temp(pg.temp_id), Unbound)>>, new)
<1> DEFINE t    == pg.temp_id
           name == Temp(t)
           mid  == display_button_map(pg, name, Unbound)
           m    == SaveMap(name, Unbound)
<1>1. pg \in Page /\ t \in Nat /\ ItemsOK(pg, t)
  <2>1. pg \in Page
    BY DEF PageIds
  <2> QED
    BY <2>1, PageParts, ItemsPage
<1>2. name \in Name /\ IsTemp(name) /\ name[2] = t
  BY <1>1, Names
<1>3. NameOK(name) /\ BindOK(Unbound) /\ Unbound \in Bind /\ Unbound.button_id = 0
  BY <1>2, Binds DEF NameOK, BindOK
<1>4. Displays(pg, name, Unbound, mid)
  BY <1>1, <1>2, <1>3, Displayed
<1>5. new = [mid EXCEPT !.temp_id = mid.temp_id + 1]
  OBVIOUS
<1> HIDE DEF mid
<1>6. mid \in Page /\ mid.temp_id = t
  BY <1>4 DEF Displays, SameButtons
<1>7. /\ new \in Page /\ new.temp_id = t + 1
      /\ new.up = mid.up /\ new.remotes = mid.remotes /\ new.panels = mid.panels
      /\ new.buttons = mid.buttons /\ new.deleted = mid.deleted
      /\ new.maps = mid.maps /\ new.index = mid.index
  BY <1>1, <1>5, <1>6 DEF Page
<1>8. name \notin DOMAIN pg.maps /\ 0 \notin DOMAIN pg.buttons
  <2>1. 0 \notin DOMAIN pg.buttons
    BY Seqs DEF PageIds, PageOK
  <2>2. \A n \in DOMAIN pg.maps : IsTemp(n) => n[2] < t
    BY DEF PageIds, PageOK
  <2> QED
    BY <1>1, <1>2, <2>1, <2>2
<1> HIDE DEF name, t
<1>9. ItemsOK(pg, t + 1)
  <2>1. \A n \in DOMAIN pg.maps : NameOK(n) /\ (IsTemp(n) => n[2] < t + 1) /\ BindOK(pg.maps[n].bind)
    <3>1. \A n \in DOMAIN pg.maps :
             n \in Name /\ NameOK(n) /\ (IsTemp(n) => n[2] < t) /\ BindOK(pg.maps[n].bind)
      BY <1>1 DEF ItemsOK, NameOK
    <3>2. \A n \in Name : n[2] \in Nat
      BY Names
    <3>3. \A k \in Nat : k < t => k < t + 1
      BY <1>1
    <3> QED
      BY <3>1, <3>2, <3>3
  <2> QED
    BY <1>1, <2>1 DEF ItemsOK
<1>10. ItemsOK(mid, t + 1)
  <2>1. t + 1 \in Nat /\ name[2] < t + 1
    BY <1>1, <1>2
  <2> QED
    BY <1>3, <1>4, <1>9, <2>1, DisplaysItems
<1>11. PageIds(new)
  <2>1. ItemsOK(new, new.temp_id)
    BY <1>7, <1>10 DEF ItemsOK
  <2> QED
    BY <1>7, <2>1, ItemsPage
<1>12. Touches(pg, new)
  <2>1. DOMAIN new.maps = DOMAIN pg.maps \cup {name} /\ DOMAIN new.index = DOMAIN pg.index \cup {name}
    BY <1>4, <1>7 DEF Displays
  <2>2. \A k \in DOMAIN pg.index : ~ IsTemp(k) => new.index[k] = pg.index[k]
    BY <1>2, <1>4, <1>7 DEF Displays
  <2> QED
    BY <1>2, <1>4, <1>7, <2>1, <2>2 DEF Touches, Displays, SameButtons
<1>13. MessageOK(m) /\ m.type = "save_button_map" /\ m.bind = Unbound
  BY <1>3 DEF MessageOK, SaveMap
<1>14. \A n \in DOMAIN new.maps : new.maps[n].bind = Shown(pg, n)
  BY <1>3, <1>4, <1>7, <1>8 DEF Displays, Shown
<1> HIDE DEF m
<1>15. Edits(pg, <<m>>, new)
  BY <1>11, <1>12, <1>13, <1>14, OneMessage DEF Edits
<1> QED
  BY <1>15 DEF m, name, t

LEMMA MapButtonEdit ==
    ASSUME TablesOK, NEW pg, PageIds(pg), NEW name \in DOMAIN pg.maps,
           NEW b \in DOMAIN pg.buttons, pg.buttons[b] \in pg.remotes,
           NEW bind, bind = Button(b, pg.buttons[b])
    PROVE  Edits(pg, <<SaveMap(name, bind)>>, [pg EXCEPT !.maps[name].bind = bind])
<1> DEFINE new  == [pg EXCEPT !.maps[name].bind = bind]
           shown == [pg.maps[name] EXCEPT !.bind = bind]
           maps == [pg.maps EXCEPT ![name] = shown]
           m    == SaveMap(name, bind)
<1>1. pg \in Page /\ pg.temp_id \in Nat /\ ItemsOK(pg, pg.temp_id)
  <2>1. pg \in Page
    BY DEF PageIds
  <2> QED
    BY <2>1, PageParts, ItemsPage
<1>2. BindOK(bind) /\ bind \in Bind /\ bind.button_id = b /\ bind.remote_id = pg.buttons[b]
  <2>1. RightRemote(b, pg.buttons[b])
    BY DEF PageIds
  <2>2. bind.button_id = b /\ bind.remote_id = pg.buttons[b]
    BY Binds
  <2>3. b \in Nat /\ pg.buttons[b] \in Nat
    BY <1>1, PageParts
  <2>4. bind \in Bind
    BY <2>3, Binds
  <2> QED
    BY <2>1, <2>2, <2>4 DEF BindOK
<1>3. new = [pg EXCEPT !.maps = maps]
  OBVIOUS
<1>4. shown \in Element /\ shown.bind = bind
  <2>1. pg.maps[name] \in Element
    BY <1>1, PageParts
  <2> QED
    BY <1>2, <2>1 DEF Element
<1> HIDE DEF new, shown
<1>5. /\ maps \in Partial(Name, Element) /\ DOMAIN maps = DOMAIN pg.maps /\ maps[name] = shown
      /\ \A n \in DOMAIN pg.maps \ {name} : maps[n] = pg.maps[n]
  <2>1. /\ DOMAIN maps = DOMAIN pg.maps /\ maps = [n \in DOMAIN maps |-> maps[n]]
        /\ maps[name] = shown
        /\ \A n \in DOMAIN pg.maps \ {name} : maps[n] = pg.maps[n]
    <3>1. pg.maps = [n \in DOMAIN pg.maps |-> pg.maps[n]]
      BY <1>1, PageParts, PartialParts
    <3> QED
      BY <3>1
  <2>2. DOMAIN pg.maps \subseteq Name /\ \A n \in DOMAIN pg.maps : pg.maps[n] \in Element
    BY <1>1, PageParts
  <2> HIDE DEF maps
  <2>3. \A n \in DOMAIN maps : maps[n] \in Element
    BY <1>4, <2>1, <2>2
  <2> QED
    BY <2>1, <2>2, <2>3, IsPartial
<1> HIDE DEF maps
<1>6. /\ new \in Page /\ new.temp_id = pg.temp_id
      /\ new.up = pg.up /\ new.remotes = pg.remotes /\ new.panels = pg.panels
      /\ new.buttons = pg.buttons /\ new.deleted = pg.deleted
      /\ new.maps = maps /\ new.index = pg.index
  BY <1>1, <1>3, <1>5 DEF Page
<1>7. \A n \in DOMAIN pg.maps : new.maps[n].bind = IF n = name THEN bind ELSE pg.maps[n].bind
  BY <1>4, <1>5, <1>6
<1>8. DOMAIN new.maps = DOMAIN pg.maps
  BY <1>5, <1>6
<1>9. PageIds(new)
  <2>1. ItemsOK(new, pg.temp_id)
    BY <1>1, <1>2, <1>6, <1>7, <1>8 DEF ItemsOK
  <2> QED
    BY <1>6, <2>1, ItemsPage
<1>10. Touches(pg, new)
  BY <1>6, <1>8 DEF Touches
<1>11. MessageOK(m) /\ m.type = "save_button_map" /\ m.bind = bind
  <2>1. NameOK(name)
    BY <1>1 DEF ItemsOK
  <2> QED
    BY <1>2, <2>1 DEF MessageOK, SaveMap
<1>12. Offers(pg, bind)
  BY <1>2 DEF Offers
<1>13. \A n \in DOMAIN new.maps :
          \/ new.maps[n].bind = Shown(pg, n)
          \/ n = name /\ new.maps[n].bind = bind
  BY <1>7, <1>8 DEF Shown
<1>14. m = SaveMap(name, bind)
  OBVIOUS
<1> HIDE DEF m
<1>15. Edits(pg, <<m>>, new)
  BY <1>9, <1>10, <1>11, <1>12, <1>13, <1>14, OneMessage DEF Edits
<1> QED
  BY <1>14, <1>15 DEF new

-----------------------------------------------------------------------------
(***************************************************************************)
(* Steps: what was right of a page or a message remains right.             *)
(***************************************************************************)
LEMMA PageStays ==
    ASSUME TablesOK, Grow, NEW q \in Conns, PageIds(page[q]), page'[q] = page[q]
    PROVE  PageIds(page[q])'
<1>1. PICK pg : pg = page[q]
  OBVIOUS
<1>2. PageIds(pg)'
  BY <1>1, StillPage
<1> QED
  BY <1>1, <1>2 DEF PageIds, PageOK, RightRemote, BindOK, NameOK

LEMMA FrameStays ==
    ASSUME TablesOK, Grow, NEW q, NEW n, NEW m, FrameOK(inbox[q][m]), inbox'[q][n] = inbox[q][m]
    PROVE  FrameOK(inbox[q][n])'
<1>1. PICK f : f = inbox[q][m]
  OBVIOUS
<1>2. FrameOK(f)'
  BY <1>1, StillFrame
<1> QED
  BY <1>1, <1>2 DEF FrameOK

LEMMA MessageStays ==
    ASSUME TablesOK, Grow, NEW q, NEW n, NEW m, MessageOK(outbox[q][m]), outbox'[q][n] = outbox[q][m]
    PROVE  MessageOK(outbox[q][n])'
<1>1. PICK f : f = outbox[q][m]
  OBVIOUS
<1>2. MessageOK(f)'
  BY <1>1, StillMessage
<1> QED
  BY <1>1, <1>2 DEF MessageOK

LEMMA StepTInv ==
    ASSUME TInv, HubOK', TablesOK', Grow, Counts', page' \in [Conns -> Page],
           \A q \in Conns : page'[q] = page[q] \/ PageIds(page[q])',
           \A q \in Conns : link'[q] # "closed" => page'[q].up,
           \A q \in Conns : \A n \in 1..Len(inbox'[q]) :
              \/ \E m \in 1..Len(inbox[q]) : inbox'[q][n] = inbox[q][m]
              \/ FrameOK(inbox[q][n])',
           \A q \in Conns : \A n \in 1..Len(outbox'[q]) :
              \/ \E m \in 1..Len(outbox[q]) : outbox'[q][n] = outbox[q][m]
              \/ MessageOK(outbox[q][n])'
    PROVE  TInv'
<1>1. \A q \in Conns : PageIds(page[q])'
  BY PageStays DEF TInv, PagesOK
<1>2. \A q \in Conns : \A n \in 1..Len(inbox'[q]) : FrameOK(inbox[q][n])'
  BY FrameStays DEF TInv, StreamsOK
<1>3. \A q \in Conns : \A n \in 1..Len(outbox'[q]) : MessageOK(outbox[q][n])'
  BY MessageStays DEF TInv, StreamsOK
<1>4. PagesOK'
  BY <1>1 DEF PagesOK
<1>5. StreamsOK'
  BY <1>2, <1>3 DEF StreamsOK
<1> QED
  BY <1>4, <1>5 DEF TInv

LEMMA SameTables ==
    ASSUME TablesOK, UNCHANGED tables
    PROVE  TablesOK' /\ Grow
<1>1. UNCHANGED remotes /\ UNCHANGED remote_buttons /\ UNCHANGED button_binds
  BY DEF tables
<1>2. TablesOK'
  BY <1>1 DEF TablesOK, Rows, BindOK, RightRemote
<1>3. Grow
  <2>1. /\ remotes.seq <= remotes.seq /\ remote_buttons.seq <= remote_buttons.seq
        /\ button_binds.seq <= button_binds.seq
    BY Seqs
  <2>2. Rows(remote_buttons)' = Rows(remote_buttons)
    BY <1>1 DEF Rows
  <2> QED
    BY <1>1, <2>1, <2>2, Seqs DEF Grow, Rows
<1> QED
  BY <1>2, <1>3

\* One page changes.
LEMMA OnePage ==
    ASSUME PagesOK, NEW p \in Conns, NEW new, new \in Page, page' = [page EXCEPT ![p] = new]
    PROVE  /\ page' \in [Conns -> Page] /\ page'[p] = new
           /\ \A q \in Conns \ {p} : page'[q] = page[q]
BY DEF PagesOK

LEMMA InitTInv == Init => TInv
<1> SUFFICES ASSUME Init PROVE TInv
  OBVIOUS
<1> USE BoundsAssumption
<1>1. HubOK
  BY InitHub DEF Init
<1>2. TablesOK
  <2>1. remotes \in Tables([name : {"remote"}]) /\ Rows(remotes) = 1..InstalledRemotes
        /\ remotes.seq = InstalledRemotes
    <3> DEFINE rows == [r \in 1..InstalledRemotes |-> [name |-> "remote"]]
    <3>1. DOMAIN rows = 1..InstalledRemotes /\ rows = [r \in DOMAIN rows |-> rows[r]]
          /\ \A r \in DOMAIN rows : rows[r] \in [name : {"remote"}]
      OBVIOUS
    <3>2. remotes = [seq |-> InstalledRemotes, rows |-> rows]
      BY DEF Init
    <3>3. rows \in Partial(Nat, [name : {"remote"}])
      <4> DEFINE Kind == [name : {"remote"}]
      <4>1. DOMAIN rows \subseteq Nat /\ \A r \in DOMAIN rows : rows[r] \in Kind
        BY <3>1
      <4> HIDE DEF Kind, rows
      <4>2. rows \in Partial(Nat, Kind)
        BY <3>1, <4>1, IsPartial
      <4> QED
        BY <4>2 DEF Kind
    <3> HIDE DEF rows
    <3> QED
      BY <3>1, <3>2, <3>3 DEF Tables, Rows
  <2>2. /\ remote_buttons \in Tables([remote_id : Nat])
        /\ Rows(remote_buttons) = 1..InstalledButtons
        /\ remote_buttons.seq = InstalledButtons
        /\ \A b \in Rows(remote_buttons) : remote_buttons.rows[b].remote_id = 1
    <3> DEFINE rows == [b \in 1..InstalledButtons |-> [remote_id |-> 1]]
    <3>1. DOMAIN rows = 1..InstalledButtons /\ rows = [r \in DOMAIN rows |-> rows[r]]
          /\ \A r \in DOMAIN rows : rows[r] \in [remote_id : Nat] /\ rows[r].remote_id = 1
      OBVIOUS
    <3>2. remote_buttons = [seq |-> InstalledButtons, rows |-> rows]
      BY DEF Init
    <3>3. rows \in Partial(Nat, [remote_id : Nat])
      <4> DEFINE Kind == [remote_id : Nat]
      <4>1. DOMAIN rows \subseteq Nat /\ \A r \in DOMAIN rows : rows[r] \in Kind
        BY <3>1
      <4> HIDE DEF Kind, rows
      <4>2. rows \in Partial(Nat, Kind)
        BY <3>1, <4>1, IsPartial
      <4> QED
        BY <4>2 DEF Kind
    <3> HIDE DEF rows
    <3> QED
      BY <3>1, <3>2, <3>3 DEF Tables, Rows
  <2>3. /\ button_binds \in Tables(Bind) /\ Rows(button_binds) = 1..InstalledMaps
        /\ button_binds.seq = InstalledMaps
        /\ \A i \in Rows(button_binds) : button_binds.rows[i] = Unbound
    <3> DEFINE rows == [i \in 1..InstalledMaps |-> Unbound]
    <3>1. DOMAIN rows = 1..InstalledMaps /\ rows = [r \in DOMAIN rows |-> rows[r]]
          /\ \A r \in DOMAIN rows : rows[r] = Unbound
      OBVIOUS
    <3>2. button_binds = [seq |-> InstalledMaps, rows |-> rows]
      BY DEF Init
    <3> HIDE DEF rows
    <3>3. rows \in Partial(Nat, Bind)
      BY <3>1, Binds, IsPartial
    <3> QED
      BY <3>1, <3>2, <3>3 DEF Tables, Rows
  <2>4. BindOK(Unbound)
    BY Binds DEF BindOK
  <2>5. \A b \in Rows(remote_buttons) : 1 \in 1..InstalledRemotes
    BY <2>2
  <2> HIDE DEF Rows
  <2>6. /\ \A b \in Rows(remote_buttons) : remote_buttons.rows[b].remote_id \in 1..remotes.seq
        /\ \A i \in Rows(button_binds) : BindOK(button_binds.rows[i])
    BY <2>1, <2>2, <2>3, <2>4, <2>5
  <2>7. InstalledMaps <= button_binds.seq
    BY <2>3
  <2> QED
    BY <2>1, <2>2, <2>3, <2>6, <2>7 DEF TablesOK
<1>3. PagesOK
  <2>1. page = [p \in Conns |-> NoPage] /\ \A p \in Conns : link[p] = "closed"
    BY DEF Init, HubInit
  <2>2. PageIds(NoPage) /\ NoPage \in Page
    BY <1>2, NoPageItems DEF PageIds
  <2> QED
    BY <2>1, <2>2 DEF PagesOK
<1>4. StreamsOK
  BY EmptyStream DEF Init, HubInit, StreamsOK
<1>5. Counts
  <2>1. edits = 0 /\ losses = 0 /\ missed = Conns /\ blind = FALSE /\ late = {}
    BY DEF Init
  <2>2. 0 \in 0..MaxEdits /\ 0 \in 0..MaxLosses
    OBVIOUS
  <2> QED
    BY <2>1, <2>2 DEF Counts
<1> QED
  BY <1>1, <1>2, <1>3, <1>4, <1>5 DEF TInv

LEMMA LoadTInv ==
    ASSUME TInv, NEW p \in Conns, LoadPage(p)
    PROVE  /\ TInv'
           /\ page'[p] = Loaded /\ PageIds(Loaded)
           /\ \A q \in Conns \ {p} : page'[q] = page[q]
           /\ UNCHANGED hubVars /\ UNCHANGED tables /\ UNCHANGED blind /\ UNCHANGED late
           /\ missed' = missed \ {p}
           /\ inbox[p] = <<>> /\ outbox[p] = <<>> /\ link[p] = "closed"
<1>1. /\ link[p] = "closed"
      /\ page' = [page EXCEPT ![p] = Loaded]
      /\ missed' = missed \ {p}
      /\ UNCHANGED hubVars /\ UNCHANGED tables /\ UNCHANGED counts
      /\ UNCHANGED blind /\ UNCHANGED late
  BY DEF LoadPage
<1>2. TablesOK /\ PagesOK /\ Counts /\ HubOK
  BY DEF TInv
<1>3. PageIds(Loaded) /\ Loaded \in Page
  BY <1>2, LoadedItems DEF PageIds
<1>4. /\ page' \in [Conns -> Page] /\ page'[p] = Loaded
      /\ \A q \in Conns \ {p} : page'[q] = page[q]
  BY <1>1, <1>2, <1>3, OnePage
<1>5. HubOK' /\ TablesOK' /\ Grow
  BY <1>1, <1>2, SameHub, SameTables
<1>6. PageIds(page[p])'
  <2>1. PICK pg : pg = Loaded
    OBVIOUS
  <2>2. PageIds(pg)'
    BY <1>2, <1>3, <1>5, <2>1, StillPage
  <2> QED
    BY <1>4, <2>1, <2>2 DEF PageIds, PageOK, RightRemote, BindOK, NameOK
<1>7. UNCHANGED link /\ UNCHANGED inbox /\ UNCHANGED outbox
  BY <1>1 DEF hubVars
<1>8. \A q \in Conns : link'[q] # "closed" => page'[q].up
  BY <1>1, <1>2, <1>4, <1>7 DEF PagesOK
<1>9. Counts'
  BY <1>1, <1>2 DEF Counts, counts, tables
<1>10. TInv'
  BY <1>4, <1>5, <1>6, <1>7, <1>8, <1>9, StepTInv
<1>11. inbox[p] = <<>> /\ outbox[p] = <<>>
  BY <1>1, <1>2 DEF HubOK, StreamsIn
<1> QED
  BY <1>1, <1>3, <1>4, <1>10, <1>11

\* The steps of a connection, and a message that nobody hears of.
Quiet(p) ==
    \/ Connect(p)
    \/ NoticeClose(p)
    \/ NoSuchRecord(p) /\ Head(outbox[p]).type # "save_button_map"

LEMMA QuietTInv ==
    ASSUME TInv, NEW p \in Conns, Quiet(p)
    PROVE  /\ TInv'
           /\ UNCHANGED inbox /\ UNCHANGED tables /\ UNCHANGED page /\ UNCHANGED histories
           /\ \A q \in Conns : link'[q] = "open" => link[q] = "open" \/ inbox[q] = <<>>
           /\ \A q \in Conns \ {p} : outbox'[q] = outbox[q]
           /\ \/ outbox'[p] = outbox[p]
              \/ /\ outbox[p] # <<>> /\ outbox'[p] = Tail(outbox[p])
                 /\ Head(outbox[p]).type # "save_button_map"
<1>1. UNCHANGED tables /\ UNCHANGED page /\ UNCHANGED counts /\ UNCHANGED histories
  BY DEF Quiet, Connect, NoticeClose, NoSuchRecord
<1>2. TablesOK /\ PagesOK /\ Counts /\ HubOK
  BY DEF TInv
<1>3. /\ HubOK' /\ UNCHANGED inbox
      /\ \A q \in Conns \ {p} : link'[q] = link[q] /\ outbox'[q] = outbox[q]
      /\ \/ outbox'[p] = outbox[p]
         \/ /\ outbox[p] # <<>> /\ outbox'[p] = Tail(outbox[p])
            /\ Head(outbox[p]).type # "save_button_map"
      /\ link'[p] # "closed" => page[p].up
      /\ link'[p] = "open" => link[p] = "open" \/ inbox[p] = <<>>
  <2>1. CASE Connect(p)
    BY <1>2, <2>1, OpenHub DEF Connect, OthersSame
  <2>2. CASE NoticeClose(p)
    BY <1>2, <2>2, OnCloseHub DEF NoticeClose, OthersSame
  <2>3. CASE NoSuchRecord(p) /\ Head(outbox[p]).type # "save_button_map"
    BY <1>2, <2>3, DroppedHub DEF NoSuchRecord, OthersSame, PagesOK
  <2> QED
    BY <2>1, <2>2, <2>3 DEF Quiet
<1>4. TablesOK' /\ Grow
  BY <1>1, <1>2, SameTables
<1>5. page' \in [Conns -> Page] /\ \A q \in Conns : link'[q] # "closed" => page'[q].up
  BY <1>1, <1>2, <1>3 DEF PagesOK
<1>6. Counts'
  BY <1>1, <1>2 DEF Counts, counts, histories, tables
<1>7. \A q \in Conns : \A n \in 1..Len(outbox'[q]) :
         \E m \in 1..Len(outbox[q]) : outbox'[q][n] = outbox[q][m]
  <2>1. ASSUME outbox[p] # <<>>, outbox'[p] = Tail(outbox[p])
        PROVE  \A n \in 1..Len(outbox'[p]) : \E m \in 1..Len(outbox[p]) : outbox'[p][n] = outbox[p][m]
    <3>1. IsSeq(outbox[p])
      BY <1>2 DEF HubOK, StreamsIn
    <3>2. /\ Len(Tail(outbox[p])) = Len(outbox[p]) - 1 /\ Len(outbox[p]) \in Nat
          /\ \A n \in 1..(Len(outbox[p]) - 1) : Tail(outbox[p])[n] = outbox[p][n + 1]
      BY <2>1, <3>1, TailStream, SeqFacts
    <3>3. \A n \in 1..(Len(outbox[p]) - 1) : n + 1 \in 1..Len(outbox[p])
      BY <3>2
    <3> QED
      BY <2>1, <3>2, <3>3
  <2> QED
    BY <1>3, <2>1
<1>8. TInv'
  BY <1>1, <1>3, <1>4, <1>5, <1>6, <1>7, StepTInv
<1>9. \A q \in Conns : link'[q] = "open" => link[q] = "open" \/ inbox[q] = <<>>
  BY <1>3
<1> QED
  BY <1>1, <1>3, <1>8, <1>9

LEMMA DisconnectTInv ==
    ASSUME TInv, NEW p \in Conns, Disconnect(p)
    PROVE  /\ TInv'
           /\ UNCHANGED tables /\ UNCHANGED page /\ UNCHANGED blind /\ UNCHANGED late
           /\ missed' = IF inbox[p] = <<>> /\ outbox[p] = <<>> THEN missed ELSE missed \cup {p}
           /\ inbox'[p] = <<>> /\ \A q \in Conns \ {p} : inbox'[q] = inbox[q]
           /\ \A q \in Conns : link'[q] = "open" => link[q] = "open"
           /\ \E k \in 0..Len(outbox[p]) : outbox'[p] = SubSeq(outbox[p], 1, k)
           /\ \A q \in Conns \ {p} : outbox'[q] = outbox[q]
<1>1. /\ losses < MaxLosses /\ losses' = losses + 1
      /\ Lose(p)
      /\ missed' = IF inbox[p] = <<>> /\ outbox[p] = <<>> THEN missed ELSE missed \cup {p}
      /\ UNCHANGED tables /\ UNCHANGED page /\ UNCHANGED edits
      /\ UNCHANGED blind /\ UNCHANGED late
  BY DEF Disconnect
<1>2. TablesOK /\ PagesOK /\ Counts /\ HubOK
  BY DEF TInv
<1>3. /\ HubOK' /\ inbox'[p] = <<>> /\ link[p] = "open" /\ link'[p] = "lost"
      /\ \E k \in 0..Len(outbox[p]) : outbox'[p] = SubSeq(outbox[p], 1, k)
      /\ \A q \in Conns \ {p} :
            link'[q] = link[q] /\ outbox'[q] = outbox[q] /\ inbox'[q] = inbox[q]
  BY <1>1, <1>2, LoseHub DEF OthersSame
<1>4. TablesOK' /\ Grow
  BY <1>1, <1>2, SameTables
<1>5. page' \in [Conns -> Page] /\ \A q \in Conns : link'[q] # "closed" => page'[q].up
  BY <1>1, <1>2, <1>3 DEF PagesOK
<1>6. Counts'
  <2>1. losses' \in 0..MaxLosses
    BY <1>1, <1>2, BoundsAssumption DEF Counts
  <2> QED
    BY <1>1, <1>2, <2>1 DEF Counts, tables
<1>7. \A q \in Conns : \A n \in 1..Len(outbox'[q]) :
         \E m \in 1..Len(outbox[q]) : outbox'[q][n] = outbox[q][m]
  <2>1. \A n \in 1..Len(outbox'[p]) : \E m \in 1..Len(outbox[p]) : outbox'[p][n] = outbox[p][m]
    <3>1. IsSeq(outbox[p])
      BY <1>2 DEF HubOK, StreamsIn
    <3>2. PICK k \in 0..Len(outbox[p]) : outbox'[p] = SubSeq(outbox[p], 1, k)
      BY <1>3
    <3>3. /\ Len(outbox'[p]) = k /\ Len(outbox[p]) \in Nat
          /\ \A n \in 1..k : outbox'[p][n] = outbox[p][n]
      BY <3>1, <3>2, PrefixStream, SeqFacts
    <3>4. \A n \in 1..k : n \in 1..Len(outbox[p])
      BY <3>3
    <3> QED
      BY <3>3, <3>4
  <2> QED
    BY <1>3, <2>1
<1>8. \A n : n \notin 1..Len(inbox'[p])
  BY <1>3, EmptyStream
<1>9. TInv'
  BY <1>1, <1>3, <1>4, <1>5, <1>6, <1>7, <1>8, StepTInv
<1>10. \A q \in Conns : link'[q] = "open" => link[q] = "open"
  BY <1>3
<1> QED
  BY <1>1, <1>3, <1>9, <1>10

LEMMA ReceiveTInv ==
    ASSUME TInv, NEW p \in Conns, Receive(p)
    PROVE  /\ TInv'
           /\ UNCHANGED tables /\ UNCHANGED histories /\ UNCHANGED link /\ UNCHANGED outbox
           /\ inbox[p] # <<>> /\ inbox'[p] = Tail(inbox[p])
           /\ FrameOK(Head(inbox[p]))
           /\ \A q \in Conns \ {p} : inbox'[q] = inbox[q] /\ page'[q] = page[q]
           /\ Receives(page[p], Head(inbox[p]), page'[p])
           /\ PageIds(page'[p]) /\ page'[p].up = page[p].up
<1> DEFINE f   == Head(inbox[p])
           new == ws_onmessage(page[p], f)
<1>1. /\ Deliver(p)
      /\ page' = [page EXCEPT ![p] = ws_onmessage(@, f)]
      /\ UNCHANGED tables /\ UNCHANGED counts /\ UNCHANGED histories
  BY DEF Receive
<1>2. TablesOK /\ PagesOK /\ Counts /\ HubOK /\ StreamsOK
  BY DEF TInv
<1>3. /\ HubOK' /\ UNCHANGED link /\ UNCHANGED outbox
      /\ inbox[p] # <<>> /\ inbox'[p] = Tail(inbox[p])
      /\ \A q \in Conns \ {p} : inbox'[q] = inbox[q]
  BY <1>1, <1>2, DeliverHub DEF OthersSame
<1>4. /\ IsSeq(inbox[p]) /\ Len(inbox[p]) \in Nat /\ Len(inbox[p]) > 0
      /\ Len(inbox'[p]) = Len(inbox[p]) - 1 /\ f = inbox[p][1]
      /\ \A n \in 1..(Len(inbox[p]) - 1) : inbox'[p][n] = inbox[p][n + 1]
  <2>1. IsSeq(inbox[p])
    BY <1>2 DEF HubOK, StreamsIn
  <2> QED
    BY <1>3, <2>1, TailStream, SeqFacts
<1>5. FrameOK(f)
  BY <1>2, <1>4 DEF StreamsOK
<1>6. PageIds(page[p]) /\ page[p] \in Page
  BY <1>2 DEF PagesOK
<1>7. page' = [page EXCEPT ![p] = new]
  BY <1>1, <1>2 DEF PagesOK
<1> HIDE DEF f
<1>8. Receives(page[p], f, new)
  BY <1>2, <1>5, <1>6, ReceivedPage
<1> HIDE DEF new
<1>9. PageIds(new) /\ new.up = page[p].up /\ new \in Page
  BY <1>2, <1>5, <1>6, <1>8, ReceivedItems DEF PageIds
<1>10. /\ page' \in [Conns -> Page] /\ page'[p] = new
       /\ \A q \in Conns \ {p} : page'[q] = page[q]
  BY <1>2, <1>7, <1>9, OnePage
<1>11. TablesOK' /\ Grow
  BY <1>1, <1>2, SameTables
<1>12. PageIds(page[p])'
  <2>1. PICK pg : pg = new
    OBVIOUS
  <2>2. PageIds(pg)'
    BY <1>2, <1>9, <1>11, <2>1, StillPage
  <2> QED
    BY <1>10, <2>1, <2>2 DEF PageIds, PageOK, RightRemote, BindOK, NameOK
<1>13. \A q \in Conns : link'[q] # "closed" => page'[q].up
  BY <1>2, <1>3, <1>9, <1>10 DEF PagesOK
<1>14. Counts'
  BY <1>1, <1>2 DEF Counts, counts, histories, tables
<1>15. \A q \in Conns : \A n \in 1..Len(inbox'[q]) :
          \E m \in 1..Len(inbox[q]) : inbox'[q][n] = inbox[q][m]
  <2>1. \A n \in 1..(Len(inbox[p]) - 1) : n + 1 \in 1..Len(inbox[p])
    BY <1>4
  <2> QED
    BY <1>3, <1>4, <2>1
<1>16. TInv'
  BY <1>3, <1>10, <1>11, <1>12, <1>13, <1>14, <1>15, StepTInv
<1>17. PageIds(page'[p]) /\ Receives(page[p], f, page'[p]) /\ page'[p].up = page[p].up
  BY <1>8, <1>9, <1>10
<1> QED
  BY <1>1, <1>3, <1>5, <1>10, <1>16, <1>17 DEF f

LEMMA EditTInv ==
    ASSUME TInv, NEW p \in Conns, NEW messages, NEW new, Edits(page[p], messages, new),
           Edit(p, messages, new)
    PROVE  /\ TInv'
           /\ UNCHANGED tables /\ UNCHANGED missed /\ UNCHANGED late
           /\ UNCHANGED link /\ UNCHANGED inbox
           /\ blind' = (blind \/ p \in missed)
           /\ page'[p] = new
           /\ \A q \in Conns \ {p} : page'[q] = page[q] /\ outbox'[q] = outbox[q]
           /\ outbox'[p] = outbox[p] \o messages
<1>1. /\ edits < MaxEdits /\ edits' = edits + 1
      /\ Send(p, messages)
      /\ page' = [page EXCEPT ![p] = new]
      /\ blind' = (blind \/ p \in missed)
      /\ UNCHANGED tables /\ UNCHANGED losses /\ UNCHANGED missed /\ UNCHANGED late
  BY DEF Edit
<1>2. TablesOK /\ PagesOK /\ Counts /\ HubOK /\ StreamsOK
  BY DEF TInv
<1>3. /\ PageIds(new) /\ Touches(page[p], new) /\ IsSeq(messages) /\ new \in Page
      /\ \A n \in 1..Len(messages) : MessageOK(messages[n])
  BY DEF Edits, PageIds
<1>4. /\ HubOK' /\ UNCHANGED link /\ UNCHANGED inbox
      /\ outbox'[p] = outbox[p] \o messages
      /\ \A q \in Conns \ {p} : outbox'[q] = outbox[q]
  BY <1>1, <1>2, <1>3, SendHub DEF OthersSame
<1>5. /\ page' \in [Conns -> Page] /\ page'[p] = new
      /\ \A q \in Conns \ {p} : page'[q] = page[q]
  BY <1>1, <1>2, <1>3, OnePage
<1>6. TablesOK' /\ Grow
  BY <1>1, <1>2, SameTables
<1>7. PageIds(page[p])'
  <2>1. PICK pg : pg = new
    OBVIOUS
  <2>2. PageIds(pg)'
    BY <1>2, <1>3, <1>6, <2>1, StillPage
  <2> QED
    BY <1>5, <2>1, <2>2 DEF PageIds, PageOK, RightRemote, BindOK, NameOK
<1>8. \A q \in Conns : link'[q] # "closed" => page'[q].up
  BY <1>2, <1>3, <1>4, <1>5 DEF PagesOK, Touches
<1>9. Counts'
  <2>1. edits' \in 0..MaxEdits /\ blind' \in BOOLEAN
    BY <1>1, <1>2, BoundsAssumption DEF Counts
  <2> QED
    BY <1>1, <1>2, <2>1 DEF Counts, tables
<1>10. \A q \in Conns : \A n \in 1..Len(outbox'[q]) :
          \/ \E m \in 1..Len(outbox[q]) : outbox'[q][n] = outbox[q][m]
          \/ MessageOK(outbox[q][n])'
  <2>1. IsSeq(outbox[p]) /\ Len(outbox[p]) \in Nat /\ Len(messages) \in Nat
    BY <1>2, <1>3, SeqFacts DEF HubOK, StreamsIn
  <2>2. /\ Len(outbox'[p]) = Len(outbox[p]) + Len(messages)
        /\ \A n \in 1..Len(outbox[p]) : outbox'[p][n] = outbox[p][n]
        /\ \A n \in 1..Len(messages) : outbox'[p][Len(outbox[p]) + n] = messages[n]
    BY <1>3, <1>4, <2>1, ConcatStream
  <2>3. ASSUME NEW n \in 1..Len(outbox'[p]), n \notin 1..Len(outbox[p])
        PROVE  MessageOK(outbox[p][n])'
    <3>1. /\ n - Len(outbox[p]) \in 1..Len(messages)
          /\ Len(outbox[p]) + (n - Len(outbox[p])) = n
      BY <2>1, <2>2, <2>3
    <3>2. PICK m : m = messages[n - Len(outbox[p])]
      OBVIOUS
    <3>3. outbox'[p][n] = m /\ MessageOK(m)
      BY <1>3, <2>2, <3>1, <3>2
    <3>4. MessageOK(m)'
      BY <1>2, <1>6, <3>3, StillMessage
    <3> QED
      BY <3>3, <3>4 DEF MessageOK
  <2> QED
    BY <1>4, <2>2, <2>3
<1>11. TInv'
  BY <1>4, <1>5, <1>6, <1>7, <1>8, <1>9, <1>10, StepTInv
<1> QED
  BY <1>1, <1>4, <1>5, <1>11

\* The seven ways of editing.
Editing(p) ==
    \/ AddMap(p)
    \/ \E name \in Usable(page[p]), b \in Offered(page[p]) : map_button(p, name, b)
    \/ \E name \in Usable(page[p]) : MoveMap(p, name)
    \/ \E name \in Usable(page[p]) : TrashMap(p, name)
    \/ \E b \in Offered(page[p]) : TrashButton(p, b)
    \/ \E r \in page[p].panels : AddRemoteButton(p, r)
    \/ AddRemote(p)
    \/ \E r \in page[p].remotes : TrashRemote(p, r)

LEMMA EditingPage ==
    ASSUME TInv, NEW p \in Conns, Editing(p)
    PROVE  \E messages, new : Edits(page[p], messages, new) /\ Edit(p, messages, new)
<1> DEFINE pg   == page[p]
           Done == \E messages, new : Edits(pg, messages, new) /\ Edit(p, messages, new)
<1> SUFFICES Done
  OBVIOUS
<1>1. TablesOK /\ PageIds(pg) /\ pg \in Page /\ ItemsOK(pg, pg.temp_id)
  <2>1. TablesOK /\ PageIds(pg) /\ pg \in Page
    BY DEF TInv, PagesOK
  <2> QED
    BY <2>1, ItemsPage
<1>2. Usable(pg) \subseteq DOMAIN pg.maps
  BY DEF Usable
<1>3. \A b \in Offered(pg) : b \in DOMAIN pg.buttons /\ pg.buttons[b] \in pg.remotes
  BY DEF Offered
<1>4. CASE AddMap(p)
  <2> DEFINE new == [display_button_map(pg, Temp(pg.temp_id), Unbound) EXCEPT !.temp_id = @ + 1]
  <2>1. Edit(p, <<SaveMap(Temp(pg.temp_id), Unbound)>>, new)
    BY <1>4 DEF AddMap
  <2>2. Edits(pg, <<SaveMap(Temp(pg.temp_id), Unbound)>>, new)
    BY <1>1, AddMapEdit
  <2> QED
    BY <2>1, <2>2
<1>5. ASSUME NEW name \in Usable(pg), NEW b \in Offered(pg), map_button(p, name, b)
      PROVE  Done
  <2> DEFINE bind == Button(b, pg.buttons[b])
             new  == [pg EXCEPT !.maps[name].bind = bind]
  <2>1. Edit(p, <<SaveMap(name, bind)>>, new)
    BY <1>5 DEF map_button
  <2>2. Edits(pg, <<SaveMap(name, bind)>>, new)
    BY <1>1, <1>2, <1>3, MapButtonEdit
  <2> QED
    BY <2>1, <2>2
<1>6. ASSUME NEW name \in Usable(pg), MoveMap(p, name)
      PROVE  Done
  <2> DEFINE m == SaveMap(name, pg.maps[name].bind)
  <2>1. Edit(p, <<m>>, pg)
    BY <1>6 DEF MoveMap
  <2>2. MessageOK(m) /\ m.bind = pg.maps[name].bind
    BY <1>1, <1>2 DEF MessageOK, SaveMap, ItemsOK
  <2> HIDE DEF m
  <2>3. Edits(pg, <<m>>, pg)
    BY <1>1, <1>2, <2>2, OneMessage, SamePageEdit
  <2> QED
    BY <2>1, <2>3
<1>7. ASSUME NEW name \in Usable(pg), TrashMap(p, name)
      PROVE  Done
  <2> DEFINE k == DeleteMap(name)
             m == SaveMap(name, pg.maps[name].bind)
  <2>1. Edit(p, <<k, m>>, pg)
    BY <1>7 DEF TrashMap
  <2>2. MessageOK(m) /\ m.bind = pg.maps[name].bind
    BY <1>1, <1>2 DEF MessageOK, SaveMap, ItemsOK
  <2>3. MessageOK(k) /\ k.type = "delete_button_map"
    BY <1>1, <1>2 DEF MessageOK, DeleteMap, ItemsOK
  <2> HIDE DEF m, k
  <2>4. Edits(pg, <<k, m>>, pg)
    BY <1>1, <1>2, <2>2, <2>3, TwoMessages, SamePageEdit
  <2> QED
    BY <2>1, <2>4
<1>8. ASSUME NEW m, MessageOK(m), m.type # "save_button_map", Edit(p, <<m>>, pg)
      PROVE  Done
  <2>1. Edits(pg, <<m>>, pg)
    BY <1>1, <1>8, OneMessage, SamePageEdit
  <2> QED
    BY <1>8, <2>1
<1>9. ASSUME NEW b \in Offered(pg), TrashButton(p, b)
      PROVE  Done
  <2>1. Edit(p, <<DropButton(b)>>, pg)
    BY <1>9 DEF TrashButton
  <2>2. MessageOK(DropButton(b)) /\ DropButton(b).type # "save_button_map"
    BY <1>1, <1>3 DEF MessageOK, DropButton, ItemsOK
  <2> QED
    BY <1>8, <2>1, <2>2
<1>10. ASSUME NEW r \in pg.panels, AddRemoteButton(p, r)
       PROVE  Done
  <2>1. Edit(p, <<LearnButton(r)>>, pg)
    BY <1>10 DEF AddRemoteButton
  <2>2. MessageOK(LearnButton(r)) /\ LearnButton(r).type # "save_button_map"
    BY <1>1 DEF MessageOK, LearnButton, ItemsOK
  <2> QED
    BY <1>8, <2>1, <2>2
<1>11. CASE AddRemote(p)
  <2>1. Edit(p, <<NewRemote>>, pg)
    BY <1>11 DEF AddRemote
  <2>2. MessageOK(NewRemote) /\ NewRemote.type # "save_button_map"
    BY DEF MessageOK, NewRemote
  <2> QED
    BY <1>8, <2>1, <2>2
<1>12. ASSUME NEW r \in pg.remotes, TrashRemote(p, r)
       PROVE  Done
  <2>1. Edit(p, <<DropRemote(r)>>, pg)
    BY <1>12 DEF TrashRemote
  <2>2. MessageOK(DropRemote(r)) /\ DropRemote(r).type # "save_button_map"
    BY <1>1 DEF MessageOK, DropRemote, ItemsOK
  <2> QED
    BY <1>8, <2>1, <2>2
<1> HIDE DEF Done
<1>13. \/ AddMap(p)
       \/ \E name \in Usable(pg), b \in Offered(pg) : map_button(p, name, b)
       \/ \E name \in Usable(pg) : MoveMap(p, name)
       \/ \E name \in Usable(pg) : TrashMap(p, name)
       \/ \E b \in Offered(pg) : TrashButton(p, b)
       \/ \E r \in pg.panels : AddRemoteButton(p, r)
       \/ AddRemote(p)
       \/ \E r \in pg.remotes : TrashRemote(p, r)
  BY DEF Editing
<1> QED
  BY <1>4, <1>5, <1>6, <1>7, <1>9, <1>10, <1>11, <1>12, <1>13

-----------------------------------------------------------------------------
(***************************************************************************)
(* What the server does about a message m, and the frame f that tells it.  *)
(***************************************************************************)
Inserting(m, f) ==
    /\ m.type = "save_button_map" /\ IsTemp(m.id)
    /\ f = Inserted(m.id, button_binds.seq + 1, m.bind)
    /\ Inserts(button_binds, m.bind, button_binds')
    /\ UNCHANGED remotes /\ UNCHANGED remote_buttons /\ UNCHANGED late

Updating(m, f) ==
    /\ m.type = "save_button_map" /\ ~ IsTemp(m.id)
    /\ f.type = "updated"
    /\ DOMAIN f.found = Rows(button_binds) \cap {m.id[2]}
    /\ \A i \in DOMAIN f.found : f.found[i] = button_binds'.rows[i]
    /\ \/ m.bind = Unbound /\ button_binds' = button_binds
       \/ m.bind # Unbound /\ Assigns(button_binds, {m.id[2]}, m.bind, button_binds')
    /\ late' = IF m.bind = Unbound \/ m.bind.button_id \in Rows(remote_buttons)
               THEN late ELSE late \cup {m.id[2]}
    /\ UNCHANGED remotes /\ UNCHANGED remote_buttons

DeletingMap(m, f) ==
    /\ m.type = "delete_button_map"
    /\ f = MapGone(m.id)
    /\ \/ IsTemp(m.id) /\ button_binds' = button_binds
       \/ ~ IsTemp(m.id) /\ Deletes(button_binds, {m.id[2]}, button_binds')
    /\ UNCHANGED remotes /\ UNCHANGED remote_buttons /\ UNCHANGED late

\* The rows that are bound to a button, and those that are to a remote's.
BoundTo(b)   == {i \in Rows(button_binds) : button_binds.rows[i].button_id = b}
BoundWith(r) == {i \in Rows(button_binds) : button_binds.rows[i].remote_id = r}
ButtonsOf(r) == {b \in Rows(remote_buttons) : remote_buttons.rows[b].remote_id = r}

DeletingButton(m, f) ==
    /\ m.type = "delete_remote_button"
    /\ f = ButtonGone(m.id)
    /\ m.id \in Rows(remote_buttons)
    /\ Deletes(remote_buttons, {m.id}, remote_buttons')
    /\ Assigns(button_binds, BoundTo(m.id), Unbound, button_binds')
    /\ UNCHANGED remotes /\ UNCHANGED late

Learning(m, f) ==
    /\ m.type = "learn"
    /\ f = ButtonLearnt(remote_buttons.seq + 1, m.remote_id)
    /\ Inserts(remote_buttons, [remote_id |-> m.remote_id], remote_buttons')
    /\ UNCHANGED remotes /\ UNCHANGED button_binds /\ UNCHANGED late

AddingRemote(m, f) ==
    /\ m.type = "add_remote"
    /\ f = RemoteAdded(remotes.seq + 1)
    /\ Inserts(remotes, [name |-> "remote"], remotes')
    /\ UNCHANGED remote_buttons /\ UNCHANGED button_binds /\ UNCHANGED late

DeletingRemote(m, f) ==
    /\ m.type = "delete_remote"
    /\ f = RemoteGone(m.id)
    /\ m.id \in Rows(remotes)
    /\ Deletes(remotes, {m.id}, remotes')
    /\ Deletes(remote_buttons, ButtonsOf(m.id), remote_buttons')
    /\ Assigns(button_binds, BoundWith(m.id), Unbound, button_binds')
    /\ UNCHANGED late

Tabled(m, f) ==
    \/ Inserting(m, f) \/ Updating(m, f) \/ DeletingMap(m, f) \/ DeletingButton(m, f)
    \/ Learning(m, f) \/ AddingRemote(m, f) \/ DeletingRemote(m, f)

\* The kinds of tables after a step, apart from what their rows say.
TableKinds ==
    /\ remotes \in Tables([name : {"remote"}])
    /\ remote_buttons \in Tables([remote_id : Nat])
    /\ button_binds \in Tables(Bind)

LEMMA HandledTables ==
    ASSUME TInv, NEW p \in Conns, Handle(p)
    PROVE  \/ Quiet(p)
           \/ \E f : Reply(p, f) /\ Tabled(Head(outbox[p]), f) /\ TableKinds'
<1> DEFINE m == Head(outbox[p])
           Done == \E f : Reply(p, f) /\ Tabled(m, f) /\ TableKinds'
<1> SUFFICES ASSUME ~ Quiet(p) PROVE Done
  OBVIOUS
<1>1. /\ TablesOK /\ TableKinds
      /\ Rows(remotes) \subseteq 1..remotes.seq
      /\ Rows(remote_buttons) \subseteq 1..remote_buttons.seq
      /\ Rows(button_binds) \subseteq 1..button_binds.seq
  BY DEF TInv, TablesOK, TableKinds
<1>2. HasMessage(p) => MessageOK(m)
  <2>1. StreamsOK /\ IsSeq(outbox[p])
    BY DEF TInv, HubOK, StreamsIn
  <2>2. outbox[p] # <<>> => m = outbox[p][1] /\ 1 \in 1..Len(outbox[p])
    BY <2>1, TailStream, SeqFacts
  <2> QED
    BY <2>1, <2>2 DEF HasMessage, StreamsOK
<1>3. Handle(p) => HasMessage(p) /\ MessageOK(m)
  BY <1>2 DEF Handle, HandleInsert, HandleUpdate, HandleDeleteMap, HandleDeleteButton,
              HandleLearn, HandleAddRemote, HandleDeleteRemote, Message
<1>4. MessageOK(m)
  BY <1>3
<1>5. CASE HandleInsert(p)
  <2>1. /\ m.type = "save_button_map" /\ IsTemp(m.id)
        /\ button_binds' = Insert(button_binds, m.bind)
        /\ Reply(p, Inserted(m.id, button_binds.seq + 1, m.bind))
        /\ UNCHANGED remotes /\ UNCHANGED remote_buttons /\ UNCHANGED late
    BY <1>5 DEF HandleInsert, Message
  <2>2. m.bind \in Bind
    BY <1>4, <2>1 DEF MessageOK, BindOK
  <2>3. button_binds \in Tables(Bind)
    BY <1>1 DEF TableKinds
  <2> HIDE DEF m
  <2>4. button_binds' \in Tables(Bind) /\ Inserts(button_binds, m.bind, button_binds')
    BY <1>1, <2>1, <2>2, <2>3, InsertedRow
  <2>5. TableKinds'
    BY <1>1, <2>1, <2>4 DEF TableKinds
  <2>6. Inserting(m, Inserted(m.id, button_binds.seq + 1, m.bind))
    BY <2>1, <2>4 DEF Inserting
  <2> QED
    BY <2>1, <2>5, <2>6 DEF Tabled
<1>6. CASE HandleUpdate(p)
  <2> DEFINE new == IF m.bind = Unbound THEN button_binds
                    ELSE Assign(button_binds, {m.id[2]}, m.bind)
             found == Restrict(new.rows, DOMAIN new.rows \cap {m.id[2]})
             f   == Updated(found)
  <2>1. /\ m.type = "save_button_map" /\ ~ IsTemp(m.id)
        /\ button_binds' = new /\ Reply(p, f)
        /\ late' = IF m.bind = Unbound \/ m.bind.button_id \in DOMAIN remote_buttons.rows
                   THEN late ELSE late \cup {m.id[2]}
        /\ UNCHANGED remotes /\ UNCHANGED remote_buttons
    BY <1>6 DEF HandleUpdate, Message
  <2>2. m.bind \in Bind
    BY <1>4, <2>1 DEF MessageOK, BindOK
  <2>3. button_binds \in Tables(Bind)
    BY <1>1 DEF TableKinds
  <2>4. f.type = "updated" /\ f.found = found
    BY DEF Updated
  <2>5. /\ DOMAIN found = Rows(new) \cap {m.id[2]}
        /\ \A i \in DOMAIN found : found[i] = new.rows[i]
    <3> HIDE DEF new
    <3> QED
      BY DEF Restrict, Rows
  <2> HIDE DEF m, f, found
  <2>6. /\ new \in Tables(Bind) /\ Rows(new) = Rows(button_binds)
        /\ \/ m.bind = Unbound /\ new = button_binds
           \/ m.bind # Unbound /\ Assigns(button_binds, {m.id[2]}, m.bind, new)
    <3>1. CASE m.bind = Unbound
      BY <2>3, <3>1
    <3>2. CASE m.bind # Unbound
      <4>1. new = Assign(button_binds, {m.id[2]}, m.bind)
        BY <3>2
      <4> HIDE DEF new
      <4>2. new \in Tables(Bind) /\ Assigns(button_binds, {m.id[2]}, m.bind, new)
        BY <2>2, <2>3, <4>1, AssignedRow
      <4> QED
        BY <3>2, <4>2 DEF Assigns
    <3> QED
      BY <3>1, <3>2
  <2> HIDE DEF new
  <2>7. TableKinds'
    BY <1>1, <2>1, <2>6 DEF TableKinds
  <2>8. Updating(m, f)
    BY <2>1, <2>4, <2>5, <2>6 DEF Updating, Rows
  <2> QED
    BY <2>1, <2>7, <2>8 DEF Tabled
<1>7. CASE HandleDeleteMap(p)
  <2>1. /\ m.type = "delete_button_map"
        /\ button_binds' = IF IsTemp(m.id) THEN button_binds
                           ELSE Delete(button_binds, {m.id[2]})
        /\ Reply(p, MapGone(m.id))
        /\ UNCHANGED remotes /\ UNCHANGED remote_buttons /\ UNCHANGED late
    BY <1>7 DEF HandleDeleteMap, Message
  <2>2. button_binds \in Tables(Bind)
    BY <1>1 DEF TableKinds
  <2> HIDE DEF m
  <2>3. /\ button_binds' \in Tables(Bind)
        /\ \/ IsTemp(m.id) /\ button_binds' = button_binds
           \/ ~ IsTemp(m.id) /\ Deletes(button_binds, {m.id[2]}, button_binds')
    <3>1. CASE IsTemp(m.id)
      BY <2>1, <2>2, <3>1
    <3>2. CASE ~ IsTemp(m.id)
      BY <2>1, <2>2, <3>2, DeletedRow
    <3> QED
      BY <3>1, <3>2
  <2>4. TableKinds'
    BY <1>1, <2>1, <2>3 DEF TableKinds
  <2>5. DeletingMap(m, MapGone(m.id))
    BY <2>1, <2>3 DEF DeletingMap
  <2> QED
    BY <2>1, <2>4, <2>5 DEF Tabled
<1>8. CASE HandleDeleteButton(p)
  <2>1. CASE NoSuchRecord(p)
    <3>1. Head(outbox[p]).type # "save_button_map"
      BY <1>8 DEF HandleDeleteButton, Message
    <3> QED
      BY <2>1, <3>1 DEF Quiet
  <2>2. CASE ~ NoSuchRecord(p)
    <3>1. /\ m.type = "delete_remote_button"
          /\ m.id \in DOMAIN remote_buttons.rows
          /\ remote_buttons' = Delete(remote_buttons, {m.id})
          /\ button_binds' = unbind("button_id", m.id)
          /\ Reply(p, ButtonGone(m.id))
          /\ UNCHANGED remotes /\ UNCHANGED late
      BY <1>8, <2>2 DEF HandleDeleteButton, Message
    <3>2. Having(button_binds, "button_id", m.id) = BoundTo(m.id)
      BY DEF Having, BoundTo, Rows
    <3>3. button_binds' = Assign(button_binds, BoundTo(m.id), Unbound)
      BY <3>1, <3>2 DEF unbind
    <3>4. /\ remotes \in Tables([name : {"remote"}])
          /\ remote_buttons \in Tables([remote_id : Nat])
          /\ button_binds \in Tables(Bind)
      BY <1>1 DEF TableKinds
    <3> HIDE DEF m
    <3>5. /\ button_binds' \in Tables(Bind)
          /\ Assigns(button_binds, BoundTo(m.id), Unbound, button_binds')
      BY <3>3, <3>4, Binds, AssignedRow
    <3>6. /\ remote_buttons' \in Tables([remote_id : Nat])
          /\ Deletes(remote_buttons, {m.id}, remote_buttons')
      <4> DEFINE Kind == [remote_id : Nat]
      <4>1. remote_buttons \in Tables(Kind)
        BY <3>4
      <4> HIDE DEF Kind
      <4>2. /\ remote_buttons' \in Tables(Kind)
            /\ Deletes(remote_buttons, {m.id}, remote_buttons')
        BY <3>1, <4>1, DeletedRow
      <4> QED
        BY <4>2 DEF Kind
    <3>7. TableKinds'
      BY <3>1, <3>4, <3>5, <3>6 DEF TableKinds
    <3>8. DeletingButton(m, ButtonGone(m.id))
      BY <3>1, <3>5, <3>6 DEF DeletingButton, Rows
    <3> QED
      BY <3>1, <3>7, <3>8 DEF Tabled
  <2> QED
    BY <2>1, <2>2
<1>9. CASE HandleLearn(p)
  <2> DEFINE row == [remote_id |-> m.remote_id]
  <2>1. /\ m.type = "learn"
        /\ remote_buttons' = Insert(remote_buttons, row)
        /\ Reply(p, ButtonLearnt(remote_buttons.seq + 1, m.remote_id))
        /\ UNCHANGED remotes /\ UNCHANGED button_binds /\ UNCHANGED late
    BY <1>9 DEF HandleLearn, Message
  <2>2. m.remote_id \in Nat
    BY <1>1, <1>4, <2>1, Seqs DEF MessageOK
  <2>3. Inserts(remote_buttons, row, remote_buttons') /\ remote_buttons' \in Tables([remote_id : Nat])
    <3> DEFINE Kind == [remote_id : Nat]
    <3>1. remote_buttons \in Tables(Kind) /\ row \in Kind
      BY <1>1, <2>2 DEF TableKinds
    <3> HIDE DEF Kind, row, m
    <3>2. Inserts(remote_buttons, row, remote_buttons') /\ remote_buttons' \in Tables(Kind)
      BY <1>1, <2>1, <3>1, InsertedRow
    <3> QED
      BY <3>2 DEF Kind
  <2>4. TableKinds'
    BY <1>1, <2>1, <2>3 DEF TableKinds
  <2>5. Learning(m, ButtonLearnt(remote_buttons.seq + 1, m.remote_id))
    <3> HIDE DEF m
    <3> QED
      BY <2>1, <2>3 DEF Learning
  <2> HIDE DEF m
  <2> QED
    BY <2>1, <2>4, <2>5 DEF Tabled
<1>10. CASE HandleAddRemote(p)
  <2> DEFINE row == [name |-> "remote"]
  <2>1. /\ m.type = "add_remote"
        /\ remotes' = Insert(remotes, row)
        /\ Reply(p, RemoteAdded(remotes.seq + 1))
        /\ UNCHANGED remote_buttons /\ UNCHANGED button_binds /\ UNCHANGED late
    BY <1>10 DEF HandleAddRemote, Message
  <2>2. Inserts(remotes, row, remotes') /\ remotes' \in Tables([name : {"remote"}])
    <3> DEFINE Kind == [name : {"remote"}]
    <3>1. remotes \in Tables(Kind) /\ row \in Kind
      BY <1>1 DEF TableKinds
    <3> HIDE DEF Kind, row, m
    <3>2. Inserts(remotes, row, remotes') /\ remotes' \in Tables(Kind)
      BY <1>1, <2>1, <3>1, InsertedRow
    <3> QED
      BY <3>2 DEF Kind
  <2>3. TableKinds'
    BY <1>1, <2>1, <2>2 DEF TableKinds
  <2>4. AddingRemote(m, RemoteAdded(remotes.seq + 1))
    <3> HIDE DEF m
    <3> QED
      BY <2>1, <2>2 DEF AddingRemote
  <2> HIDE DEF m
  <2> QED
    BY <2>1, <2>3, <2>4 DEF Tabled
<1>11. CASE HandleDeleteRemote(p)
  <2>1. CASE NoSuchRecord(p)
    <3>1. Head(outbox[p]).type # "save_button_map"
      BY <1>11 DEF HandleDeleteRemote, Message
    <3> QED
      BY <2>1, <3>1 DEF Quiet
  <2>2. CASE ~ NoSuchRecord(p)
    <3>1. /\ m.type = "delete_remote"
          /\ m.id \in DOMAIN remotes.rows
          /\ remotes' = Delete(remotes, {m.id})
          /\ remote_buttons' = Delete(remote_buttons, Having(remote_buttons, "remote_id", m.id))
          /\ button_binds' = unbind("remote_id", m.id)
          /\ Reply(p, RemoteGone(m.id))
          /\ UNCHANGED late
      BY <1>11, <2>2 DEF HandleDeleteRemote, Message
    <3>2. /\ Having(button_binds, "remote_id", m.id) = BoundWith(m.id)
          /\ Having(remote_buttons, "remote_id", m.id) = ButtonsOf(m.id)
      BY DEF Having, BoundWith, ButtonsOf, Rows
    <3>3. button_binds' = Assign(button_binds, BoundWith(m.id), Unbound)
      BY <3>1, <3>2 DEF unbind
    <3>4. /\ remotes \in Tables([name : {"remote"}])
          /\ remote_buttons \in Tables([remote_id : Nat])
          /\ button_binds \in Tables(Bind)
      BY <1>1 DEF TableKinds
    <3> HIDE DEF m
    <3>5. /\ button_binds' \in Tables(Bind)
          /\ Assigns(button_binds, BoundWith(m.id), Unbound, button_binds')
      BY <3>3, <3>4, Binds, AssignedRow
    <3>6. /\ remote_buttons' \in Tables([remote_id : Nat])
          /\ Deletes(remote_buttons, ButtonsOf(m.id), remote_buttons')
      <4> DEFINE Kind == [remote_id : Nat]
      <4>1. remote_buttons \in Tables(Kind)
        BY <3>4
      <4> HIDE DEF Kind
      <4>2. /\ remote_buttons' \in Tables(Kind)
            /\ Deletes(remote_buttons, ButtonsOf(m.id), remote_buttons')
        BY <3>1, <3>2, <4>1, DeletedRow
      <4> QED
        BY <4>2 DEF Kind
    <3>7. /\ remotes' \in Tables([name : {"remote"}])
          /\ Deletes(remotes, {m.id}, remotes')
      <4> DEFINE Kind == [name : {"remote"}]
      <4>1. remotes \in Tables(Kind)
        BY <3>4
      <4> HIDE DEF Kind
      <4>2. remotes' \in Tables(Kind) /\ Deletes(remotes, {m.id}, remotes')
        BY <3>1, <4>1, DeletedRow
      <4> QED
        BY <4>2 DEF Kind
    <3>8. TableKinds'
      BY <3>5, <3>6, <3>7 DEF TableKinds
    <3>9. DeletingRemote(m, RemoteGone(m.id))
      BY <3>1, <3>5, <3>6, <3>7 DEF DeletingRemote, Rows
    <3> QED
      BY <3>1, <3>8, <3>9 DEF Tabled
  <2> QED
    BY <2>1, <2>2
<1> QED
  BY <1>5, <1>6, <1>7, <1>8, <1>9, <1>10, <1>11 DEF Handle

LEMMA RowBecomes ==
    ASSUME TablesOK, Grow, NEW i, NEW x, BindOK(x), button_binds'.rows[i] = x
    PROVE  BindOK(button_binds.rows[i])'
<1>1. BindOK(x)'
  BY StillBind
<1> QED
  BY <1>1 DEF BindOK

LEMMA RowStays ==
    ASSUME TablesOK, Grow, NEW i \in Rows(button_binds),
           button_binds'.rows[i] = button_binds.rows[i]
    PROVE  BindOK(button_binds.rows[i])'
<1>1. PICK x : x = button_binds.rows[i]
  OBVIOUS
<1>2. BindOK(x) /\ button_binds'.rows[i] = x
  BY <1>1 DEF TablesOK
<1> QED
  BY <1>2, RowBecomes

\* What remains to be shown of a handler's step.
Tidy(f) == TablesOK' /\ Grow /\ FrameOK(f)' /\ late' \subseteq 1..button_binds'.seq

LEMMA InsertingOK ==
    ASSUME TInv, NEW m, MessageOK(m), NEW f, Inserting(m, f), TableKinds'
    PROVE  Tidy(f)
<1>1. /\ TablesOK /\ Counts
      /\ m.type = "save_button_map" /\ IsTemp(m.id)
      /\ f = Inserted(m.id, button_binds.seq + 1, m.bind)
      /\ UNCHANGED remotes /\ UNCHANGED remote_buttons /\ UNCHANGED late
      /\ button_binds'.seq = button_binds.seq + 1
      /\ Rows(button_binds') = Rows(button_binds) \cup {button_binds.seq + 1}
      /\ button_binds'.rows[button_binds.seq + 1] = m.bind
      /\ \A i \in Rows(button_binds) : button_binds'.rows[i] = button_binds.rows[i]
  BY DEF TInv, Inserting, Inserts
<1>2. /\ button_binds.seq \in Nat /\ remotes.seq \in Nat /\ remote_buttons.seq \in Nat
      /\ BindOK(m.bind) /\ NameOK(m.id)
  BY <1>1, Seqs DEF MessageOK
<1>3. Grow
  BY <1>1, <1>2 DEF Grow
<1>4. \A i \in Rows(button_binds') : BindOK(button_binds.rows[i])'
  BY <1>1, <1>2, <1>3, RowBecomes, RowStays
<1>5. /\ Rows(remotes)' = Rows(remotes) /\ Rows(remote_buttons)' = Rows(remote_buttons)
      /\ Rows(button_binds)' = Rows(button_binds')
  BY <1>1 DEF Rows
<1>6. Rows(button_binds') \subseteq 1..button_binds'.seq /\ InstalledMaps <= button_binds'.seq
  BY <1>1, <1>2, BoundsAssumption DEF TablesOK
<1>7. TablesOK'
  BY <1>1, <1>4, <1>5, <1>6 DEF TablesOK, TableKinds
<1>8. FrameOK(f)'
  <2>1. BindOK(m.bind)' /\ m.id \in Name
    BY <1>1, <1>2, <1>3, StillBind DEF NameOK
  <2>2. f.type = "inserted" /\ f.temp_id = m.id /\ f.id = button_binds'.seq /\ f.bind = m.bind
    BY <1>1 DEF Inserted
  <2>3. f.id \in 1..button_binds'.seq
    BY <1>1, <1>2, <2>2
  <2> QED
    BY <1>1, <2>1, <2>2, <2>3 DEF FrameOK
<1>9. late' \subseteq 1..button_binds'.seq
  BY <1>1, <1>2 DEF Counts
<1> QED
  BY <1>3, <1>7, <1>8, <1>9 DEF Tidy

LEMMA UpdatingOK ==
    ASSUME TInv, NEW m, MessageOK(m), NEW f, Updating(m, f), TableKinds'
    PROVE  Tidy(f)
<1> DEFINE i == m.id[2]
<1>1. /\ TablesOK /\ Counts
      /\ m.type = "save_button_map" /\ ~ IsTemp(m.id)
      /\ f.type = "updated"
      /\ DOMAIN f.found = Rows(button_binds) \cap {i}
      /\ \A j \in DOMAIN f.found : f.found[j] = button_binds'.rows[j]
      /\ UNCHANGED remotes /\ UNCHANGED remote_buttons
      /\ late' \subseteq late \cup {i}
      /\ button_binds'.seq = button_binds.seq
      /\ Rows(button_binds') = Rows(button_binds)
      /\ \A j \in Rows(button_binds) :
            button_binds'.rows[j] = button_binds.rows[j] \/ button_binds'.rows[j] = m.bind
  BY DEF TInv, Updating, Assigns
<1>2. /\ button_binds.seq \in Nat /\ remotes.seq \in Nat /\ remote_buttons.seq \in Nat
      /\ BindOK(m.bind) /\ NameOK(m.id)
  BY <1>1, Seqs DEF MessageOK
<1>3. Grow
  BY <1>1, <1>2 DEF Grow
<1>4. \A j \in Rows(button_binds') : BindOK(button_binds.rows[j])'
  BY <1>1, <1>2, <1>3, RowBecomes, RowStays
<1>5. /\ Rows(remotes)' = Rows(remotes) /\ Rows(remote_buttons)' = Rows(remote_buttons)
      /\ Rows(button_binds)' = Rows(button_binds')
  BY <1>1 DEF Rows
<1>6. TablesOK'
  BY <1>1, <1>4, <1>5 DEF TablesOK, TableKinds
<1>7. i \in 1..button_binds.seq
  BY <1>1, <1>2 DEF NameOK
<1>8. FrameOK(f)'
  <2>1. ASSUME NEW j \in DOMAIN f.found PROVE BindOK(f.found[j])'
    <3>1. j \in Rows(button_binds') /\ f.found[j] = button_binds'.rows[j]
      BY <1>1
    <3>2. BindOK(button_binds.rows[j])'
      BY <1>4, <3>1
    <3> QED
      BY <3>1, <3>2 DEF BindOK
  <2>2. \E k \in 1..button_binds'.seq : DOMAIN f.found \subseteq {k}
    BY <1>1, <1>7
  <2> QED
    BY <1>1, <2>1, <2>2 DEF FrameOK
<1>9. late' \subseteq 1..button_binds'.seq
  BY <1>1, <1>7 DEF Counts
<1> QED
  BY <1>3, <1>6, <1>8, <1>9 DEF Tidy

LEMMA DeletingMapOK ==
    ASSUME TInv, NEW m, MessageOK(m), NEW f, DeletingMap(m, f), TableKinds'
    PROVE  Tidy(f)
<1>1. /\ TablesOK /\ Counts
      /\ m.type = "delete_button_map" /\ f = MapGone(m.id)
      /\ UNCHANGED remotes /\ UNCHANGED remote_buttons /\ UNCHANGED late
      /\ button_binds'.seq = button_binds.seq
      /\ Rows(button_binds') \subseteq Rows(button_binds)
      /\ \A j \in Rows(button_binds') : button_binds'.rows[j] = button_binds.rows[j]
  BY DEF TInv, DeletingMap, Deletes
<1>2. /\ button_binds.seq \in Nat /\ remotes.seq \in Nat /\ remote_buttons.seq \in Nat
      /\ NameOK(m.id)
  BY <1>1, Seqs DEF MessageOK
<1>3. Grow
  BY <1>1, <1>2 DEF Grow
<1>4. \A j \in Rows(button_binds') : BindOK(button_binds.rows[j])'
  BY <1>1, <1>2, <1>3, RowStays
<1>5. /\ Rows(remotes)' = Rows(remotes) /\ Rows(remote_buttons)' = Rows(remote_buttons)
      /\ Rows(button_binds)' = Rows(button_binds')
  BY <1>1 DEF Rows
<1>6. TablesOK'
  BY <1>1, <1>4, <1>5 DEF TablesOK, TableKinds
<1>7. FrameOK(f)'
  <2>1. NameOK(m.id)'
    BY <1>1, <1>2, <1>3, StillName
  <2> QED
    BY <1>1, <2>1 DEF FrameOK, MapGone
<1>8. late' \subseteq 1..button_binds'.seq
  BY <1>1 DEF Counts
<1> QED
  BY <1>3, <1>6, <1>7, <1>8 DEF Tidy

LEMMA DeletingButtonOK ==
    ASSUME TInv, NEW m, MessageOK(m), NEW f, DeletingButton(m, f), TableKinds'
    PROVE  Tidy(f)
<1>1. /\ TablesOK /\ Counts
      /\ m.type = "delete_remote_button" /\ f = ButtonGone(m.id)
      /\ UNCHANGED remotes /\ UNCHANGED late
      /\ remote_buttons'.seq = remote_buttons.seq
      /\ Rows(remote_buttons') \subseteq Rows(remote_buttons)
      /\ \A b \in Rows(remote_buttons') : remote_buttons'.rows[b] = remote_buttons.rows[b]
      /\ button_binds'.seq = button_binds.seq
      /\ Rows(button_binds') = Rows(button_binds)
      /\ \A j \in Rows(button_binds) :
            button_binds'.rows[j] = button_binds.rows[j] \/ button_binds'.rows[j] = Unbound
  BY DEF TInv, DeletingButton, Deletes, Assigns
<1>2. /\ button_binds.seq \in Nat /\ remotes.seq \in Nat /\ remote_buttons.seq \in Nat
      /\ BindOK(Unbound) /\ m.id \in 1..remote_buttons.seq
  BY <1>1, Seqs, Binds DEF MessageOK, BindOK
<1>3. Grow
  BY <1>1, <1>2 DEF Grow
<1>4. \A j \in Rows(button_binds') : BindOK(button_binds.rows[j])'
  BY <1>1, <1>2, <1>3, RowBecomes, RowStays
<1>5. /\ Rows(remotes)' = Rows(remotes) /\ Rows(remote_buttons)' = Rows(remote_buttons')
      /\ Rows(button_binds)' = Rows(button_binds')
  BY <1>1 DEF Rows
<1>6. TablesOK'
  BY <1>1, <1>4, <1>5 DEF TablesOK, TableKinds
<1>7. FrameOK(f)'
  BY <1>1, <1>2 DEF FrameOK, ButtonGone
<1>8. late' \subseteq 1..button_binds'.seq
  BY <1>1 DEF Counts
<1> QED
  BY <1>3, <1>6, <1>7, <1>8 DEF Tidy

LEMMA LearningOK ==
    ASSUME TInv, NEW m, MessageOK(m), NEW f, Learning(m, f), TableKinds'
    PROVE  Tidy(f)
<1> DEFINE b == remote_buttons.seq + 1
<1>1. /\ TablesOK /\ Counts
      /\ m.type = "learn" /\ f = ButtonLearnt(b, m.remote_id)
      /\ UNCHANGED remotes /\ UNCHANGED button_binds /\ UNCHANGED late
      /\ remote_buttons'.seq = b
      /\ Rows(remote_buttons') = Rows(remote_buttons) \cup {b}
      /\ remote_buttons'.rows[b] = [remote_id |-> m.remote_id]
      /\ \A c \in Rows(remote_buttons) : remote_buttons'.rows[c] = remote_buttons.rows[c]
  BY DEF TInv, Learning, Inserts
<1>2. /\ button_binds.seq \in Nat /\ remotes.seq \in Nat /\ remote_buttons.seq \in Nat
      /\ m.remote_id \in 1..remotes.seq /\ remote_buttons'.rows[b].remote_id = m.remote_id
  BY <1>1, Seqs DEF MessageOK
<1>3. Grow
  BY <1>1, <1>2 DEF Grow
<1>4. \A j \in Rows(button_binds') : BindOK(button_binds.rows[j])'
  BY <1>1, <1>3, RowStays
<1>5. /\ Rows(remotes)' = Rows(remotes) /\ Rows(remote_buttons)' = Rows(remote_buttons')
      /\ Rows(button_binds)' = Rows(button_binds')
  BY <1>1 DEF Rows
<1>6. Rows(remote_buttons') \subseteq 1..remote_buttons'.seq
  BY <1>1, <1>2 DEF TablesOK
<1>7. TablesOK'
  BY <1>1, <1>2, <1>4, <1>5, <1>6 DEF TablesOK, TableKinds
<1>8. FrameOK(f)'
  <2>1. f.type = "button_learnt" /\ f.id = b /\ f.remote_id = m.remote_id
    BY <1>1 DEF ButtonLearnt
  <2>2. /\ f.id \in 1..remote_buttons'.seq /\ f.remote_id \in 1..remotes'.seq
        /\ f.remote_id = remote_buttons'.rows[f.id].remote_id
    BY <1>1, <1>2, <2>1
  <2>3. RightRemote(f.id, f.remote_id)'
    BY <2>2 DEF RightRemote
  <2> QED
    BY <2>1, <2>3 DEF FrameOK
<1>9. late' \subseteq 1..button_binds'.seq
  BY <1>1 DEF Counts
<1> QED
  BY <1>3, <1>7, <1>8, <1>9 DEF Tidy

LEMMA AddingRemoteOK ==
    ASSUME TInv, NEW m, MessageOK(m), NEW f, AddingRemote(m, f), TableKinds'
    PROVE  Tidy(f)
<1>1. /\ TablesOK /\ Counts
      /\ f = RemoteAdded(remotes.seq + 1)
      /\ UNCHANGED remote_buttons /\ UNCHANGED button_binds /\ UNCHANGED late
      /\ remotes'.seq = remotes.seq + 1
      /\ Rows(remotes') = Rows(remotes) \cup {remotes.seq + 1}
  BY DEF TInv, AddingRemote, Inserts
<1>2. /\ button_binds.seq \in Nat /\ remotes.seq \in Nat /\ remote_buttons.seq \in Nat
      /\ 1..remotes.seq \subseteq 1..remotes'.seq
  BY <1>1, Seqs
<1>3. Grow
  BY <1>1, <1>2 DEF Grow
<1>4. \A j \in Rows(button_binds') : BindOK(button_binds.rows[j])'
  BY <1>1, <1>3, RowStays
<1>5. /\ Rows(remotes)' = Rows(remotes') /\ Rows(remote_buttons)' = Rows(remote_buttons)
      /\ Rows(button_binds)' = Rows(button_binds)
  BY <1>1 DEF Rows
<1>6. Rows(remotes') \subseteq 1..remotes'.seq
  BY <1>1, <1>2 DEF TablesOK
<1>7. TablesOK'
  BY <1>1, <1>2, <1>4, <1>5, <1>6 DEF TablesOK, TableKinds
<1>8. FrameOK(f)'
  BY <1>1, <1>2 DEF FrameOK, RemoteAdded
<1>9. late' \subseteq 1..button_binds'.seq
  BY <1>1 DEF Counts
<1> QED
  BY <1>3, <1>7, <1>8, <1>9 DEF Tidy

LEMMA DeletingRemoteOK ==
    ASSUME TInv, NEW m, MessageOK(m), NEW f, DeletingRemote(m, f), TableKinds'
    PROVE  Tidy(f)
<1>1. /\ TablesOK /\ Counts
      /\ m.type = "delete_remote" /\ f = RemoteGone(m.id) /\ UNCHANGED late
      /\ remotes'.seq = remotes.seq /\ Rows(remotes') \subseteq Rows(remotes)
      /\ remote_buttons'.seq = remote_buttons.seq
      /\ Rows(remote_buttons') \subseteq Rows(remote_buttons)
      /\ \A b \in Rows(remote_buttons') : remote_buttons'.rows[b] = remote_buttons.rows[b]
      /\ button_binds'.seq = button_binds.seq
      /\ Rows(button_binds') = Rows(button_binds)
      /\ \A j \in Rows(button_binds) :
            button_binds'.rows[j] = button_binds.rows[j] \/ button_binds'.rows[j] = Unbound
  BY DEF TInv, DeletingRemote, Deletes, Assigns
<1>2. /\ button_binds.seq \in Nat /\ remotes.seq \in Nat /\ remote_buttons.seq \in Nat
      /\ BindOK(Unbound) /\ m.id \in 1..remotes.seq
  BY <1>1, Seqs, Binds DEF MessageOK, BindOK
<1>3. Grow
  BY <1>1, <1>2 DEF Grow
<1>4. \A j \in Rows(button_binds') : BindOK(button_binds.rows[j])'
  BY <1>1, <1>2, <1>3, RowBecomes, RowStays
<1>5. /\ Rows(remotes)' = Rows(remotes') /\ Rows(remote_buttons)' = Rows(remote_buttons')
      /\ Rows(button_binds)' = Rows(button_binds')
  BY DEF Rows
<1>6. TablesOK'
  BY <1>1, <1>4, <1>5 DEF TablesOK, TableKinds
<1>7. FrameOK(f)'
  BY <1>1, <1>2 DEF FrameOK, RemoteGone
<1>8. late' \subseteq 1..button_binds'.seq
  BY <1>1 DEF Counts
<1> QED
  BY <1>3, <1>6, <1>7, <1>8 DEF Tidy

LEMMA ReplyTInv ==
    ASSUME TInv, NEW p \in Conns, NEW f, Reply(p, f), Tabled(Head(outbox[p]), f), TableKinds'
    PROVE  /\ TInv' /\ Grow /\ FrameOK(f)'
           /\ UNCHANGED page /\ UNCHANGED link /\ UNCHANGED blind
           /\ missed' = missed \cup {q \in Conns : link[q] # "open"}
           /\ \A q \in Conns :
                 inbox'[q] = IF link[q] = "open" THEN Append(inbox[q], f) ELSE inbox[q]
           /\ \A q \in Conns \ {p} : outbox'[q] = outbox[q]
           /\ outbox[p] # <<>> /\ outbox'[p] = Tail(outbox[p])
           /\ MessageOK(Head(outbox[p]))
<1>1. /\ OnMessage(p, f)
      /\ missed' = missed \cup {q \in Conns : link[q] # "open"}
      /\ UNCHANGED page /\ UNCHANGED counts /\ UNCHANGED blind
  BY DEF Reply
<1>2. TablesOK /\ PagesOK /\ Counts /\ HubOK /\ StreamsOK
  BY DEF TInv
<1>3. /\ HubOK' /\ UNCHANGED link
      /\ outbox[p] # <<>> /\ outbox'[p] = Tail(outbox[p])
      /\ \A q \in Conns \ {p} : outbox'[q] = outbox[q]
      /\ \A q \in Conns :
            inbox'[q] = IF link[q] = "open" THEN Append(inbox[q], f) ELSE inbox[q]
  BY <1>1, <1>2, OnMessageHub
<1>4. /\ IsSeq(outbox[p]) /\ Len(outbox[p]) \in Nat /\ Len(outbox[p]) > 0
      /\ Len(outbox'[p]) = Len(outbox[p]) - 1 /\ Head(outbox[p]) = outbox[p][1]
      /\ \A n \in 1..(Len(outbox[p]) - 1) : outbox'[p][n] = outbox[p][n + 1]
  <2>1. IsSeq(outbox[p])
    BY <1>2 DEF HubOK, StreamsIn
  <2> QED
    BY <1>3, <2>1, TailStream, SeqFacts
<1>5. MessageOK(Head(outbox[p]))
  BY <1>2, <1>4 DEF StreamsOK
<1>6. Tidy(f)
  <2>1. PICK m : m = Head(outbox[p])
    OBVIOUS
  <2>2. MessageOK(m) /\ Tabled(m, f)
    BY <1>5, <2>1
  <2> QED
    BY <2>2, InsertingOK, UpdatingOK, DeletingMapOK, DeletingButtonOK, LearningOK,
       AddingRemoteOK, DeletingRemoteOK DEF Tabled
<1>7. TablesOK' /\ Grow /\ FrameOK(f)' /\ late' \subseteq 1..button_binds'.seq
  BY <1>6 DEF Tidy
<1>8. Counts'
  BY <1>1, <1>2, <1>7 DEF Counts, counts
<1>9. page' \in [Conns -> Page] /\ \A q \in Conns : link'[q] # "closed" => page'[q].up
  BY <1>1, <1>2, <1>3 DEF PagesOK
<1>10. \A q \in Conns : \A n \in 1..Len(inbox'[q]) :
          \/ \E m \in 1..Len(inbox[q]) : inbox'[q][n] = inbox[q][m]
          \/ FrameOK(inbox[q][n])'
  <2>1. ASSUME NEW q \in Conns, NEW n \in 1..Len(inbox'[q])
        PROVE  (\E m \in 1..Len(inbox[q]) : inbox'[q][n] = inbox[q][m]) \/ inbox'[q][n] = f
    <3>1. CASE link[q] = "open"
      <4>1. IsSeq(inbox[q]) /\ Len(inbox[q]) \in Nat
        BY <1>2, SeqFacts DEF HubOK, StreamsIn
      <4>2. inbox'[q] = Append(inbox[q], f)
        BY <1>3, <3>1
      <4>3. /\ Len(inbox'[q]) = Len(inbox[q]) + 1
            /\ \A k \in 1..Len(inbox[q]) : inbox'[q][k] = inbox[q][k]
            /\ inbox'[q][Len(inbox[q]) + 1] = f
        BY <4>1, <4>2, AppendStream
      <4>4. n \in 1..Len(inbox[q]) \/ n = Len(inbox[q]) + 1
        BY <4>1, <4>3
      <4> QED
        BY <4>3, <4>4
    <3>2. CASE link[q] # "open"
      BY <1>3, <3>2
    <3> QED
      BY <3>1, <3>2
  <2>2. ASSUME NEW q \in Conns, NEW n \in 1..Len(inbox'[q]), inbox'[q][n] = f
        PROVE  FrameOK(inbox[q][n])'
    BY <1>7, <2>2 DEF FrameOK
  <2> QED
    BY <2>1, <2>2
<1>11. \A q \in Conns : \A n \in 1..Len(outbox'[q]) :
          \E m \in 1..Len(outbox[q]) : outbox'[q][n] = outbox[q][m]
  <2>1. \A n \in 1..(Len(outbox[p]) - 1) : n + 1 \in 1..Len(outbox[p])
    BY <1>4
  <2>2. \A n \in 1..Len(outbox'[p]) : \E m \in 1..Len(outbox[p]) : outbox'[p][n] = outbox[p][m]
    BY <1>4, <2>1
  <2>3. ASSUME NEW q \in Conns \ {p}
        PROVE  \A n \in 1..Len(outbox'[q]) : \E m \in 1..Len(outbox[q]) :
                  outbox'[q][n] = outbox[q][m]
    <3>1. outbox'[q] = outbox[q]
      BY <1>3
    <3> QED
      BY <3>1
  <2> QED
    BY <2>2, <2>3
<1>12. TInv'
  BY <1>1, <1>3, <1>7, <1>8, <1>9, <1>10, <1>11, StepTInv
<1> QED
  BY <1>1, <1>3, <1>5, <1>7, <1>12

\* The kinds of steps that there are.
LEMMA Steps ==
    ASSUME TInv, Next
    PROVE  \E p \in Conns :
              \/ LoadPage(p)
              \/ Quiet(p)
              \/ Disconnect(p)
              \/ Receive(p)
              \/ \E messages, new : Edits(page[p], messages, new) /\ Edit(p, messages, new)
              \/ \E f : Reply(p, f) /\ Tabled(Head(outbox[p]), f) /\ TableKinds'
<1>1. PICK p \in Conns :
         \/ LoadPage(p) \/ Connect(p) \/ Disconnect(p) \/ NoticeClose(p) \/ Receive(p)
         \/ Editing(p) \/ Handle(p)
  BY DEF Next, Editing
<1>2. CASE Connect(p) \/ NoticeClose(p)
  BY <1>2 DEF Quiet
<1>3. CASE Editing(p)
  BY <1>3, EditingPage
<1>4. CASE Handle(p)
  BY <1>4, HandledTables
<1> QED
  BY <1>1, <1>2, <1>3, <1>4

LEMMA SameTInv == TInv /\ UNCHANGED vars => TInv'
<1> SUFFICES ASSUME TInv, UNCHANGED vars PROVE TInv'
  OBVIOUS
<1>1. /\ UNCHANGED hubVars /\ UNCHANGED tables /\ UNCHANGED page /\ UNCHANGED edits
      /\ UNCHANGED losses /\ UNCHANGED missed /\ UNCHANGED blind /\ UNCHANGED late
  BY DEF vars, tables
<1>2. TablesOK /\ PagesOK /\ Counts /\ HubOK
  BY DEF TInv
<1>3. HubOK' /\ TablesOK' /\ Grow
  BY <1>1, <1>2, SameHub, SameTables
<1>4. UNCHANGED link /\ UNCHANGED inbox /\ UNCHANGED outbox
  BY <1>1 DEF hubVars
<1>5. Counts'
  BY <1>1, <1>2 DEF Counts, tables
<1>6. page' \in [Conns -> Page] /\ \A q \in Conns : link'[q] # "closed" => page'[q].up
  BY <1>1, <1>2, <1>4 DEF PagesOK
<1> QED
  BY <1>1, <1>3, <1>4, <1>5, <1>6, StepTInv

LEMMA TInvStep == TInv /\ [Next]_vars => TInv'
<1> SUFFICES ASSUME TInv, [Next]_vars PROVE TInv'
  OBVIOUS
<1>1. CASE Next
  <2>1. PICK p \in Conns :
              \/ LoadPage(p)
              \/ Quiet(p)
              \/ Disconnect(p)
              \/ Receive(p)
              \/ \E messages, new : Edits(page[p], messages, new) /\ Edit(p, messages, new)
              \/ \E f : Reply(p, f) /\ Tabled(Head(outbox[p]), f) /\ TableKinds'
    BY <1>1, Steps
  <2>2. CASE LoadPage(p)
    BY <2>2, LoadTInv
  <2>3. CASE Quiet(p)
    BY <2>3, QuietTInv
  <2>4. CASE Disconnect(p)
    BY <2>4, DisconnectTInv
  <2>5. CASE Receive(p)
    BY <2>5, ReceiveTInv
  <2>6. CASE \E messages, new : Edits(page[p], messages, new) /\ Edit(p, messages, new)
    BY <2>6, EditTInv
  <2>7. CASE \E f : Reply(p, f) /\ Tabled(Head(outbox[p]), f) /\ TableKinds'
    BY <2>7, ReplyTInv
  <2> QED
    BY <2>1, <2>2, <2>3, <2>4, <2>5, <2>6, <2>7
<1>2. CASE UNCHANGED vars
  BY <1>2, SameTInv
<1> QED
  BY <1>1, <1>2

LEMMA TInvInductive == Spec => []TInv
BY InitTInv, TInvStep, PTL DEF Spec

\* Pages and tables keep to ids that were handed out, and the index of a page to
\* elements that it has, whatever is received, in which order, and whichever
\* connections are lost in between.
THEOREM PagesWellFormed == Spec => []TypeOK
<1>1. TInv => TypeOK
  <2> SUFFICES ASSUME TInv PROVE TypeOK
    OBVIOUS
  <2>1. link \in [Conns -> {"closed", "open", "lost"}]
    BY DEF TInv, HubOK, StreamsIn
  <2>2. \A t \in {remotes, remote_buttons, button_binds} : DOMAIN t.rows \subseteq 1..t.seq
    BY DEF TInv, TablesOK, Rows
  <2>3. \A p \in Conns : PageOK(page[p])
    BY DEF TInv, PagesOK, PageIds
  <2> QED
    BY <2>1, <2>2, <2>3 DEF TInv, TypeOK, Counts
<1> QED
  BY <1>1, TInvInductive, PTL

-----------------------------------------------------------------------------
(***************************************************************************)
(* What is on its way to a page.                                           *)
(***************************************************************************)
Says(f, t, i) == f.type = t /\ f.id = i

\* Behind position m there is such a frame.
Later(t, i, m, s) == \E n \in 1..Len(s) : m < n /\ Says(s[n], t, i)

OnWay(t, i, s) == \E n \in 1..Len(s) : Says(s[n], t, i)

LEMMA LaterTail ==
    ASSUME NEW s, IsSeq(s), s # <<>>
    PROVE  /\ Head(s) = s[1] /\ Len(s) \in Nat /\ Len(s) > 0
           /\ IsSeq(Tail(s)) /\ Len(Tail(s)) = Len(s) - 1
           /\ \A n \in 1..Len(Tail(s)) : n + 1 \in 1..Len(s) /\ Tail(s)[n] = s[n + 1]
           /\ \A n \in 1..Len(s) : n = 1 \/ (n - 1 \in 1..Len(Tail(s)) /\ s[n] = Tail(s)[n - 1])
           /\ \A t, i : OnWay(t, i, s) <=> Says(s[1], t, i) \/ OnWay(t, i, Tail(s))
           /\ \A t, i : Later(t, i, 1, s) <=> OnWay(t, i, Tail(s))
           /\ \A t, i : \A m \in Nat : Later(t, i, m, Tail(s)) <=> Later(t, i, m + 1, s)
<1> DEFINE r == Tail(s)
<1>1. /\ Len(s) \in Nat /\ Len(s) > 0 /\ Len(r) = Len(s) - 1 /\ Head(s) = s[1] /\ IsSeq(r)
      /\ \A n \in 1..(Len(s) - 1) : r[n] = s[n + 1]
  BY SeqFacts, TailStream
<1> HIDE DEF r
<1>2. \A n \in 1..Len(r) : n + 1 \in 1..Len(s) /\ r[n] = s[n + 1]
  BY <1>1
<1>3. \A n \in 1..Len(s) : n = 1 \/ (n - 1 \in 1..Len(r) /\ s[n] = r[n - 1])
  BY <1>1
<1>4. ASSUME NEW t, NEW i PROVE OnWay(t, i, s) <=> Says(s[1], t, i) \/ OnWay(t, i, r)
  <2>1. 1 \in 1..Len(s)
    BY <1>1
  <2> QED
    BY <1>2, <1>3, <2>1 DEF OnWay
<1>5. ASSUME NEW t, NEW i, NEW m \in Nat PROVE Later(t, i, m, r) <=> Later(t, i, m + 1, s)
  <2>1. \A n \in 1..Len(r) : m < n => m + 1 < n + 1
    OBVIOUS
  <2>2. \A n \in 1..Len(s) : m + 1 < n => n # 1 /\ m < n - 1
    OBVIOUS
  <2> QED
    BY <1>2, <1>3, <2>1, <2>2 DEF Later
<1>6. ASSUME NEW t, NEW i PROVE Later(t, i, 1, s) <=> OnWay(t, i, r)
  <2>1. \A n \in 1..Len(r) : 1 < n + 1
    OBVIOUS
  <2> QED
    BY <1>2, <1>3, <2>1 DEF Later, OnWay
<1> QED
  BY <1>1, <1>2, <1>3, <1>4, <1>5, <1>6 DEF r

\* What the frames r are if f comes after the frames s.
OneMore(s, f, r) ==
    /\ Len(s) \in Nat /\ IsSeq(r) /\ Len(r) = Len(s) + 1 /\ r[Len(s) + 1] = f
    /\ \A n \in 1..Len(s) : n \in 1..Len(r) /\ r[n] = s[n]
    /\ \A n \in 1..Len(r) : n \in 1..Len(s) \/ n = Len(s) + 1
    /\ \A t, i : OnWay(t, i, r) <=> OnWay(t, i, s) \/ Says(f, t, i)
    /\ \A t, i : \A m \in 1..Len(s) :
          Later(t, i, m, r) <=> Later(t, i, m, s) \/ Says(f, t, i)
    /\ \A t, i : ~ Later(t, i, Len(s) + 1, r)

LEMMA LaterAppend ==
    ASSUME NEW s, IsSeq(s), NEW f, NEW r, r = Append(s, f)
    PROVE  OneMore(s, f, r)
<1>1. /\ Len(s) \in Nat /\ IsSeq(r) /\ Len(r) = Len(s) + 1 /\ r[Len(s) + 1] = f
      /\ \A n \in 1..Len(s) : r[n] = s[n]
  BY SeqFacts, AppendStream
<1>2. /\ \A n \in 1..Len(s) : n \in 1..Len(r) /\ r[n] = s[n]
      /\ \A n \in 1..Len(r) : n \in 1..Len(s) \/ n = Len(s) + 1
      /\ Len(s) + 1 \in 1..Len(r)
  BY <1>1
<1>3. ASSUME NEW t, NEW i PROVE OnWay(t, i, r) <=> OnWay(t, i, s) \/ Says(f, t, i)
  BY <1>1, <1>2 DEF OnWay
<1>4. ASSUME NEW t, NEW i, NEW m \in 1..Len(s)
      PROVE  Later(t, i, m, r) <=> Later(t, i, m, s) \/ Says(f, t, i)
  <2>1. m < Len(s) + 1
    BY <1>1
  <2> QED
    BY <1>1, <1>2, <2>1 DEF Later
<1>5. ASSUME NEW t, NEW i PROVE ~ Later(t, i, Len(s) + 1, r)
  <2>1. \A n \in 1..Len(r) : ~(Len(s) + 1 < n)
    BY <1>1
  <2> QED
    BY <2>1 DEF Later
<1> QED
  BY <1>1, <1>2, <1>3, <1>4, <1>5 DEF OneMore

LEMMA NothingOnWay == \A t, i : ~ OnWay(t, i, <<>>)
BY EmptyStream DEF OnWay

(***************************************************************************)
(* A page and the frames on their way to it, beside the tables.  A remote  *)
(* takes its buttons along without a word, and a button may be learnt for  *)
(* a remote that is gone: the page hears of those after the remote's end.  *)
(***************************************************************************)
RemotesTold(pg, s) ==
    /\ \A r \in Rows(remotes) :
          /\ r \in pg.remotes \/ OnWay("remote_added", r, s)
          /\ ~ OnWay("remote_gone", r, s)
    /\ \A r \in pg.remotes \ Rows(remotes) : OnWay("remote_gone", r, s)
    /\ \A m \in 1..Len(s) : s[m].type = "remote_added" =>
          /\ s[m].id \notin pg.panels
          /\ ~ Later("remote_added", s[m].id, m, s)
          /\ s[m].id \notin Rows(remotes) => Later("remote_gone", s[m].id, m, s)

ButtonsTold(pg, s) ==
    /\ \A b \in Rows(remote_buttons) :
          /\ b \in DOMAIN pg.buttons \/ OnWay("button_learnt", b, s)
          /\ ~ OnWay("button_gone", b, s)
    /\ \A b \in DOMAIN pg.buttons \ Rows(remote_buttons) :
          pg.buttons[b] \in Rows(remotes) => OnWay("button_gone", b, s)
    /\ \A m \in 1..Len(s) :
          s[m].type = "button_learnt" /\ s[m].id \notin Rows(remote_buttons)
             /\ s[m].remote_id \in Rows(remotes) => Later("button_gone", s[m].id, m, s)

LearntLate(pg, s) ==
    \A b \in Rows(remote_buttons) : remote_buttons.rows[b].remote_id \notin Rows(remotes) =>
       /\ b \in DOMAIN pg.buttons => ~ OnWay("remote_gone", remote_buttons.rows[b].remote_id, s)
       /\ \A m \in 1..Len(s) : Says(s[m], "button_learnt", b) =>
             ~ Later("remote_gone", remote_buttons.rows[b].remote_id, m, s)

\* The frame makes an element for the row, if there is none.
Tells(f, i) == Says(f, "inserted", i) \/ (f.type = "updated" /\ i \in DOMAIN f.found)

MapsTold(pg, s) ==
    /\ \A i \in Rows(button_binds) :
          /\ Row(i) \in DOMAIN pg.maps \/ OnWay("inserted", i, s)
          /\ Row(i) \notin pg.deleted
          /\ ~ OnWay("map_gone", Row(i), s)
    /\ \A i \in 1..button_binds.seq :
          i \notin Rows(button_binds)
             /\ (Row(i) \in DOMAIN pg.maps \/ \E m \in 1..Len(s) : Tells(s[m], i))
          => Row(i) \in pg.deleted \/ OnWay("map_gone", Row(i), s)

Told(pg, s) == RemotesTold(pg, s) /\ ButtonsTold(pg, s) /\ LearntLate(pg, s) /\ MapsTold(pg, s)

\* The pages that missed nothing.
Fresh(p) == p \notin missed /\ page[p].up

AllTold == \A p \in Conns : Fresh(p) => Told(page[p], inbox[p])

LEMMA LoadedTold ==
    ASSUME NEW pg, IsLoaded(pg)
    PROVE  Told(pg, <<>>)
<1>1. /\ Len(<<>>) = 0 /\ 1..0 = {}
  BY EmptyStream
<1>2. RemotesTold(pg, <<>>)
  BY <1>1, NothingOnWay DEF RemotesTold, IsLoaded
<1>3. ButtonsTold(pg, <<>>)
  BY <1>1, NothingOnWay DEF ButtonsTold, IsLoaded
<1>4. LearntLate(pg, <<>>)
  BY <1>1, NothingOnWay DEF LearntLate
<1>5. MapsTold(pg, <<>>)
  <2>1. \A i : Row(i) \in DOMAIN pg.maps <=> i \in Rows(button_binds)
    BY Names DEF IsLoaded
  <2>2. pg.deleted = {}
    BY DEF IsLoaded
  <2> QED
    BY <1>1, <2>1, <2>2, NothingOnWay DEF MapsTold
<1> QED
  BY <1>2, <1>3, <1>4, <1>5 DEF Told

LEMMA EditTold ==
    ASSUME NEW pg, NEW new, Touches(pg, new), NEW s, Told(pg, s)
    PROVE  Told(new, s)
<1>1. \A i : Row(i) \in DOMAIN new.maps <=> Row(i) \in DOMAIN pg.maps
  BY Names DEF Touches
<1>2. RemotesTold(new, s)
  BY DEF Touches, Told, RemotesTold
<1>3. ButtonsTold(new, s)
  BY DEF Touches, Told, ButtonsTold
<1>4. LearntLate(new, s)
  BY DEF Touches, Told, LearntLate
<1>5. MapsTold(new, s)
  <2>1. new.deleted = pg.deleted /\ MapsTold(pg, s)
    BY DEF Touches, Told
  <2> QED
    BY <1>1, <2>1 DEF MapsTold
<1> QED
  BY <1>2, <1>3, <1>4, <1>5 DEF Told

\* What a frame means to the remotes, the buttons and the elements of a page.
RemotesPart(pg, f, new) ==
    /\ f.type = "remote_added" =>
          /\ new.panels = pg.panels \cup {f.id}
          /\ f.id \notin pg.panels => new.remotes = pg.remotes \cup {f.id}
    /\ f.type = "remote_gone" =>
          new.panels = pg.panels /\ new.remotes = pg.remotes \ {f.id}
    /\ f.type \notin {"remote_added", "remote_gone"} =>
          new.panels = pg.panels /\ new.remotes = pg.remotes

ButtonsPart(pg, f, new) ==
    /\ f.type = "button_learnt" =>
          /\ DOMAIN new.buttons = DOMAIN pg.buttons \cup {f.id}
          /\ new.buttons[f.id] = f.remote_id
          /\ \A c \in DOMAIN pg.buttons \ {f.id} : new.buttons[c] = pg.buttons[c]
    /\ f.type = "button_gone" =>
          /\ DOMAIN new.buttons = DOMAIN pg.buttons \ {f.id}
          /\ \A c \in DOMAIN pg.buttons \ {f.id} : new.buttons[c] = pg.buttons[c]
    /\ f.type \notin {"button_learnt", "button_gone"} => new.buttons = pg.buttons

MapsPart(pg, f, new) ==
    /\ f.type = "map_gone" => new.deleted = pg.deleted \cup {f.id}
    /\ f.type # "map_gone" => new.deleted = pg.deleted
    /\ \A i : Row(i) \in DOMAIN pg.maps => Row(i) \in DOMAIN new.maps
    /\ \A i : Row(i) \in DOMAIN new.maps => Row(i) \in DOMAIN pg.maps \/ Tells(f, i)
    /\ f.type = "inserted" => Row(f.id) \in DOMAIN new.maps

LEMMA ReceivedParts ==
    ASSUME NEW pg, NEW f, FrameOK(f), NEW new, Receives(pg, f, new)
    PROVE  RemotesPart(pg, f, new) /\ ButtonsPart(pg, f, new) /\ MapsPart(pg, f, new)
<1> SUFFICES /\ f.type = "remote_added" =>
                   /\ new.panels = pg.panels \cup {f.id}
                   /\ f.id \notin pg.panels => new.remotes = pg.remotes \cup {f.id}
             /\ f.type = "remote_gone" =>
                   new.panels = pg.panels /\ new.remotes = pg.remotes \ {f.id}
             /\ f.type \notin {"remote_added", "remote_gone"} =>
                   new.panels = pg.panels /\ new.remotes = pg.remotes
             /\ f.type = "button_learnt" =>
                   /\ DOMAIN new.buttons = DOMAIN pg.buttons \cup {f.id}
                   /\ new.buttons[f.id] = f.remote_id
                   /\ \A c \in DOMAIN pg.buttons \ {f.id} : new.buttons[c] = pg.buttons[c]
             /\ f.type = "button_gone" =>
                   /\ DOMAIN new.buttons = DOMAIN pg.buttons \ {f.id}
                   /\ \A c \in DOMAIN pg.buttons \ {f.id} : new.buttons[c] = pg.buttons[c]
             /\ f.type \notin {"button_learnt", "button_gone"} => new.buttons = pg.buttons
             /\ f.type = "map_gone" =>
                   new.deleted = pg.deleted \cup {f.id} /\ DOMAIN new.maps = DOMAIN pg.maps
             /\ f.type # "map_gone" => new.deleted = pg.deleted
             /\ \A i : Row(i) \in DOMAIN pg.maps => Row(i) \in DOMAIN new.maps
             /\ \A i : Row(i) \in DOMAIN new.maps => Row(i) \in DOMAIN pg.maps \/ Tells(f, i)
             /\ f.type = "inserted" => Row(f.id) \in DOMAIN new.maps
  BY DEF RemotesPart, ButtonsPart, MapsPart
<1>1. CASE f.type = "inserted"
  <2>1. NamesRow(pg, f.temp_id, f.id, f.bind, new) /\ IsTemp(f.temp_id)
    BY <1>1 DEF Receives, FrameOK
  <2>2. \A i : Row(i) # f.temp_id
    BY <2>1, Names
  <2>3. \A i : Row(i) = Row(f.id) => i = f.id
    BY Names
  <2>4. \A i : Row(i) \in DOMAIN pg.maps => Row(i) \in DOMAIN new.maps
    BY <2>1, <2>2 DEF NamesRow
  <2>5. \A i : Row(i) \in DOMAIN new.maps => Row(i) \in DOMAIN pg.maps \/ Tells(f, i)
    BY <1>1, <2>1, <2>3 DEF NamesRow, Tells, Says
  <2> QED
    BY <1>1, <2>1, <2>4, <2>5 DEF NamesRow, SameButtons
<1>2. CASE f.type = "updated"
  <2>1. Refreshes(pg, f.found, new)
    BY <1>2 DEF Receives
  <2>2. CASE new = pg
    BY <1>2, <2>2
  <2>3. CASE new # pg
    <3>1. PICK i \in DOMAIN f.found : Displays(pg, Row(i), f.found[i], new)
      BY <2>1, <2>3 DEF Refreshes
    <3>2. \A j : Row(j) \in DOMAIN new.maps => Row(j) \in DOMAIN pg.maps \/ Tells(f, j)
      <4>1. \A j : Row(j) = Row(i) => j = i
        BY Names
      <4> QED
        BY <1>2, <3>1, <4>1 DEF Displays, Tells
    <3>3. \A j : Row(j) \in DOMAIN pg.maps => Row(j) \in DOMAIN new.maps
      BY <3>1 DEF Displays
    <3> QED
      BY <1>2, <3>1, <3>2, <3>3 DEF Displays, SameButtons
  <2> QED
    BY <2>2, <2>3
<1>3. CASE f.type = "map_gone"
  BY <1>3 DEF Receives, Hides, SameButtons
<1>4. CASE f.type = "button_gone"
  BY <1>4 DEF Receives, DropsButton, Unbinds
<1>5. CASE f.type = "button_learnt"
  BY <1>5 DEF Receives, Learns
<1>6. CASE f.type = "remote_gone"
  BY <1>6 DEF Receives, DropsRemote, Unbinds
<1>7. CASE f.type = "remote_added"
  BY <1>7 DEF Receives, AddsRemote
<1> QED
  BY <1>1, <1>2, <1>3, <1>4, <1>5, <1>6, <1>7 DEF FrameOK

LEMMA ReceivedRemotes ==
    ASSUME NEW pg, PageIds(pg), NEW s, IsSeq(s), s # <<>>, FrameOK(Head(s)), NEW new,
           Receives(pg, Head(s), new), RemotesTold(pg, s)
    PROVE  RemotesTold(new, Tail(s))
<1> DEFINE f == Head(s)
           rest == Tail(s)
<1>1. /\ f = s[1] /\ 1 \in 1..Len(s)
      /\ \A n \in 1..Len(rest) : n \in Nat /\ n + 1 \in 1..Len(s) /\ rest[n] = s[n + 1]
      /\ \A t, i : OnWay(t, i, s) <=> Says(f, t, i) \/ OnWay(t, i, rest)
      /\ \A t, i : Later(t, i, 1, s) <=> OnWay(t, i, rest)
      /\ \A t, i : \A m \in Nat : Later(t, i, m, rest) <=> Later(t, i, m + 1, s)
  BY LaterTail
<1> HIDE DEF f, rest
<1>2. /\ f.type = "remote_added" =>
            /\ new.panels = pg.panels \cup {f.id}
            /\ f.id \notin pg.panels => new.remotes = pg.remotes \cup {f.id}
      /\ f.type = "remote_gone" =>
            new.panels = pg.panels /\ new.remotes = pg.remotes \ {f.id}
      /\ f.type \notin {"remote_added", "remote_gone"} =>
            new.panels = pg.panels /\ new.remotes = pg.remotes
  <2>1. FrameOK(f) /\ Receives(pg, f, new)
    BY DEF f
  <2> QED
    BY <2>1, ReceivedParts DEF RemotesPart
<1>3. f.type = "remote_added" =>
         /\ f.id \notin pg.panels
         /\ ~ OnWay("remote_added", f.id, rest)
         /\ f.id \notin Rows(remotes) => OnWay("remote_gone", f.id, rest)
  BY <1>1 DEF RemotesTold
<1>4. \A r \in Rows(remotes) :
         /\ r \in new.remotes \/ OnWay("remote_added", r, rest)
         /\ ~ OnWay("remote_gone", r, rest)
  BY <1>1, <1>2, <1>3 DEF RemotesTold, Says
<1>5. \A r \in new.remotes \ Rows(remotes) : OnWay("remote_gone", r, rest)
  BY <1>1, <1>2, <1>3 DEF RemotesTold, Says
<1>6. ASSUME NEW m \in 1..Len(rest), rest[m].type = "remote_added"
      PROVE  /\ rest[m].id \notin new.panels
             /\ ~ Later("remote_added", rest[m].id, m, rest)
             /\ rest[m].id \notin Rows(remotes) => Later("remote_gone", rest[m].id, m, rest)
  <2>1. OnWay("remote_added", rest[m].id, rest)
    BY <1>6 DEF OnWay, Says
  <2>2. /\ rest[m].id \notin pg.panels
        /\ ~ Later("remote_added", rest[m].id, m + 1, s)
        /\ rest[m].id \notin Rows(remotes) => Later("remote_gone", rest[m].id, m + 1, s)
    BY <1>1, <1>6 DEF RemotesTold
  <2> QED
    BY <1>1, <1>2, <1>3, <2>1, <2>2
<1>7. RemotesTold(new, rest)
  BY <1>4, <1>5, <1>6 DEF RemotesTold
<1> QED
  BY <1>7 DEF rest

LEMMA ReceivedButtons ==
    ASSUME NEW pg, PageIds(pg), NEW s, IsSeq(s), s # <<>>, FrameOK(Head(s)), NEW new,
           Receives(pg, Head(s), new), ButtonsTold(pg, s), LearntLate(pg, s)
    PROVE  ButtonsTold(new, Tail(s)) /\ LearntLate(new, Tail(s))
<1> DEFINE f == Head(s)
           rest == Tail(s)
<1>1. /\ f = s[1] /\ 1 \in 1..Len(s)
      /\ \A n \in 1..Len(rest) : n \in Nat /\ n + 1 \in 1..Len(s) /\ rest[n] = s[n + 1]
      /\ \A t, i : OnWay(t, i, s) <=> Says(f, t, i) \/ OnWay(t, i, rest)
      /\ \A t, i : Later(t, i, 1, s) <=> OnWay(t, i, rest)
      /\ \A t, i : \A m \in Nat : Later(t, i, m, rest) <=> Later(t, i, m + 1, s)
  BY LaterTail
<1> HIDE DEF f, rest
<1>2. /\ f.type = "button_learnt" =>
            /\ DOMAIN new.buttons = DOMAIN pg.buttons \cup {f.id}
            /\ new.buttons[f.id] = f.remote_id
            /\ \A c \in DOMAIN pg.buttons \ {f.id} : new.buttons[c] = pg.buttons[c]
      /\ f.type = "button_gone" =>
            /\ DOMAIN new.buttons = DOMAIN pg.buttons \ {f.id}
            /\ \A c \in DOMAIN pg.buttons \ {f.id} : new.buttons[c] = pg.buttons[c]
      /\ f.type \notin {"button_learnt", "button_gone"} => new.buttons = pg.buttons
  <2>1. FrameOK(f) /\ Receives(pg, f, new)
    BY DEF f
  <2> QED
    BY <2>1, ReceivedParts DEF ButtonsPart
<1>3. \A b \in Rows(remote_buttons) :
         /\ b \in DOMAIN new.buttons \/ OnWay("button_learnt", b, rest)
         /\ ~ OnWay("button_gone", b, rest)
  BY <1>1, <1>2 DEF ButtonsTold, Says
<1>4. ASSUME NEW b \in DOMAIN new.buttons \ Rows(remote_buttons), new.buttons[b] \in Rows(remotes)
      PROVE  OnWay("button_gone", b, rest)
  <2>1. CASE f.type = "button_learnt" /\ b = f.id
    <3>1. f.remote_id \in Rows(remotes)
      BY <1>2, <1>4, <2>1
    <3>2. Later("button_gone", b, 1, s)
      BY <1>1, <1>4, <2>1, <3>1 DEF ButtonsTold
    <3> QED
      BY <1>1, <3>2
  <2>2. CASE ~(f.type = "button_learnt" /\ b = f.id)
    <3>1. b \in DOMAIN pg.buttons /\ new.buttons[b] = pg.buttons[b] /\ ~ Says(f, "button_gone", b)
      BY <1>2, <1>4, <2>2 DEF Says
    <3>2. OnWay("button_gone", b, s)
      BY <1>4, <3>1 DEF ButtonsTold
    <3> QED
      BY <1>1, <3>1, <3>2
  <2> QED
    BY <2>1, <2>2
<1>5. ASSUME NEW m \in 1..Len(rest),
             rest[m].type = "button_learnt", rest[m].id \notin Rows(remote_buttons),
             rest[m].remote_id \in Rows(remotes)
      PROVE  Later("button_gone", rest[m].id, m, rest)
  <2>1. Later("button_gone", rest[m].id, m + 1, s)
    BY <1>1, <1>5 DEF ButtonsTold
  <2> QED
    BY <1>1, <2>1
<1>6. ButtonsTold(new, rest)
  BY <1>3, <1>4, <1>5 DEF ButtonsTold
<1>7. ASSUME NEW b \in Rows(remote_buttons), NEW r, r = remote_buttons.rows[b].remote_id,
             r \notin Rows(remotes)
      PROVE  /\ b \in DOMAIN new.buttons => ~ OnWay("remote_gone", r, rest)
             /\ \A m \in 1..Len(rest) : Says(rest[m], "button_learnt", b) =>
                   ~ Later("remote_gone", r, m, rest)
  <2>1. /\ b \in DOMAIN pg.buttons => ~ OnWay("remote_gone", r, s)
        /\ \A m \in 1..Len(s) : Says(s[m], "button_learnt", b) =>
              ~ Later("remote_gone", r, m, s)
    BY <1>7 DEF LearntLate
  <2>2. ASSUME b \in DOMAIN new.buttons PROVE ~ OnWay("remote_gone", r, rest)
    <3>1. CASE Says(f, "button_learnt", b)
      BY <1>1, <2>1, <3>1
    <3>2. CASE ~ Says(f, "button_learnt", b)
      <4>1. b \in DOMAIN pg.buttons
        BY <1>2, <2>2, <3>2 DEF Says
      <4> QED
        BY <1>1, <2>1, <4>1
    <3> QED
      BY <3>1, <3>2
  <2>3. ASSUME NEW m \in 1..Len(rest), Says(rest[m], "button_learnt", b)
        PROVE  ~ Later("remote_gone", r, m, rest)
    BY <1>1, <2>1, <2>3
  <2> QED
    BY <2>2, <2>3
<1>8. LearntLate(new, rest)
  BY <1>7 DEF LearntLate
<1> QED
  BY <1>6, <1>8 DEF rest

LEMMA ReceivedMaps ==
    ASSUME NEW pg, PageIds(pg), NEW s, IsSeq(s), s # <<>>, FrameOK(Head(s)), NEW new,
           Receives(pg, Head(s), new), MapsTold(pg, s)
    PROVE  MapsTold(new, Tail(s))
<1> DEFINE f == Head(s)
           rest == Tail(s)
<1>1. /\ f = s[1] /\ 1 \in 1..Len(s)
      /\ \A n \in 1..Len(rest) : n + 1 \in 1..Len(s) /\ rest[n] = s[n + 1]
      /\ \A t, i : OnWay(t, i, s) <=> Says(f, t, i) \/ OnWay(t, i, rest)
  BY LaterTail
<1> HIDE DEF f, rest
<1>2. /\ f.type = "map_gone" => new.deleted = pg.deleted \cup {f.id}
      /\ f.type # "map_gone" => new.deleted = pg.deleted
      /\ \A i : Row(i) \in DOMAIN pg.maps => Row(i) \in DOMAIN new.maps
      /\ \A i : Row(i) \in DOMAIN new.maps => Row(i) \in DOMAIN pg.maps \/ Tells(f, i)
      /\ f.type = "inserted" => Row(f.id) \in DOMAIN new.maps
  <2>1. FrameOK(f) /\ Receives(pg, f, new)
    BY DEF f
  <2> QED
    BY <2>1, ReceivedParts DEF MapsPart
<1>3. ASSUME NEW i \in Rows(button_binds)
      PROVE  /\ Row(i) \in DOMAIN new.maps \/ OnWay("inserted", i, rest)
             /\ Row(i) \notin new.deleted
             /\ ~ OnWay("map_gone", Row(i), rest)
  BY <1>1, <1>2, <1>3 DEF MapsTold, Says
<1>4. ASSUME NEW i \in 1..button_binds.seq, i \notin Rows(button_binds),
             Row(i) \in DOMAIN new.maps \/ \E m \in 1..Len(rest) : Tells(rest[m], i)
      PROVE  Row(i) \in new.deleted \/ OnWay("map_gone", Row(i), rest)
  <2>1. Row(i) \in DOMAIN pg.maps \/ \E m \in 1..Len(s) : Tells(s[m], i)
    BY <1>1, <1>2, <1>4
  <2>2. Row(i) \in pg.deleted \/ OnWay("map_gone", Row(i), s)
    BY <1>4, <2>1 DEF MapsTold
  <2> QED
    BY <1>1, <1>2, <2>2 DEF Says
<1>5. MapsTold(new, rest)
  BY <1>3, <1>4 DEF MapsTold
<1> QED
  BY <1>5 DEF rest

LEMMA ReceivedTold ==
    ASSUME NEW pg, PageIds(pg), NEW s, IsSeq(s), s # <<>>, FrameOK(Head(s)), NEW new,
           Receives(pg, Head(s), new), Told(pg, s)
    PROVE  Told(new, Tail(s))
<1>1. RemotesTold(new, Tail(s))
  BY ReceivedRemotes DEF Told
<1>2. ButtonsTold(new, Tail(s)) /\ LearntLate(new, Tail(s))
  BY ReceivedButtons DEF Told
<1>3. MapsTold(new, Tail(s))
  BY ReceivedMaps DEF Told
<1> QED
  BY <1>1, <1>2, <1>3 DEF Told

-----------------------------------------------------------------------------
(***************************************************************************)
(* The frame that a handler broadcasts says what it did to the tables.     *)
(***************************************************************************)
SameRows(tab, new) ==
    Rows(new) = Rows(tab) /\ \A i \in Rows(tab) : new.rows[i] = tab.rows[i]

RemotesSaid(f) ==
    \/ /\ f.type = "remote_added" /\ f.id = remotes.seq + 1
       /\ Rows(remotes') = Rows(remotes) \cup {f.id}
    \/ /\ f.type = "remote_gone" /\ f.id \in Rows(remotes)
       /\ Rows(remotes') = Rows(remotes) \ {f.id}
    \/ f.type \notin {"remote_added", "remote_gone"} /\ Rows(remotes') = Rows(remotes)

ButtonsSaid(f) ==
    /\ \A b \in Rows(remote_buttons) \cap Rows(remote_buttons') :
          remote_buttons'.rows[b] = remote_buttons.rows[b]
    /\ \/ /\ f.type = "button_learnt" /\ f.id = remote_buttons.seq + 1
          /\ Rows(remote_buttons') = Rows(remote_buttons) \cup {f.id}
       \/ /\ f.type = "button_gone" /\ f.id \in Rows(remote_buttons)
          /\ Rows(remote_buttons') = Rows(remote_buttons) \ {f.id}
       \/ /\ f.type = "remote_gone"
          /\ Rows(remote_buttons') = Rows(remote_buttons) \ ButtonsOf(f.id)
       \/ /\ f.type \notin {"button_learnt", "button_gone", "remote_gone"}
          /\ Rows(remote_buttons') = Rows(remote_buttons)

MapsSaid(f) ==
    \/ /\ f.type = "inserted" /\ f.id = button_binds.seq + 1
       /\ Rows(button_binds') = Rows(button_binds) \cup {f.id}
       /\ button_binds'.seq = button_binds.seq + 1
    \/ /\ f.type = "map_gone"
       /\ Rows(button_binds') \subseteq Rows(button_binds)
       /\ \A i \in Rows(button_binds) : i \in Rows(button_binds') <=> f.id # Row(i)
       /\ button_binds'.seq = button_binds.seq
    \/ /\ f.type \notin {"inserted", "map_gone"}
       /\ f.type = "updated" => DOMAIN f.found \subseteq Rows(button_binds)
       /\ Rows(button_binds') = Rows(button_binds)
       /\ button_binds'.seq = button_binds.seq

LEMMA SaidWhatWasDone ==
    ASSUME TablesOK, NEW m, MessageOK(m), NEW f, Tabled(m, f)
    PROVE  RemotesSaid(f) /\ ButtonsSaid(f) /\ MapsSaid(f)
<1>1. CASE Inserting(m, f)
  <2>1. /\ f.type = "inserted" /\ f.id = button_binds.seq + 1
        /\ Rows(remotes') = Rows(remotes) /\ remote_buttons' = remote_buttons
        /\ Rows(button_binds') = Rows(button_binds) \cup {f.id}
        /\ button_binds'.seq = button_binds.seq + 1
    BY <1>1 DEF Inserting, Inserts, Inserted, Rows
  <2> QED
    BY <2>1 DEF RemotesSaid, ButtonsSaid, MapsSaid
<1>2. CASE Updating(m, f)
  <2>1. /\ f.type = "updated" /\ DOMAIN f.found \subseteq Rows(button_binds)
        /\ Rows(remotes') = Rows(remotes) /\ remote_buttons' = remote_buttons
        /\ Rows(button_binds') = Rows(button_binds)
        /\ button_binds'.seq = button_binds.seq
    BY <1>2 DEF Updating, Assigns
  <2> QED
    BY <2>1 DEF RemotesSaid, ButtonsSaid, MapsSaid
<1>3. CASE DeletingMap(m, f)
  <2>1. /\ f.type = "map_gone" /\ f.id = m.id
        /\ Rows(remotes') = Rows(remotes) /\ remote_buttons' = remote_buttons
        /\ \/ IsTemp(m.id) /\ button_binds' = button_binds
           \/ ~ IsTemp(m.id) /\ Deletes(button_binds, {m.id[2]}, button_binds')
    BY <1>3 DEF DeletingMap, MapGone
  <2>2. m.id \in Name
    BY <1>3 DEF DeletingMap, MessageOK, NameOK
  <2>3. \A i : m.id = Row(i) => ~ IsTemp(m.id) /\ m.id[2] = i
    BY Names
  <2>4. ~ IsTemp(m.id) => m.id = Row(m.id[2])
    BY <2>2, Names
  <2>5. MapsSaid(f)
    BY <2>1, <2>3, <2>4 DEF MapsSaid, Deletes
  <2> QED
    BY <2>1, <2>5 DEF RemotesSaid, ButtonsSaid
<1>4. CASE DeletingButton(m, f)
  <2>1. /\ f.type = "button_gone" /\ f.id = m.id /\ m.id \in Rows(remote_buttons)
        /\ Rows(remotes') = Rows(remotes)
        /\ Rows(remote_buttons') = Rows(remote_buttons) \ {f.id}
        /\ \A b \in Rows(remote_buttons') : remote_buttons'.rows[b] = remote_buttons.rows[b]
        /\ Rows(button_binds') = Rows(button_binds)
        /\ button_binds'.seq = button_binds.seq
    BY <1>4 DEF DeletingButton, Deletes, Assigns, ButtonGone
  <2> QED
    BY <2>1 DEF RemotesSaid, ButtonsSaid, MapsSaid
<1>5. CASE Learning(m, f)
  <2>1. /\ f.type = "button_learnt" /\ f.id = remote_buttons.seq + 1
        /\ Rows(remotes') = Rows(remotes)
        /\ Rows(remote_buttons') = Rows(remote_buttons) \cup {f.id}
        /\ \A b \in Rows(remote_buttons) : remote_buttons'.rows[b] = remote_buttons.rows[b]
        /\ Rows(button_binds') = Rows(button_binds)
        /\ button_binds'.seq = button_binds.seq
    BY <1>5 DEF Learning, Inserts, ButtonLearnt
  <2> QED
    BY <2>1 DEF RemotesSaid, ButtonsSaid, MapsSaid
<1>6. CASE AddingRemote(m, f)
  <2>1. /\ f.type = "remote_added" /\ f.id = remotes.seq + 1
        /\ Rows(remotes') = Rows(remotes) \cup {f.id}
        /\ remote_buttons' = remote_buttons
        /\ Rows(button_binds') = Rows(button_binds)
        /\ button_binds'.seq = button_binds.seq
    BY <1>6 DEF AddingRemote, Inserts, RemoteAdded
  <2> QED
    BY <2>1 DEF RemotesSaid, ButtonsSaid, MapsSaid
<1>7. CASE DeletingRemote(m, f)
  <2>1. /\ f.type = "remote_gone" /\ f.id = m.id /\ m.id \in Rows(remotes)
        /\ Rows(remotes') = Rows(remotes) \ {f.id}
        /\ Rows(remote_buttons') = Rows(remote_buttons) \ ButtonsOf(f.id)
        /\ \A b \in Rows(remote_buttons') : remote_buttons'.rows[b] = remote_buttons.rows[b]
        /\ Rows(button_binds') = Rows(button_binds)
        /\ button_binds'.seq = button_binds.seq
    BY <1>7 DEF DeletingRemote, Deletes, Assigns, RemoteGone
  <2> QED
    BY <2>1 DEF RemotesSaid, ButtonsSaid, MapsSaid
<1> QED
  BY <1>1, <1>2, <1>3, <1>4, <1>5, <1>6, <1>7 DEF Tabled

\* A page still has to be told what it had to be told, and the new frame's news.
LEMMA RepliedRemotes ==
    ASSUME TablesOK, NEW pg, PageIds(pg), NEW s, \A n \in 1..Len(s) : FrameOK(s[n]),
           NEW f, RemotesSaid(f), NEW r, OneMore(s, f, r), RemotesTold(pg, s)
    PROVE  RemotesTold(pg, r)'
<1>1. /\ Len(s) \in Nat /\ Len(r) = Len(s) + 1 /\ r[Len(s) + 1] = f
      /\ \A n \in 1..Len(s) : n \in 1..Len(r) /\ r[n] = s[n]
      /\ \A n \in 1..Len(r) : n \in 1..Len(s) \/ n = Len(s) + 1
      /\ \A t, i : OnWay(t, i, r) <=> OnWay(t, i, s) \/ Says(f, t, i)
      /\ \A t, i : \A m \in 1..Len(s) : Later(t, i, m, r) <=> Later(t, i, m, s) \/ Says(f, t, i)
      /\ \A t, i : ~ Later(t, i, Len(s) + 1, r)
  BY DEF OneMore
<1>2. /\ remotes.seq \in Nat
      /\ pg.panels \subseteq 1..remotes.seq
      /\ \A n \in 1..Len(s) : s[n].type \in {"remote_added", "remote_gone"} =>
            s[n].id \in 1..remotes.seq
  BY Seqs DEF PageIds, PageOK, FrameOK
<1>3. ~ OnWay("remote_gone", remotes.seq + 1, s)
  BY <1>2 DEF OnWay, Says
<1>4. \A x \in Rows(remotes') :
         /\ x \in pg.remotes \/ OnWay("remote_added", x, r)
         /\ ~ OnWay("remote_gone", x, r)
  BY <1>1, <1>3 DEF RemotesTold, RemotesSaid, Says
<1>5. \A x \in pg.remotes \ Rows(remotes') : OnWay("remote_gone", x, r)
  BY <1>1 DEF RemotesTold, RemotesSaid, Says
<1>6. ASSUME NEW m \in 1..Len(r), r[m].type = "remote_added"
      PROVE  /\ r[m].id \notin pg.panels
             /\ ~ Later("remote_added", r[m].id, m, r)
             /\ r[m].id \notin Rows(remotes') => Later("remote_gone", r[m].id, m, r)
  <2>1. CASE m \in 1..Len(s)
    <3>1. /\ r[m] = s[m] /\ s[m].id \in 1..remotes.seq
          /\ s[m].id \notin pg.panels /\ ~ Later("remote_added", s[m].id, m, s)
          /\ s[m].id \notin Rows(remotes) => Later("remote_gone", s[m].id, m, s)
      BY <1>1, <1>2, <1>6, <2>1 DEF RemotesTold
    <3>2. s[m].id # remotes.seq + 1
      BY <1>2, <3>1
    <3>3. ~ Says(f, "remote_added", s[m].id)
      BY <3>2 DEF RemotesSaid, Says
    <3>4. s[m].id \in Rows(remotes) /\ s[m].id \notin Rows(remotes') =>
             Says(f, "remote_gone", s[m].id)
      BY DEF RemotesSaid, Says
    <3> QED
      BY <1>1, <2>1, <3>1, <3>3, <3>4
  <2>2. CASE m = Len(s) + 1
    <3>1. r[m] = f /\ f.type = "remote_added"
      BY <1>1, <1>6, <2>2
    <3>2. f.id = remotes.seq + 1 /\ f.id \in Rows(remotes')
      BY <3>1 DEF RemotesSaid
    <3> QED
      BY <1>1, <1>2, <2>2, <3>1, <3>2
  <2> QED
    BY <1>1, <2>1, <2>2
<1>7. Rows(remotes)' = Rows(remotes')
  BY DEF Rows
<1> QED
  BY <1>4, <1>5, <1>6, <1>7 DEF RemotesTold, OnWay, Later, Says


LEMMA RepliedButtons ==
    ASSUME TablesOK, NEW pg, PageIds(pg), NEW s, \A n \in 1..Len(s) : FrameOK(s[n]),
           NEW f, RemotesSaid(f), ButtonsSaid(f), NEW r, OneMore(s, f, r), ButtonsTold(pg, s)
    PROVE  ButtonsTold(pg, r)'
<1>1. /\ Len(s) \in Nat /\ Len(r) = Len(s) + 1 /\ r[Len(s) + 1] = f
      /\ \A n \in 1..Len(s) : n \in 1..Len(r) /\ r[n] = s[n]
      /\ \A n \in 1..Len(r) : n \in 1..Len(s) \/ n = Len(s) + 1
      /\ \A t, i : OnWay(t, i, r) <=> OnWay(t, i, s) \/ Says(f, t, i)
      /\ \A t, i : \A m \in 1..Len(s) : Later(t, i, m, r) <=> Later(t, i, m, s) \/ Says(f, t, i)
      /\ \A t, i : ~ Later(t, i, Len(s) + 1, r)
  BY DEF OneMore
<1>2. /\ remote_buttons.seq \in Nat /\ remotes.seq \in Nat
      /\ DOMAIN pg.buttons \subseteq 1..remote_buttons.seq
      /\ \A b \in DOMAIN pg.buttons : RightRemote(b, pg.buttons[b])
      /\ \A n \in 1..Len(s) : s[n].type = "button_gone" => s[n].id \in 1..remote_buttons.seq
      /\ \A n \in 1..Len(s) : s[n].type = "button_learnt" => RightRemote(s[n].id, s[n].remote_id)
  BY Seqs DEF PageIds, PageOK, FrameOK
<1>3. ~ OnWay("button_gone", remote_buttons.seq + 1, s)
  BY <1>2 DEF OnWay, Says
\* A button that is gone now, while its remote is not, was deleted by itself.
<1>4. ASSUME NEW b, NEW x, RightRemote(b, x), b \notin Rows(remote_buttons'), x \in Rows(remotes')
      PROVE  (b \notin Rows(remote_buttons) /\ x \in Rows(remotes)) \/ Says(f, "button_gone", b)
  <2>1. x \in Rows(remotes)
    <3>1. x \in 1..remotes.seq /\ x # remotes.seq + 1
      BY <1>2, <1>4 DEF RightRemote
    <3> QED
      BY <1>4, <3>1 DEF RemotesSaid
  <2>2. CASE b \in Rows(remote_buttons)
    <3>1. x = remote_buttons.rows[b].remote_id
      BY <1>4, <2>2 DEF RightRemote
    <3>2. f.type = "remote_gone" => x # f.id
      BY <1>4 DEF RemotesSaid
    <3>3. ~(f.type = "remote_gone" /\ b \in ButtonsOf(f.id))
      BY <3>1, <3>2 DEF ButtonsOf
    <3> QED
      BY <1>4, <2>2, <3>3 DEF ButtonsSaid, Says
  <2> QED
    BY <2>1, <2>2
<1>5. \A b \in Rows(remote_buttons') :
         /\ b \in DOMAIN pg.buttons \/ OnWay("button_learnt", b, r)
         /\ ~ OnWay("button_gone", b, r)
  BY <1>1, <1>3 DEF ButtonsTold, ButtonsSaid, Says
<1>6. ASSUME NEW b \in DOMAIN pg.buttons \ Rows(remote_buttons'), pg.buttons[b] \in Rows(remotes')
      PROVE  OnWay("button_gone", b, r)
  <2>1. RightRemote(b, pg.buttons[b])
    BY <1>2
  <2>2. (b \notin Rows(remote_buttons) /\ pg.buttons[b] \in Rows(remotes)) \/ Says(f, "button_gone", b)
    BY <1>4, <1>6, <2>1
  <2> QED
    BY <1>1, <2>2 DEF ButtonsTold
<1>7. ASSUME NEW m \in 1..Len(r), r[m].type = "button_learnt",
             r[m].id \notin Rows(remote_buttons'), r[m].remote_id \in Rows(remotes')
      PROVE  Later("button_gone", r[m].id, m, r)
  <2>1. CASE m \in 1..Len(s)
    <3>1. r[m] = s[m] /\ RightRemote(s[m].id, s[m].remote_id)
      BY <1>1, <1>2, <1>7, <2>1
    <3>2. \/ s[m].id \notin Rows(remote_buttons) /\ s[m].remote_id \in Rows(remotes)
          \/ Says(f, "button_gone", s[m].id)
      BY <1>4, <1>7, <3>1
    <3> QED
      BY <1>1, <1>7, <2>1, <3>1, <3>2 DEF ButtonsTold
  <2>2. CASE m = Len(s) + 1
    <3>1. r[m] = f /\ f.type = "button_learnt"
      BY <1>1, <1>7, <2>2
    <3>2. f.id \in Rows(remote_buttons')
      BY <3>1 DEF ButtonsSaid
    <3> QED
      BY <1>7, <3>1, <3>2
  <2> QED
    BY <1>1, <2>1, <2>2
<1>8. Rows(remotes)' = Rows(remotes') /\ Rows(remote_buttons)' = Rows(remote_buttons')
  BY DEF Rows
<1> QED
  BY <1>5, <1>6, <1>7, <1>8 DEF ButtonsTold, OnWay, Later, Says

LEMMA RepliedLate ==
    ASSUME TablesOK, NEW pg, PageIds(pg), NEW s, \A n \in 1..Len(s) : FrameOK(s[n]),
           NEW f, RemotesSaid(f), ButtonsSaid(f), NEW r, OneMore(s, f, r), LearntLate(pg, s)
    PROVE  LearntLate(pg, r)'
<1>1. /\ Len(s) \in Nat /\ Len(r) = Len(s) + 1 /\ r[Len(s) + 1] = f
      /\ \A n \in 1..Len(s) : n \in 1..Len(r) /\ r[n] = s[n]
      /\ \A n \in 1..Len(r) : n \in 1..Len(s) \/ n = Len(s) + 1
      /\ \A t, i : OnWay(t, i, r) <=> OnWay(t, i, s) \/ Says(f, t, i)
      /\ \A t, i : \A m \in 1..Len(s) : Later(t, i, m, r) <=> Later(t, i, m, s) \/ Says(f, t, i)
      /\ \A t, i : ~ Later(t, i, Len(s) + 1, r)
  BY DEF OneMore
<1>2. /\ remote_buttons.seq \in Nat
      /\ DOMAIN pg.buttons \subseteq 1..remote_buttons.seq
      /\ \A n \in 1..Len(s) : s[n].type = "button_learnt" => s[n].id \in 1..remote_buttons.seq
  BY Seqs DEF PageIds, PageOK, FrameOK, RightRemote
<1>3. ASSUME NEW b \in Rows(remote_buttons'), NEW x, x = remote_buttons'.rows[b].remote_id,
             x \notin Rows(remotes')
      PROVE  /\ b \in DOMAIN pg.buttons => ~ OnWay("remote_gone", x, r)
             /\ \A m \in 1..Len(r) : Says(r[m], "button_learnt", b) => ~ Later("remote_gone", x, m, r)
  <2>1. CASE b \in Rows(remote_buttons)
    <3>1. x = remote_buttons.rows[b].remote_id
      BY <1>3, <2>1 DEF ButtonsSaid
    <3>2. x \notin Rows(remotes)
      <4>1. f.type = "remote_gone" => x # f.id
        <5>1. f.type = "remote_gone" => b \notin ButtonsOf(f.id)
          BY <1>3 DEF ButtonsSaid
        <5> QED
          BY <2>1, <3>1, <5>1 DEF ButtonsOf
      <4> QED
        BY <1>3, <4>1 DEF RemotesSaid
    <3>3. ~ Says(f, "remote_gone", x)
      BY <3>2 DEF RemotesSaid, Says
    <3>4. /\ b \in DOMAIN pg.buttons => ~ OnWay("remote_gone", x, s)
          /\ \A m \in 1..Len(s) : Says(s[m], "button_learnt", b) => ~ Later("remote_gone", x, m, s)
      BY <2>1, <3>1, <3>2 DEF LearntLate
    <3> QED
      BY <1>1, <3>3, <3>4
  <2>2. CASE b \notin Rows(remote_buttons)
    <3>1. b = remote_buttons.seq + 1
      BY <1>3, <2>2 DEF ButtonsSaid
    <3>2. b \notin DOMAIN pg.buttons /\ \A m \in 1..Len(s) : ~ Says(s[m], "button_learnt", b)
      BY <1>2, <3>1 DEF Says
    <3> QED
      BY <1>1, <3>2
  <2> QED
    BY <2>1, <2>2
<1>4. \A b \in Rows(remote_buttons') : remote_buttons'.rows[b].remote_id \notin Rows(remotes') =>
         /\ b \in DOMAIN pg.buttons => ~ OnWay("remote_gone", remote_buttons'.rows[b].remote_id, r)
         /\ \A m \in 1..Len(r) : Says(r[m], "button_learnt", b) =>
               ~ Later("remote_gone", remote_buttons'.rows[b].remote_id, m, r)
  BY <1>3
<1>5. Rows(remotes)' = Rows(remotes') /\ Rows(remote_buttons)' = Rows(remote_buttons')
  BY DEF Rows
<1> QED
  BY <1>4, <1>5 DEF LearntLate, OnWay, Later, Says

LEMMA RepliedMaps ==
    ASSUME TablesOK, NEW pg, PageIds(pg), NEW s, \A n \in 1..Len(s) : FrameOK(s[n]),
           NEW f, MapsSaid(f), NEW r, OneMore(s, f, r), MapsTold(pg, s)
    PROVE  MapsTold(pg, r)'
<1>1. /\ Len(s) \in Nat /\ Len(r) = Len(s) + 1 /\ r[Len(s) + 1] = f
      /\ \A n \in 1..Len(s) : n \in 1..Len(r) /\ r[n] = s[n]
      /\ \A n \in 1..Len(r) : n \in 1..Len(s) \/ n = Len(s) + 1
      /\ \A t, i : OnWay(t, i, r) <=> OnWay(t, i, s) \/ Says(f, t, i)
  BY DEF OneMore
<1> DEFINE k == button_binds.seq + 1
<1>2. /\ button_binds.seq \in Nat
      /\ \A i : Row(i) \in pg.deleted => i \in 1..button_binds.seq
      /\ \A n \in 1..Len(s) : \A i : Says(s[n], "map_gone", Row(i)) => i \in 1..button_binds.seq
  <2>1. \A i : ~ IsTemp(Row(i)) /\ Row(i)[2] = i
    BY Names
  <2> QED
    BY <2>1, Seqs DEF PageIds, PageOK, FrameOK, NameOK, Says
<1>3. Row(k) \notin pg.deleted /\ ~ OnWay("map_gone", Row(k), s)
  BY <1>2 DEF OnWay
<1>4. ASSUME NEW i \in Rows(button_binds')
      PROVE  /\ Row(i) \in DOMAIN pg.maps \/ OnWay("inserted", i, r)
             /\ Row(i) \notin pg.deleted
             /\ ~ OnWay("map_gone", Row(i), r)
  <2>1. ~ Says(f, "map_gone", Row(i))
    BY <1>4 DEF MapsSaid, Says
  <2>2. CASE i \in Rows(button_binds)
    BY <1>1, <2>1, <2>2 DEF MapsTold
  <2>3. CASE i \notin Rows(button_binds)
    <3>1. f.type = "inserted" /\ f.id = i /\ i = k
      BY <1>4, <2>3 DEF MapsSaid
    <3> QED
      BY <1>1, <1>3, <2>1, <3>1 DEF Says
  <2> QED
    BY <2>2, <2>3
<1>5. ASSUME NEW i \in 1..button_binds'.seq, i \notin Rows(button_binds'),
             Row(i) \in DOMAIN pg.maps \/ \E m \in 1..Len(r) : Tells(r[m], i)
      PROVE  Row(i) \in pg.deleted \/ OnWay("map_gone", Row(i), r)
  <2>1. i \in 1..button_binds.seq
    BY <1>2, <1>5 DEF MapsSaid
  <2>2. CASE i \in Rows(button_binds)
    <3>1. Says(f, "map_gone", Row(i))
      BY <1>5, <2>2 DEF MapsSaid, Says
    <3> QED
      BY <1>1, <3>1
  <2>3. CASE i \notin Rows(button_binds)
    <3>1. ~ Tells(f, i)
      BY <1>5, <2>3 DEF MapsSaid, Tells, Says
    <3>2. Row(i) \in DOMAIN pg.maps \/ \E m \in 1..Len(s) : Tells(s[m], i)
      BY <1>1, <1>5, <3>1
    <3> QED
      BY <1>1, <2>1, <2>3, <3>2 DEF MapsTold
  <2> QED
    BY <2>2, <2>3
<1>6. Rows(button_binds)' = Rows(button_binds')
  BY DEF Rows
<1> QED
  BY <1>4, <1>5, <1>6 DEF MapsTold, OnWay, Tells, Says


LEMMA RepliedTold ==
    ASSUME TablesOK, NEW pg, PageIds(pg), NEW s, IsSeq(s), \A n \in 1..Len(s) : FrameOK(s[n]),
           NEW m, MessageOK(m), NEW f, Tabled(m, f), NEW r, r = Append(s, f), Told(pg, s)
    PROVE  Told(pg, r)'
<1>1. OneMore(s, f, r)
  BY LaterAppend
<1>2. RemotesSaid(f) /\ ButtonsSaid(f) /\ MapsSaid(f)
  BY SaidWhatWasDone
<1>3. RemotesTold(pg, s) /\ ButtonsTold(pg, s) /\ LearntLate(pg, s) /\ MapsTold(pg, s)
  BY DEF Told
<1>4. RemotesTold(pg, r)'
  BY <1>1, <1>2, <1>3, RepliedRemotes
<1>5. ButtonsTold(pg, r)'
  BY <1>1, <1>2, <1>3, RepliedButtons
<1>6. LearntLate(pg, r)'
  BY <1>1, <1>2, <1>3, RepliedLate
<1>7. MapsTold(pg, r)'
  BY <1>1, <1>2, <1>3, RepliedMaps
<1> QED
  BY <1>4, <1>5, <1>6, <1>7 DEF Told

LEMMA SameTold ==
    ASSUME UNCHANGED tables, NEW pg, NEW s, Told(pg, s)
    PROVE  Told(pg, s)'
<1>1. UNCHANGED remotes /\ UNCHANGED remote_buttons /\ UNCHANGED button_binds
  BY DEF tables
<1>2. RemotesTold(pg, s)'
  BY <1>1 DEF Told, RemotesTold, Rows, OnWay, Later, Says
<1>3. ButtonsTold(pg, s)'
  BY <1>1 DEF Told, ButtonsTold, Rows, OnWay, Later, Says
<1>4. LearntLate(pg, s)'
  BY <1>1 DEF Told, LearntLate, Rows, OnWay, Later, Says
<1>5. MapsTold(pg, s)'
  BY <1>1 DEF Told, MapsTold, Rows, OnWay, Says, Tells
<1> QED
  BY <1>2, <1>3, <1>4, <1>5 DEF Told

LEMMA ToldBecomes ==
    ASSUME NEW q, NEW pg, page'[q] = pg, NEW s, inbox'[q] = s, Told(pg, s)'
    PROVE  Told(page[q], inbox[q])'
<1>1. RemotesTold(page[q], inbox[q])'
  BY DEF Told, RemotesTold, OnWay, Later, Says
<1>2. ButtonsTold(page[q], inbox[q])'
  BY DEF Told, ButtonsTold, OnWay, Later, Says
<1>3. LearntLate(page[q], inbox[q])'
  BY DEF Told, LearntLate, OnWay, Later, Says
<1>4. MapsTold(page[q], inbox[q])'
  BY DEF Told, MapsTold, OnWay, Says, Tells
<1> QED
  BY <1>1, <1>2, <1>3, <1>4 DEF Told

\* What a page was told does not change with steps that leave the tables alone.
LEMMA StillTold ==
    ASSUME UNCHANGED tables, NEW q, Told(page[q], inbox[q]),
           page'[q] = page[q], inbox'[q] = inbox[q]
    PROVE  Told(page[q], inbox[q])'
<1>1. PICK pg, s : pg = page[q] /\ s = inbox[q]
  OBVIOUS
<1>2. Told(pg, s)'
  BY <1>1, SameTold
<1> QED
  BY <1>1, <1>2, ToldBecomes


LEMMA AllToldStep ==
    ASSUME TInv, AllTold, Next
    PROVE  AllTold'
<1> SUFFICES ASSUME NEW q \in Conns, q \notin missed', page'[q].up
             PROVE  Told(page[q], inbox[q])'
  BY DEF AllTold, Fresh
<1>1. PICK p \in Conns :
              \/ LoadPage(p)
              \/ Quiet(p)
              \/ Disconnect(p)
              \/ Receive(p)
              \/ \E messages, new : Edits(page[p], messages, new) /\ Edit(p, messages, new)
              \/ \E f : Reply(p, f) /\ Tabled(Head(outbox[p]), f) /\ TableKinds'
  BY Steps
<1>2. /\ TablesOK /\ PageIds(page[q]) /\ PageIds(page[p])
      /\ IsSeq(inbox[q]) /\ IsSeq(inbox[p])
      /\ \A n \in 1..Len(inbox[q]) : FrameOK(inbox[q][n])
  BY DEF TInv, PagesOK, HubOK, StreamsIn, StreamsOK
<1>3. q \notin missed /\ page[q].up => Told(page[q], inbox[q])
  BY DEF AllTold, Fresh
<1>4. CASE LoadPage(p)
  <2>1. /\ UNCHANGED tables /\ page'[p] = Loaded /\ missed' = missed \ {p}
        /\ UNCHANGED hubVars /\ inbox[p] = <<>>
        /\ \A c \in Conns \ {p} : page'[c] = page[c]
    BY <1>4, LoadTInv
  <2>2. UNCHANGED inbox
    BY <2>1 DEF hubVars
  <2>3. CASE q = p
    <3>1. PICK pg, s : pg = Loaded /\ s = <<>>
      OBVIOUS
    <3>2. IsLoaded(pg)
      BY <1>2, <2>1, <2>3, <3>1, LoadedItems
    <3>3. Told(pg, s)'
      BY <2>1, <3>1, <3>2, LoadedTold, SameTold
    <3> QED
      BY <2>1, <2>2, <2>3, <3>1, <3>3, ToldBecomes
  <2>4. CASE q # p
    BY <1>3, <2>1, <2>2, <2>4, StillTold
  <2> QED
    BY <2>3, <2>4
<1>5. CASE Quiet(p)
  <2>1. UNCHANGED inbox /\ UNCHANGED tables /\ UNCHANGED page /\ UNCHANGED missed
    BY <1>5, QuietTInv DEF histories
  <2> QED
    BY <1>3, <2>1, StillTold
<1>6. CASE Disconnect(p)
  <2>1. /\ UNCHANGED tables /\ UNCHANGED page
        /\ missed' = IF inbox[p] = <<>> /\ outbox[p] = <<>> THEN missed ELSE missed \cup {p}
        /\ inbox'[p] = <<>> /\ \A c \in Conns \ {p} : inbox'[c] = inbox[c]
    BY <1>6, DisconnectTInv
  <2>2. q \notin missed /\ inbox'[q] = inbox[q]
    BY <2>1
  <2> QED
    BY <1>3, <2>1, <2>2, StillTold
<1>7. CASE Receive(p)
  <2>1. /\ UNCHANGED tables /\ UNCHANGED missed
        /\ inbox[p] # <<>> /\ inbox'[p] = Tail(inbox[p])
        /\ FrameOK(Head(inbox[p]))
        /\ \A c \in Conns \ {p} : inbox'[c] = inbox[c] /\ page'[c] = page[c]
        /\ Receives(page[p], Head(inbox[p]), page'[p])
        /\ page'[p].up = page[p].up
    BY <1>7, ReceiveTInv DEF histories
  <2>2. CASE q = p
    <3>1. PICK pg, s, new : pg = page[p] /\ s = inbox[p] /\ new = page'[p]
      OBVIOUS
    <3>2. Told(new, Tail(s))
      BY <1>2, <1>3, <2>1, <2>2, <3>1, ReceivedTold
    <3>3. PICK rest : rest = Tail(s)
      OBVIOUS
    <3>4. Told(new, rest)'
      BY <2>1, <3>2, <3>3, SameTold
    <3> QED
      BY <2>1, <2>2, <3>1, <3>3, <3>4, ToldBecomes
  <2>3. CASE q # p
    BY <1>3, <2>1, <2>3, StillTold
  <2> QED
    BY <2>2, <2>3
<1>8. ASSUME NEW messages, NEW new, Edits(page[p], messages, new), Edit(p, messages, new)
      PROVE  Told(page[q], inbox[q])'
  <2>1. /\ UNCHANGED tables /\ UNCHANGED missed /\ UNCHANGED inbox
        /\ page'[p] = new
        /\ \A c \in Conns \ {p} : page'[c] = page[c]
    BY <1>8, EditTInv
  <2>2. Touches(page[p], new)
    BY <1>8 DEF Edits
  <2>3. CASE q = p
    <3>1. PICK s : s = inbox[p]
      OBVIOUS
    <3>2. Told(page[p], s)
      BY <1>3, <2>1, <2>2, <2>3, <3>1 DEF Touches
    <3>3. Told(new, s)'
      BY <2>1, <2>2, <3>2, EditTold, SameTold
    <3> QED
      BY <2>1, <2>3, <3>1, <3>3, ToldBecomes
  <2>4. CASE q # p
    BY <1>3, <2>1, <2>4, StillTold
  <2> QED
    BY <2>3, <2>4
<1>9. ASSUME NEW f, Reply(p, f), Tabled(Head(outbox[p]), f), TableKinds'
      PROVE  Told(page[q], inbox[q])'
  <2>1. /\ UNCHANGED page
        /\ missed' = missed \cup {c \in Conns : link[c] # "open"}
        /\ inbox'[q] = IF link[q] = "open" THEN Append(inbox[q], f) ELSE inbox[q]
        /\ MessageOK(Head(outbox[p]))
    BY <1>9, ReplyTInv
  <2>2. q \notin missed /\ page[q].up /\ inbox'[q] = Append(inbox[q], f)
    BY <2>1
  <2>3. PICK m, pg, s, r : m = Head(outbox[p]) /\ pg = page[q] /\ s = inbox[q] /\ r = Append(s, f)
    OBVIOUS
  <2>4. Told(pg, s)
    BY <1>3, <2>2, <2>3
  <2>5. /\ PageIds(pg) /\ IsSeq(s) /\ \A n \in 1..Len(s) : FrameOK(s[n])
        /\ MessageOK(m) /\ Tabled(m, f)
    BY <1>2, <1>9, <2>1, <2>3
  <2>6. Told(pg, r)'
    BY <1>2, <2>3, <2>4, <2>5, RepliedTold
  <2> QED
    BY <2>1, <2>2, <2>3, <2>6, ToldBecomes
<1> QED
  BY <1>1, <1>4, <1>5, <1>6, <1>7, <1>8, <1>9


LEMMA InitAllTold == Init => AllTold
BY DEF Init, AllTold, Fresh

LEMMA SameAllTold == AllTold /\ UNCHANGED vars => AllTold'
<1> SUFFICES ASSUME AllTold, UNCHANGED vars,
                    NEW q \in Conns, q \notin missed', page'[q].up
             PROVE  Told(page[q], inbox[q])'
  BY DEF AllTold, Fresh
<1>1. UNCHANGED tables /\ UNCHANGED page /\ UNCHANGED missed /\ UNCHANGED inbox
  BY DEF vars, tables, hubVars
<1>2. Told(page[q], inbox[q])
  BY <1>1 DEF AllTold, Fresh
<1> QED
  BY <1>1, <1>2, StillTold

LEMMA AllToldInductive == Spec => []AllTold
<1>1. TInv /\ AllTold /\ [Next]_vars => AllTold'
  BY AllToldStep, SameAllTold
<1> QED
  BY <1>1, InitAllTold, TInvInductive, PTL DEF Spec

\* Nothing remains to be told to a page in sync.
LEMMA NothingToTell ==
    ASSUME TInv, AllTold, NEW p \in Conns, InSync(p)
    PROVE  Told(page[p], <<>>)
<1>1. link[p] = "open" /\ p \notin missed /\ inbox[p] = <<>>
  BY DEF InSync, Current
<1>2. page[p].up
  BY <1>1 DEF TInv, PagesOK
<1> QED
  BY <1>1, <1>2 DEF AllTold, Fresh

\* A page in sync has an element for every row that it was not told is gone, and
\* for no other: for every number of pages, maps and edits, and in whichever order
\* the pages' temporary names are resolved.
THEOREM PagesHaveTheMaps == Spec => []MapsAgree
<1>1. TInv /\ AllTold => MapsAgree
  <2> SUFFICES ASSUME TInv, AllTold, NEW p \in Conns, InSync(p)
               PROVE  {i \in 1..button_binds.seq :
                          Row(i) \in DOMAIN page[p].maps /\ Row(i) \notin page[p].deleted}
                         = Rows(button_binds)
    BY DEF MapsAgree, Rows
  <2>1. MapsTold(page[p], <<>>)
    BY NothingToTell DEF Told
  <2>2. Rows(button_binds) \subseteq 1..button_binds.seq
    BY DEF TInv, TablesOK
  <2> QED
    BY <2>1, <2>2, NothingOnWay DEF MapsTold
<1> QED
  BY <1>1, AllToldInductive, TInvInductive, PTL

\* A page in sync knows the remotes of the table, and offers the buttons of those,
\* although a remote takes its buttons along on the server only, and buttons are
\* learnt for remotes that are gone.
THEOREM PagesOfferTheButtons == Spec => []RemotesAgree
<1>1. TInv /\ AllTold => RemotesAgree
  <2> SUFFICES ASSUME TInv, AllTold, NEW p \in Conns, InSync(p)
               PROVE  /\ page[p].remotes = Rows(remotes)
                      /\ Offered(page[p]) = {b \in Rows(remote_buttons) :
                            remote_buttons.rows[b].remote_id \in Rows(remotes)}
    BY DEF RemotesAgree, Rows
  <2>1. RemotesTold(page[p], <<>>) /\ ButtonsTold(page[p], <<>>)
    BY NothingToTell DEF Told
  <2>2. \A b \in DOMAIN page[p].buttons : b \in Rows(remote_buttons) =>
           page[p].buttons[b] = remote_buttons.rows[b].remote_id
    BY DEF TInv, PagesOK, PageIds, RightRemote
  <2>3. page[p].remotes = Rows(remotes)
    BY <2>1, NothingOnWay DEF RemotesTold
  <2>4. Rows(remote_buttons) \subseteq DOMAIN page[p].buttons
    BY <2>1, NothingOnWay DEF ButtonsTold
  <2>5. \A b \in DOMAIN page[p].buttons \ Rows(remote_buttons) :
           page[p].buttons[b] \notin Rows(remotes)
    BY <2>1, NothingOnWay DEF ButtonsTold
  <2> QED
    BY <2>2, <2>3, <2>4, <2>5 DEF Offered
<1> QED
  BY <1>1, AllToldInductive, TInvInductive, PTL


-----------------------------------------------------------------------------
(***************************************************************************)
(* Nothing binds a map to a button that is there, of a remote that is not, *)
(* as long as only pages that missed nothing are used for edits.           *)
(***************************************************************************)
SoundBind(x) == x.button_id \in Rows(remote_buttons) => x.remote_id \in Rows(remotes)

SoundPage(pg) == \A n \in DOMAIN pg.maps : SoundBind(pg.maps[n].bind)

SoundFrame(f) ==
    /\ f.type = "inserted" => SoundBind(f.bind)
    /\ f.type = "updated" => \A i \in DOMAIN f.found : SoundBind(f.found[i])

SoundMessage(m) == m.type = "save_button_map" => SoundBind(m.bind)

Sound ==
    /\ \A i \in Rows(button_binds) : SoundBind(button_binds.rows[i])
    /\ \A p \in Conns : SoundPage(page[p])
    /\ \A p \in Conns : \A n \in 1..Len(inbox[p]) : SoundFrame(inbox[p][n])
    /\ \A p \in Conns : \A n \in 1..Len(outbox[p]) : SoundMessage(outbox[p][n])

\* A step leaves sound what was sound.
KeepsSound == \A x : BindOK(x) /\ SoundBind(x) => SoundBind(x)'

LEMMA UnboundSound == TablesOK => SoundBind(Unbound)
<1> SUFFICES ASSUME TablesOK PROVE 0 \notin Rows(remote_buttons)
  BY Binds DEF SoundBind
<1> QED
  BY Seqs DEF TablesOK

LEMMA RepliesKeepSound ==
    ASSUME TablesOK, NEW f, RemotesSaid(f), ButtonsSaid(f)
    PROVE  KeepsSound
<1> SUFFICES ASSUME NEW x, BindOK(x), SoundBind(x), x.button_id \in Rows(remote_buttons')
             PROVE  x.remote_id \in Rows(remotes')
  BY DEF KeepsSound, SoundBind, Rows
<1> DEFINE b == x.button_id
           r == x.remote_id
<1>1. remote_buttons.seq \in Nat /\ 0 \notin Rows(remote_buttons)
  BY Seqs DEF TablesOK
<1>2. b # 0 /\ b # remote_buttons.seq + 1 /\ (b \in Rows(remote_buttons) => r = remote_buttons.rows[b].remote_id)
  <2>1. CASE x = Unbound
    <3>1. b = 0
      BY <2>1, Binds
    <3>2. 0 \notin Rows(remote_buttons')
      BY <1>1 DEF ButtonsSaid
    <3> QED
      BY <3>1, <3>2
  <2>2. CASE RightRemote(b, r)
    BY <1>1, <2>2 DEF RightRemote
  <2> QED
    BY <2>1, <2>2 DEF BindOK
<1>3. b \in Rows(remote_buttons) /\ (f.type = "remote_gone" => b \notin ButtonsOf(f.id))
  BY <1>2 DEF ButtonsSaid
<1>4. r \in Rows(remotes)
  BY <1>3 DEF SoundBind
<1>5. f.type = "remote_gone" => r # f.id
  BY <1>2, <1>3 DEF ButtonsOf
<1> QED
  BY <1>4, <1>5 DEF RemotesSaid

LEMMA SameKeepsSound == UNCHANGED tables => KeepsSound
BY DEF KeepsSound, SoundBind, Rows, tables

\* What a frame makes of a page's elements.
LEMMA ReceivedSound ==
    ASSUME TablesOK, NEW pg, SoundPage(pg), NEW f, FrameOK(f), SoundFrame(f), NEW new,
           Receives(pg, f, new)
    PROVE  SoundPage(new)
<1>1. SoundBind(Unbound)
  BY UnboundSound
<1>2. \A name : SoundBind(Shown(pg, name))
  BY <1>1 DEF Shown, SoundPage
<1>3. CASE f.type = "inserted"
  <2>1. NamesRow(pg, f.temp_id, f.id, f.bind, new) /\ SoundBind(f.bind)
    BY <1>3 DEF Receives, SoundFrame
  <2>2. SoundBind(new.maps[Row(f.id)].bind)
    BY <1>2, <2>1 DEF NamesRow, SoundPage
  <2> QED
    BY <2>1, <2>2 DEF NamesRow, SoundPage
<1>4. CASE f.type = "updated"
  <2>1. Refreshes(pg, f.found, new) /\ \A i \in DOMAIN f.found : SoundBind(f.found[i])
    BY <1>4 DEF Receives, SoundFrame
  <2>2. CASE new = pg
    BY <2>2
  <2>3. CASE new # pg
    <3>1. PICK i \in DOMAIN f.found : Displays(pg, Row(i), f.found[i], new)
      BY <2>1, <2>3 DEF Refreshes
    <3>2. SoundBind(new.maps[Row(i)].bind)
      BY <1>2, <2>1, <3>1 DEF Displays
    <3> QED
      BY <3>1, <3>2 DEF Displays, SoundPage
  <2> QED
    BY <2>2, <2>3
<1>5. CASE f.type = "map_gone"
  BY <1>5 DEF Receives, Hides, SoundPage
<1>6. CASE f.type = "button_gone"
  BY <1>1, <1>6 DEF Receives, DropsButton, Unbinds, SoundPage
<1>7. CASE f.type = "button_learnt"
  BY <1>7 DEF Receives, Learns, SoundPage
<1>8. CASE f.type = "remote_gone"
  BY <1>1, <1>8 DEF Receives, DropsRemote, Unbinds, SoundPage
<1>9. CASE f.type = "remote_added"
  BY <1>9 DEF Receives, AddsRemote, SoundPage
<1> QED
  BY <1>3, <1>4, <1>5, <1>6, <1>7, <1>8, <1>9 DEF FrameOK

\* A page that missed nothing offers no button whose remote alone is gone.
LEMMA OffersSound ==
    ASSUME NEW pg, PageIds(pg), NEW s, RemotesTold(pg, s), LearntLate(pg, s),
           NEW x, Offers(pg, x)
    PROVE  SoundBind(x)
<1> SUFFICES ASSUME x.button_id \in Rows(remote_buttons), x.remote_id \notin Rows(remotes)
             PROVE  FALSE
  BY DEF SoundBind
<1> DEFINE b == x.button_id
           r == x.remote_id
<1>1. b \in DOMAIN pg.buttons /\ r = pg.buttons[b] /\ r \in pg.remotes
  BY DEF Offers
<1>2. r = remote_buttons.rows[b].remote_id
  BY <1>1 DEF PageIds, RightRemote
<1>3. OnWay("remote_gone", r, s)
  BY <1>1 DEF RemotesTold
<1> QED
  BY <1>1, <1>2, <1>3 DEF LearntLate


LEMMA SoundPageStays ==
    ASSUME KeepsSound, NEW q, PageIds(page[q]), SoundPage(page[q]), page'[q] = page[q]
    PROVE  SoundPage(page[q])'
<1>1. \A n \in DOMAIN page[q].maps : SoundBind(page[q].maps[n].bind)'
  <2>1. ASSUME NEW n \in DOMAIN page[q].maps, NEW x, x = page[q].maps[n].bind
        PROVE  SoundBind(x)'
    BY <2>1 DEF KeepsSound, SoundPage, PageIds
  <2>2. \A n \in DOMAIN page[q].maps : \A x : x = page[q].maps[n].bind => SoundBind(x)'
    BY <2>1
  <2> QED
    BY <2>2 DEF SoundBind
<1> QED
  BY <1>1 DEF SoundPage, SoundBind

LEMMA SoundFrameStays ==
    ASSUME KeepsSound, NEW f, FrameOK(f), SoundFrame(f)
    PROVE  SoundFrame(f)'
<1>1. f.type = "inserted" => SoundBind(f.bind)'
  BY DEF KeepsSound, SoundFrame, FrameOK
<1>2. f.type = "updated" => \A i \in DOMAIN f.found : SoundBind(f.found[i])'
  BY DEF KeepsSound, SoundFrame, FrameOK
<1> QED
  BY <1>1, <1>2 DEF SoundFrame

LEMMA SoundMessageStays ==
    ASSUME KeepsSound, NEW m, MessageOK(m), SoundMessage(m)
    PROVE  SoundMessage(m)'
BY DEF KeepsSound, SoundMessage, MessageOK

LEMMA SoundStep ==
    ASSUME TInv, Sound, KeepsSound,
           \A i \in Rows(button_binds') : \A x : x = button_binds'.rows[i] => SoundBind(x)',
           \A q \in Conns : page'[q] = page[q] \/ \A pg : pg = page'[q] => SoundPage(pg)',
           \A q \in Conns : \A n \in 1..Len(inbox'[q]) :
              \/ \E m \in 1..Len(inbox[q]) : inbox'[q][n] = inbox[q][m]
              \/ \A f : f = inbox'[q][n] => SoundFrame(f)',
           \A q \in Conns : \A n \in 1..Len(outbox'[q]) :
              \/ \E m \in 1..Len(outbox[q]) : outbox'[q][n] = outbox[q][m]
              \/ \A m : m = outbox'[q][n] => SoundMessage(m)'
    PROVE  Sound'
<1>1. \A i \in Rows(button_binds') : SoundBind(button_binds.rows[i])'
  BY DEF SoundBind
<1>2. \A q \in Conns : SoundPage(page[q])'
  <2>1. ASSUME NEW q \in Conns PROVE SoundPage(page[q])'
    <3>1. CASE page'[q] = page[q]
      BY <3>1, SoundPageStays DEF Sound, TInv, PagesOK
    <3>2. CASE \A pg : pg = page'[q] => SoundPage(pg)'
      <4>1. PICK pg : pg = page'[q]
        OBVIOUS
      <4>2. SoundPage(pg)'
        BY <3>2, <4>1
      <4> QED
        BY <4>1, <4>2 DEF SoundPage, SoundBind
    <3> QED
      BY <3>1, <3>2
  <2> QED
    BY <2>1
<1>3. \A q \in Conns : \A n \in 1..Len(inbox'[q]) : SoundFrame(inbox[q][n])'
  <2>1. ASSUME NEW q \in Conns, NEW n \in 1..Len(inbox'[q]) PROVE SoundFrame(inbox[q][n])'
    <3>1. PICK f : f = inbox'[q][n]
      OBVIOUS
    <3>2. SoundFrame(f)'
      <4>1. CASE \E m \in 1..Len(inbox[q]) : inbox'[q][n] = inbox[q][m]
        <5>1. FrameOK(f) /\ SoundFrame(f)
          BY <3>1, <4>1 DEF TInv, StreamsOK, Sound
        <5> QED
          BY <5>1, SoundFrameStays
      <4> QED
        BY <3>1, <4>1
    <3> QED
      BY <3>1, <3>2 DEF SoundFrame, SoundBind
  <2> QED
    BY <2>1
<1>4. \A q \in Conns : \A n \in 1..Len(outbox'[q]) : SoundMessage(outbox[q][n])'
  <2>1. ASSUME NEW q \in Conns, NEW n \in 1..Len(outbox'[q]) PROVE SoundMessage(outbox[q][n])'
    <3>1. PICK m : m = outbox'[q][n]
      OBVIOUS
    <3>2. SoundMessage(m)'
      <4>1. CASE \E k \in 1..Len(outbox[q]) : outbox'[q][n] = outbox[q][k]
        <5>1. MessageOK(m) /\ SoundMessage(m)
          BY <3>1, <4>1 DEF TInv, StreamsOK, Sound
        <5> QED
          BY <5>1, SoundMessageStays
      <4> QED
        BY <3>1, <4>1
    <3> QED
      BY <3>1, <3>2 DEF SoundMessage, SoundBind
  <2> QED
    BY <2>1
<1>5. Rows(button_binds)' = Rows(button_binds')
  BY DEF Rows
<1> QED
  BY <1>1, <1>2, <1>3, <1>4, <1>5 DEF Sound

\* In particular, with the tables as they were, and sound new things.
LEMMA SoundSameTables ==
    ASSUME TInv, Sound, UNCHANGED tables,
           \A q \in Conns : page'[q] = page[q] \/ SoundPage(page'[q]),
           \A q \in Conns : \A n \in 1..Len(inbox'[q]) :
              \E m \in 1..Len(inbox[q]) : inbox'[q][n] = inbox[q][m],
           \A q \in Conns : \A n \in 1..Len(outbox'[q]) :
              \/ \E m \in 1..Len(outbox[q]) : outbox'[q][n] = outbox[q][m]
              \/ SoundMessage(outbox'[q][n])
    PROVE  Sound'
<1>1. UNCHANGED remotes /\ UNCHANGED remote_buttons /\ UNCHANGED button_binds
  BY DEF tables
<1>2. KeepsSound
  BY SameKeepsSound
<1>3. \A x : SoundBind(x) => SoundBind(x)'
  BY <1>1 DEF SoundBind, Rows
<1>4. \A i \in Rows(button_binds') : \A x : x = button_binds'.rows[i] => SoundBind(x)'
  BY <1>1, <1>3 DEF Sound, Rows
<1>5. \A q \in Conns : page'[q] = page[q] \/ \A pg : pg = page'[q] => SoundPage(pg)'
  BY <1>3 DEF SoundPage
<1>6. \A q \in Conns : \A n \in 1..Len(outbox'[q]) :
         \/ \E m \in 1..Len(outbox[q]) : outbox'[q][n] = outbox[q][m]
         \/ \A m : m = outbox'[q][n] => SoundMessage(m)'
  BY <1>3 DEF SoundMessage
<1> QED
  BY <1>2, <1>4, <1>5, <1>6, SoundStep


\* What is in a stream was there, or has been added.
Among(x, s) == \E m \in 1..Len(s) : x = s[m]

LEMMA TailAmong ==
    ASSUME NEW s, IsSeq(s), s # <<>>, NEW n \in 1..Len(Tail(s))
    PROVE  Among(Tail(s)[n], s)
BY LaterTail DEF Among

LEMMA AppendAmong ==
    ASSUME NEW s, IsSeq(s), NEW f, NEW n \in 1..Len(Append(s, f))
    PROVE  Among(Append(s, f)[n], s) \/ Append(s, f)[n] = f
<1>1. PICK r : r = Append(s, f)
  OBVIOUS
<1>2. OneMore(s, f, r)
  BY <1>1, LaterAppend
<1> QED
  BY <1>1, <1>2 DEF OneMore, Among

LEMMA ConcatAmong ==
    ASSUME NEW s, IsSeq(s), NEW t, IsSeq(t), NEW n \in 1..Len(s \o t)
    PROVE  Among((s \o t)[n], s) \/ Among((s \o t)[n], t)
<1> DEFINE r == s \o t
<1>1. /\ Len(s) \in Nat /\ Len(t) \in Nat /\ Len(r) = Len(s) + Len(t)
      /\ \A k \in 1..Len(s) : r[k] = s[k]
      /\ \A k \in 1..Len(t) : r[Len(s) + k] = t[k]
  BY ConcatStream, SeqFacts
<1>2. n \in 1..Len(r)
  OBVIOUS
<1> HIDE DEF r
<1>3. CASE n \in 1..Len(s)
  BY <1>1, <1>3 DEF Among, r
<1>4. CASE n \notin 1..Len(s)
  <2>1. n - Len(s) \in 1..Len(t) /\ Len(s) + (n - Len(s)) = n
    BY <1>1, <1>2, <1>4
  <2>2. r[n] = t[n - Len(s)]
    BY <1>1, <2>1
  <2> QED
    BY <2>1, <2>2 DEF Among, r
<1> QED
  BY <1>3, <1>4

LEMMA PrefixAmong ==
    ASSUME NEW s, IsSeq(s), NEW k \in 0..Len(s), NEW n \in 1..Len(SubSeq(s, 1, k))
    PROVE  Among(SubSeq(s, 1, k)[n], s)
<1>1. /\ Len(s) \in Nat /\ Len(SubSeq(s, 1, k)) = k
      /\ \A j \in 1..k : SubSeq(s, 1, k)[j] = s[j]
  BY PrefixStream, SeqFacts
<1>2. n \in 1..Len(s)
  BY <1>1
<1> QED
  BY <1>1, <1>2 DEF Among

LEMMA ReplySound ==
    ASSUME TInv, Sound, NEW p \in Conns, NEW f, Reply(p, f), Tabled(Head(outbox[p]), f),
           TableKinds'
    PROVE  Sound'
<1>1. /\ TInv' /\ Grow /\ UNCHANGED page
      /\ \A q \in Conns : inbox'[q] = IF link[q] = "open" THEN Append(inbox[q], f) ELSE inbox[q]
      /\ \A q \in Conns \ {p} : outbox'[q] = outbox[q]
      /\ outbox[p] # <<>> /\ outbox'[p] = Tail(outbox[p])
      /\ MessageOK(Head(outbox[p]))
  BY ReplyTInv
<1>2. PICK m : m = Head(outbox[p])
  OBVIOUS
<1>3. /\ TablesOK /\ \A q \in Conns : IsSeq(inbox[q]) /\ IsSeq(outbox[q])
      /\ \A i \in Rows(button_binds) : BindOK(button_binds.rows[i])
  BY DEF TInv, HubOK, StreamsIn, TablesOK
<1>4. MessageOK(m) /\ Tabled(m, f) /\ SoundMessage(m)
  <2>1. m = outbox[p][1] /\ 1 \in 1..Len(outbox[p])
    BY <1>1, <1>2, <1>3, LaterTail
  <2> QED
    BY <1>1, <1>2, <2>1 DEF Sound
<1>5. KeepsSound
  BY <1>3, <1>4, SaidWhatWasDone, RepliesKeepSound
<1>6. m.type = "save_button_map" => SoundBind(m.bind)'
  BY <1>4, <1>5 DEF KeepsSound, SoundMessage, MessageOK
<1>7. SoundBind(Unbound)'
  <2>1. BindOK(Unbound) /\ SoundBind(Unbound)
    BY <1>3, UnboundSound DEF BindOK, Bind, Unbound, Button, Null
  <2> QED
    BY <1>5, <2>1 DEF KeepsSound
<1>8. \A i \in Rows(button_binds) : \A x : x = button_binds.rows[i] => SoundBind(x)'
  BY <1>3, <1>5 DEF KeepsSound, Sound
<1>9. \A i \in Rows(button_binds') : \A x : x = button_binds'.rows[i] => SoundBind(x)'
  <2>1. \A i \in Rows(button_binds') :
           \/ i \in Rows(button_binds) /\ button_binds'.rows[i] = button_binds.rows[i]
           \/ button_binds'.rows[i] = Unbound
           \/ m.type = "save_button_map" /\ button_binds'.rows[i] = m.bind
    BY <1>4 DEF Tabled, Inserting, Updating, DeletingMap, DeletingButton, Learning, AddingRemote,
                DeletingRemote, Inserts, Assigns, Deletes
  <2> QED
    BY <1>6, <1>7, <1>8, <2>1
<1>10. SoundFrame(f)'
  <2>1. f.type = "inserted" => m.type = "save_button_map" /\ f.bind = m.bind
    BY <1>4 DEF Tabled, Inserting, Updating, DeletingMap, DeletingButton, Learning, AddingRemote,
                DeletingRemote, Inserted, MapGone, ButtonGone, ButtonLearnt, RemoteAdded,
                RemoteGone
  <2>2. f.type = "updated" => \A i \in DOMAIN f.found :
                                 i \in Rows(button_binds') /\ f.found[i] = button_binds'.rows[i]
    BY <1>4 DEF Tabled, Inserting, Updating, DeletingMap, DeletingButton, Learning, AddingRemote,
                DeletingRemote, Inserted, MapGone, ButtonGone, ButtonLearnt, RemoteAdded,
                RemoteGone, Assigns
  <2>3. f.type = "inserted" => SoundBind(f.bind)'
    BY <1>6, <2>1 DEF SoundBind
  <2>4. f.type = "updated" => \A i \in DOMAIN f.found : SoundBind(f.found[i])'
    BY <1>9, <2>2
  <2> QED
    BY <2>3, <2>4 DEF SoundFrame
<1>11. \A q \in Conns : \A n \in 1..Len(inbox'[q]) :
              \/ \E k \in 1..Len(inbox[q]) : inbox'[q][n] = inbox[q][k]
              \/ \A g : g = inbox'[q][n] => SoundFrame(g)'
  <2>1. \A q \in Conns : \A n \in 1..Len(inbox'[q]) : Among(inbox'[q][n], inbox[q]) \/ inbox'[q][n] = f
    <3>1. ASSUME NEW q \in Conns, NEW n \in 1..Len(inbox'[q])
          PROVE  Among(inbox'[q][n], inbox[q]) \/ inbox'[q][n] = f
      <4>1. CASE link[q] = "open"
        <5>1. IsSeq(inbox[q]) /\ inbox'[q] = Append(inbox[q], f)
          BY <1>1, <1>3, <4>1
        <5>2. n \in 1..Len(Append(inbox[q], f))
          BY <5>1
        <5>3. Among(Append(inbox[q], f)[n], inbox[q]) \/ Append(inbox[q], f)[n] = f
          BY <5>1, <5>2, AppendAmong
        <5> QED
          BY <5>1, <5>3
      <4>2. CASE link[q] # "open"
        BY <1>1, <4>2 DEF Among
      <4> QED
        BY <4>1, <4>2
    <3> QED
      BY <3>1
  <2> QED
    BY <1>10, <2>1 DEF Among
<1>12. \A q \in Conns : \A n \in 1..Len(outbox'[q]) :
              \E k \in 1..Len(outbox[q]) : outbox'[q][n] = outbox[q][k]
  <2>1. \A q \in Conns : \A n \in 1..Len(outbox'[q]) : Among(outbox'[q][n], outbox[q])
    <3>1. ASSUME NEW q \in Conns, NEW n \in 1..Len(outbox'[q])
          PROVE  Among(outbox'[q][n], outbox[q])
      <4>1. CASE q = p
        BY <1>1, <1>3, <4>1, TailAmong
      <4>2. CASE q # p
        BY <1>1, <4>2 DEF Among
      <4> QED
        BY <4>1, <4>2
    <3> QED
      BY <3>1
  <2> QED
    BY <2>1 DEF Among
<1> QED
  BY <1>1, <1>5, <1>9, <1>11, <1>12, SoundStep


LEMMA SoundNextStep ==
    ASSUME TInv, AllTold, ~ blind => Sound, Next, ~ blind'
    PROVE  Sound'
<1>1. PICK p \in Conns :
              \/ LoadPage(p)
              \/ Quiet(p)
              \/ Disconnect(p)
              \/ Receive(p)
              \/ \E messages, new : Edits(page[p], messages, new) /\ Edit(p, messages, new)
              \/ \E f : Reply(p, f) /\ Tabled(Head(outbox[p]), f) /\ TableKinds'
  BY Steps
<1>2. /\ TablesOK /\ PageIds(page[p])
      /\ \A q \in Conns : IsSeq(inbox[q]) /\ IsSeq(outbox[q])
      /\ \A n \in 1..Len(inbox[p]) : FrameOK(inbox[p][n])
      /\ SoundBind(Unbound)
  BY UnboundSound DEF TInv, PagesOK, HubOK, StreamsIn, StreamsOK
<1>3. CASE LoadPage(p)
  <2>1. /\ UNCHANGED tables /\ page'[p] = Loaded /\ UNCHANGED hubVars /\ UNCHANGED blind
        /\ \A c \in Conns \ {p} : page'[c] = page[c]
    BY <1>3, LoadTInv
  <2>2. UNCHANGED inbox /\ UNCHANGED outbox /\ Sound
    BY <2>1 DEF hubVars
  <2>3. SoundPage(Loaded)
    <3>1. CASE Loaded.up
      <4>1. PICK pg : pg = Loaded
        OBVIOUS
      <4>2. IsLoaded(pg)
        BY <1>2, <3>1, <4>1, LoadedItems
      <4>3. SoundPage(pg)
        BY <1>2, <2>2, <4>2 DEF IsLoaded, SoundPage, Sound
      <4> QED
        BY <4>1, <4>3
    <3>2. CASE ~ Loaded.up
      <4>1. Loaded = NoPage
        BY <3>2 DEF Loaded
      <4>2. DOMAIN NoPage.maps = {}
        BY EmptyPartial DEF NoPage
      <4> QED
        BY <4>1, <4>2 DEF SoundPage
    <3> QED
      BY <3>1, <3>2
  <2>4. \A q \in Conns : page'[q] = page[q] \/ SoundPage(page'[q])
    BY <2>1, <2>3
  <2> QED
    BY <2>1, <2>2, <2>4, SoundSameTables
<1>4. CASE Quiet(p)
  <2>1. /\ UNCHANGED inbox /\ UNCHANGED tables /\ UNCHANGED page /\ UNCHANGED blind
        /\ \A q \in Conns \ {p} : outbox'[q] = outbox[q]
        /\ \/ outbox'[p] = outbox[p]
           \/ outbox[p] # <<>> /\ outbox'[p] = Tail(outbox[p])
    BY <1>4, QuietTInv DEF histories
  <2>2. \A q \in Conns : \A n \in 1..Len(outbox'[q]) : Among(outbox'[q][n], outbox[q])
    <3>1. ASSUME NEW q \in Conns, NEW n \in 1..Len(outbox'[q])
          PROVE  Among(outbox'[q][n], outbox[q])
      <4>1. CASE outbox'[q] = outbox[q]
        BY <4>1 DEF Among
      <4>2. CASE outbox'[q] # outbox[q]
        BY <1>2, <2>1, <4>2, TailAmong
      <4> QED
        BY <4>1, <4>2
    <3> QED
      BY <3>1
  <2> QED
    BY <2>1, <2>2, SoundSameTables DEF Among
<1>5. CASE Disconnect(p)
  <2>1. /\ UNCHANGED tables /\ UNCHANGED page /\ UNCHANGED blind
        /\ inbox'[p] = <<>> /\ \A c \in Conns \ {p} : inbox'[c] = inbox[c]
        /\ \E k \in 0..Len(outbox[p]) : outbox'[p] = SubSeq(outbox[p], 1, k)
        /\ \A q \in Conns \ {p} : outbox'[q] = outbox[q]
    BY <1>5, DisconnectTInv
  <2>2. \A q \in Conns : \A n \in 1..Len(outbox'[q]) : Among(outbox'[q][n], outbox[q])
    <3>1. ASSUME NEW q \in Conns, NEW n \in 1..Len(outbox'[q])
          PROVE  Among(outbox'[q][n], outbox[q])
      <4>1. CASE q = p
        <5>1. PICK k \in 0..Len(outbox[p]) : outbox'[p] = SubSeq(outbox[p], 1, k)
          BY <2>1
        <5>2. n \in 1..Len(SubSeq(outbox[p], 1, k)) /\ IsSeq(outbox[p])
          BY <1>2, <4>1, <5>1
        <5>3. Among(SubSeq(outbox[p], 1, k)[n], outbox[p])
          BY <5>2, PrefixAmong
        <5> QED
          BY <4>1, <5>1, <5>3
      <4>2. CASE q # p
        BY <2>1, <4>2 DEF Among
      <4> QED
        BY <4>1, <4>2
    <3> QED
      BY <3>1
  <2>3. \A n : n \notin 1..Len(inbox'[p])
    BY <2>1, EmptyStream
  <2>4. \A q \in Conns : \A n \in 1..Len(inbox'[q]) : Among(inbox'[q][n], inbox[q])
    BY <2>1, <2>3 DEF Among
  <2> QED
    BY <2>1, <2>2, <2>4, SoundSameTables DEF Among
<1>6. CASE Receive(p)
  <2>1. /\ UNCHANGED tables /\ UNCHANGED blind /\ UNCHANGED outbox
        /\ inbox[p] # <<>> /\ inbox'[p] = Tail(inbox[p])
        /\ FrameOK(Head(inbox[p]))
        /\ \A c \in Conns \ {p} : inbox'[c] = inbox[c] /\ page'[c] = page[c]
        /\ Receives(page[p], Head(inbox[p]), page'[p])
    BY <1>6, ReceiveTInv DEF histories
  <2>2. Sound
    BY <2>1
  <2>3. PICK pg, f, new : pg = page[p] /\ f = Head(inbox[p]) /\ new = page'[p]
    OBVIOUS
  <2>4. SoundPage(pg) /\ SoundFrame(f) /\ FrameOK(f) /\ Receives(pg, f, new)
    <3>1. f = inbox[p][1] /\ 1 \in 1..Len(inbox[p])
      BY <1>2, <2>1, <2>3, LaterTail
    <3> QED
      BY <2>1, <2>2, <2>3, <3>1 DEF Sound
  <2>5. SoundPage(new)
    BY <1>2, <2>4, ReceivedSound
  <2>6. \A q \in Conns : page'[q] = page[q] \/ SoundPage(page'[q])
    BY <2>1, <2>3, <2>5
  <2>7. \A q \in Conns : \A n \in 1..Len(inbox'[q]) : Among(inbox'[q][n], inbox[q])
    <3>1. ASSUME NEW q \in Conns, NEW n \in 1..Len(inbox'[q])
          PROVE  Among(inbox'[q][n], inbox[q])
      <4>1. CASE q = p
        BY <1>2, <2>1, <4>1, TailAmong
      <4>2. CASE q # p
        BY <2>1, <4>2 DEF Among
      <4> QED
        BY <4>1, <4>2
    <3> QED
      BY <3>1
  <2> QED
    BY <2>1, <2>2, <2>6, <2>7, SoundSameTables DEF Among
<1>7. ASSUME NEW messages, NEW new, Edits(page[p], messages, new), Edit(p, messages, new)
      PROVE  Sound'
  <2>1. /\ UNCHANGED tables /\ UNCHANGED inbox
        /\ blind' = (blind \/ p \in missed)
        /\ page'[p] = new
        /\ \A q \in Conns \ {p} : page'[q] = page[q] /\ outbox'[q] = outbox[q]
        /\ outbox'[p] = outbox[p] \o messages
    BY <1>7, EditTInv
  <2>2. Sound /\ p \notin missed
    BY <2>1
  <2>3. link[p] = "open"
    BY <1>7 DEF Edit, Send
  <2>4. page[p].up
    BY <2>3 DEF TInv, PagesOK
  <2>5. Told(page[p], inbox[p])
    BY <2>2, <2>4 DEF AllTold, Fresh
  <2>6. \A x : Offers(page[p], x) => SoundBind(x)
    BY <1>2, <2>5, OffersSound DEF Told
  <2>7. \A name : SoundBind(Shown(page[p], name))
    BY <1>2, <2>2 DEF Shown, Sound, SoundPage
  <2>8. SoundPage(new)
    BY <1>7, <2>6, <2>7 DEF Edits, SoundPage
  <2>9. IsSeq(messages) /\ \A n \in 1..Len(messages) : SoundMessage(messages[n])
    BY <1>2, <1>7, <2>2, <2>6 DEF Edits, SoundMessage, Sound, SoundPage
  <2>10. \A q \in Conns : page'[q] = page[q] \/ SoundPage(page'[q])
    BY <2>1, <2>8
  <2>11. \A q \in Conns : \A n \in 1..Len(outbox'[q]) :
            Among(outbox'[q][n], outbox[q]) \/ SoundMessage(outbox'[q][n])
    <3>1. ASSUME NEW q \in Conns, NEW n \in 1..Len(outbox'[q])
          PROVE  Among(outbox'[q][n], outbox[q]) \/ SoundMessage(outbox'[q][n])
      <4>1. CASE q = p
        <5>1. n \in 1..Len(outbox[p] \o messages) /\ IsSeq(outbox[p])
          BY <1>2, <2>1, <4>1
        <5>2. Among((outbox[p] \o messages)[n], outbox[p]) \/ Among((outbox[p] \o messages)[n], messages)
          BY <2>9, <5>1, ConcatAmong
        <5>3. Among(outbox'[q][n], outbox[q]) \/ Among(outbox'[q][n], messages)
          BY <2>1, <4>1, <5>2
        <5> QED
          BY <2>9, <5>3 DEF Among
      <4>2. CASE q # p
        BY <2>1, <4>2 DEF Among
      <4> QED
        BY <4>1, <4>2
    <3> QED
      BY <3>1
  <2> QED
    BY <2>1, <2>2, <2>10, <2>11, SoundSameTables DEF Among
<1>8. ASSUME NEW f, Reply(p, f), Tabled(Head(outbox[p]), f), TableKinds'
      PROVE  Sound'
  <2>1. Sound
    BY <1>8, ReplyTInv
  <2> QED
    BY <1>8, <2>1, ReplySound
<1> QED
  BY <1>1, <1>3, <1>4, <1>5, <1>6, <1>7, <1>8


LEMMA InitSound == Init => Sound
<1> SUFFICES ASSUME Init PROVE Sound
  OBVIOUS
<1>1. TInv
  BY InitTInv
<1>2. SoundBind(Unbound)
  BY <1>1, UnboundSound DEF TInv
<1>3. \A i \in Rows(button_binds) : SoundBind(button_binds.rows[i])
  BY <1>2 DEF Init, Rows
<1>4. \A p \in Conns : SoundPage(page[p])
  <2>1. \A p \in Conns : page[p] = NoPage
    BY DEF Init
  <2>2. DOMAIN NoPage.maps = {}
    BY EmptyPartial DEF NoPage
  <2> QED
    BY <2>1, <2>2 DEF SoundPage
<1>5. \A p \in Conns : inbox[p] = <<>> /\ outbox[p] = <<>>
  BY DEF Init, HubInit
<1> QED
  BY <1>3, <1>4, <1>5, EmptyStream DEF Sound

LEMMA SoundInductive == Spec => [](~ blind => Sound)
<1>1. TInv /\ AllTold /\ (~ blind => Sound) /\ [Next]_vars => (~ blind => Sound)'
  <2> SUFFICES ASSUME TInv, AllTold, ~ blind => Sound, [Next]_vars, ~ blind'
               PROVE  Sound'
    OBVIOUS
  <2>1. CASE Next
    BY <2>1, SoundNextStep
  <2>2. CASE UNCHANGED vars
    <3>1. /\ UNCHANGED tables /\ UNCHANGED page /\ UNCHANGED blind
          /\ UNCHANGED inbox /\ UNCHANGED outbox
      BY <2>2 DEF vars, tables, hubVars
    <3> QED
      BY <3>1, SoundSameTables
  <2> QED
    BY <2>1, <2>2
<1> QED
  BY <1>1, InitSound, AllToldInductive, TInvInductive, PTL DEF Spec

\* Whoever loads a page gets one that works, as long as no page was used for an edit
\* that had missed a change: display_button_map does not throw in the middle of the
\* ready handler for a map of a button whose remote is gone.  A page that missed
\* nothing cannot bind one, however late it hears that the remote is gone.
THEOREM PagesLoad == Spec => []PagesGetUp
<1>1. TInv /\ (~ blind => Sound) => PagesGetUp
  <2> SUFFICES ASSUME TInv, Sound PROVE Loaded.up
    BY DEF PagesGetUp, TInv, Counts
  <2>1. TablesOK
    BY DEF TInv
  <2>2. \A i \in Rows(button_binds) :
           ~ Throws(Rows(remote_buttons), Rows(remotes), button_binds.rows[i])
    BY DEF Throws, Sound, SoundBind
  <2> QED
    BY <2>1, <2>2, LoadedItems
<1> QED
  BY <1>1, SoundInductive, TInvInductive, PTL

-----------------------------------------------------------------------------
(***************************************************************************)
(* What a page will show of a row.  A frame gives the row's element a bind *)
(* if it inserts the row or has a bound row; the loss of its button or of  *)
(* its remote takes the bind away again.                                   *)
(***************************************************************************)
Gives(f, i) ==
    Says(f, "inserted", i) \/ (f.type = "updated" /\ i \in DOMAIN f.found /\ f.found[i] # Unbound)

Given(f, i) == IF f.type = "inserted" THEN f.bind ELSE f.found[i]

Kills(f, x) == Says(f, "button_gone", x.button_id) \/ Says(f, "remote_gone", x.remote_id)

GivenLater(i, n, s) == \E k \in 1..Len(s) : n < k /\ Gives(s[k], i)

KilledLater(x, n, s) == \E k \in 1..Len(s) : n < k /\ Kills(s[k], x)

\* If the page shows x once it has got the first n frames, it will show v in the end.
Settled(s, n, i, x, v) ==
    GivenLater(i, n, s) \/ x = v \/ (v = Unbound /\ KilledLater(x, n, s))

WillShow(pg, s, i, v) ==
    /\ Settled(s, 0, i, Shown(pg, Row(i)), v)
    /\ \A n \in 1..Len(s) : Gives(s[n], i) => Settled(s, n, i, Given(s[n], i), v)

\* The callbacks that take binds away find the element through the index.
IsIndexed(pg, i) == Row(i) \in DOMAIN pg.index /\ pg.index[Row(i)] = Row(i)

Indexed(pg, s, i) ==
    ~ GivenLater(i, 0, s) /\ Shown(pg, Row(i)) # Unbound => IsIndexed(pg, i)

\* The page knows the button when it gets frame n.
KnownAt(pg, s, n, b) ==
    /\ b \in DOMAIN pg.buttons \/ \E k \in 1..Len(s) : k < n /\ Says(s[k], "button_learnt", b)
    /\ \A k \in 1..Len(s) : k < n => ~ Says(s[k], "button_gone", b)

\* The page's user has bound the row's map, which the server has yet to hear.
Binding(m, i) == m.type = "save_button_map" /\ m.id = Row(i) /\ m.bind # Unbound

Pending(out, i) == \E n \in 1..Len(out) : Binding(out[n], i)

LEMMA NothingLater ==
    /\ \A i, n : ~ GivenLater(i, n, <<>>)
    /\ \A x, n : ~ KilledLater(x, n, <<>>)
    /\ \A i : ~ Pending(<<>>, i)
BY EmptyStream DEF GivenLater, KilledLater, Pending

\* The first frame of s has been received.
LEMMA TailGiven ==
    ASSUME NEW s, IsSeq(s), s # <<>>
    PROVE  /\ \A i : GivenLater(i, 0, s) <=> Gives(Head(s), i) \/ GivenLater(i, 0, Tail(s))
           /\ \A i : \A n \in Nat : GivenLater(i, n + 1, s) <=> GivenLater(i, n, Tail(s))
<1> DEFINE r == Tail(s)
<1>1. /\ Head(s) = s[1] /\ Len(s) \in Nat /\ Len(s) > 0 /\ Len(r) = Len(s) - 1
      /\ \A n \in 1..Len(r) : n + 1 \in 1..Len(s) /\ r[n] = s[n + 1]
      /\ \A n \in 1..Len(s) : n = 1 \/ (n - 1 \in 1..Len(r) /\ s[n] = r[n - 1])
  BY LaterTail
<1> HIDE DEF r
<1>2. ASSUME NEW i PROVE GivenLater(i, 0, s) <=> Gives(Head(s), i) \/ GivenLater(i, 0, r)
  <2>1. 1 \in 1..Len(s) /\ 0 < 1 /\ \A k \in 1..Len(s) : 0 < k
    BY <1>1
  <2>2. \A k \in 1..Len(r) : 0 < k
    OBVIOUS
  <2> QED
    BY <1>1, <2>1, <2>2 DEF GivenLater
<1>3. ASSUME NEW i, NEW n \in Nat PROVE GivenLater(i, n + 1, s) <=> GivenLater(i, n, r)
  <2>1. \A k \in 1..Len(r) : n < k => n + 1 < k + 1
    OBVIOUS
  <2>2. \A k \in 1..Len(s) : n + 1 < k => k # 1 /\ n < k - 1
    OBVIOUS
  <2> QED
    BY <1>1, <2>1, <2>2 DEF GivenLater
<1> QED
  BY <1>2, <1>3 DEF r

LEMMA TailKilled ==
    ASSUME NEW s, IsSeq(s), s # <<>>
    PROVE  /\ \A x : KilledLater(x, 0, s) <=> Kills(Head(s), x) \/ KilledLater(x, 0, Tail(s))
           /\ \A x : \A n \in Nat : KilledLater(x, n + 1, s) <=> KilledLater(x, n, Tail(s))
<1> DEFINE r == Tail(s)
<1>1. /\ Head(s) = s[1] /\ Len(s) \in Nat /\ Len(s) > 0 /\ Len(r) = Len(s) - 1
      /\ \A n \in 1..Len(r) : n + 1 \in 1..Len(s) /\ r[n] = s[n + 1]
      /\ \A n \in 1..Len(s) : n = 1 \/ (n - 1 \in 1..Len(r) /\ s[n] = r[n - 1])
  BY LaterTail
<1> HIDE DEF r
<1>2. ASSUME NEW x PROVE KilledLater(x, 0, s) <=> Kills(Head(s), x) \/ KilledLater(x, 0, r)
  <2>1. 1 \in 1..Len(s) /\ 0 < 1 /\ \A k \in 1..Len(s) : 0 < k
    BY <1>1
  <2>2. \A k \in 1..Len(r) : 0 < k
    OBVIOUS
  <2> QED
    BY <1>1, <2>1, <2>2 DEF KilledLater
<1>3. ASSUME NEW x, NEW n \in Nat PROVE KilledLater(x, n + 1, s) <=> KilledLater(x, n, r)
  <2>1. \A k \in 1..Len(r) : n < k => n + 1 < k + 1
    OBVIOUS
  <2>2. \A k \in 1..Len(s) : n + 1 < k => k # 1 /\ n < k - 1
    OBVIOUS
  <2> QED
    BY <1>1, <2>1, <2>2 DEF KilledLater
<1> QED
  BY <1>2, <1>3 DEF r

LEMMA TailSettled ==
    ASSUME NEW s, IsSeq(s), s # <<>>, NEW i, NEW x, NEW v, NEW n \in Nat
    PROVE  Settled(s, n + 1, i, x, v) <=> Settled(Tail(s), n, i, x, v)
BY TailGiven, TailKilled DEF Settled

\* One more frame f is on its way.
LEMMA MoreGiven ==
    ASSUME NEW s, NEW f, NEW r, OneMore(s, f, r), NEW i, NEW n \in 0..Len(s)
    PROVE  GivenLater(i, n, r) <=> GivenLater(i, n, s) \/ Gives(f, i)
<1>1. /\ Len(s) \in Nat /\ Len(r) = Len(s) + 1 /\ r[Len(s) + 1] = f
      /\ \A k \in 1..Len(s) : k \in 1..Len(r) /\ r[k] = s[k]
      /\ \A k \in 1..Len(r) : k \in 1..Len(s) \/ k = Len(s) + 1
  BY DEF OneMore
<1>2. n < Len(s) + 1 /\ Len(s) + 1 \in 1..Len(r)
  BY <1>1
<1> QED
  BY <1>1, <1>2 DEF GivenLater

LEMMA MoreKilled ==
    ASSUME NEW s, NEW f, NEW r, OneMore(s, f, r), NEW x, NEW n \in 0..Len(s)
    PROVE  KilledLater(x, n, r) <=> KilledLater(x, n, s) \/ Kills(f, x)
<1>1. /\ Len(s) \in Nat /\ Len(r) = Len(s) + 1 /\ r[Len(s) + 1] = f
      /\ \A k \in 1..Len(s) : k \in 1..Len(r) /\ r[k] = s[k]
      /\ \A k \in 1..Len(r) : k \in 1..Len(s) \/ k = Len(s) + 1
  BY DEF OneMore
<1>2. n < Len(s) + 1 /\ Len(s) + 1 \in 1..Len(r)
  BY <1>1
<1> QED
  BY <1>1, <1>2 DEF KilledLater

\* The element of a row that a frame gives a bind.
LEMMA GivenShown ==
    ASSUME NEW pg, NEW f, NEW new, Receives(pg, f, new), NEW i, Row(i) \notin pg.deleted,
           Gives(f, i)
    PROVE  /\ IsIndexed(new, i)
           /\ Given(f, i).button_id \in DOMAIN pg.buttons => Shown(new, Row(i)) = Given(f, i)
<1>1. CASE f.type = "inserted"
  <2>1. f.id = i /\ NamesRow(pg, f.temp_id, i, f.bind, new) /\ Given(f, i) = f.bind
    BY <1>1 DEF Gives, Says, Receives, Given
  <2>2. Row(i) \in DOMAIN new.maps /\ Row(i) \in DOMAIN new.index /\ new.index[Row(i)] = Row(i)
    BY <2>1 DEF NamesRow
  <2>3. f.bind.button_id \in DOMAIN pg.buttons => new.maps[Row(i)].bind = f.bind
    BY <2>1 DEF NamesRow
  <2> QED
    BY <2>1, <2>2, <2>3 DEF IsIndexed, Shown
<1>2. CASE f.type # "inserted"
  <2>1. /\ f.type = "updated" /\ i \in DOMAIN f.found /\ Given(f, i) = f.found[i]
        /\ Refreshes(pg, f.found, new)
    BY <1>2 DEF Gives, Says, Receives, Given
  <2>2. Displays(pg, Row(i), f.found[i], new)
    BY <2>1 DEF Refreshes
  <2>3. Row(i) \in DOMAIN new.maps /\ Row(i) \in DOMAIN new.index /\ new.index[Row(i)] = Row(i)
    BY <2>2 DEF Displays
  <2>4. f.found[i].button_id \in DOMAIN pg.buttons => new.maps[Row(i)].bind = f.found[i]
    BY <2>2 DEF Displays
  <2> QED
    BY <2>1, <2>3, <2>4 DEF IsIndexed, Shown
<1> QED
  BY <1>1, <1>2

\* The element of any other row: it keeps its bind, or loses it together with the
\* button or the remote, and must do so if the index leads to it.
Follows(pg, f, new, i) ==
    /\ \/ Shown(new, Row(i)) = Shown(pg, Row(i))
       \/ Shown(new, Row(i)) = Unbound /\ Kills(f, Shown(pg, Row(i)))
    /\ IsIndexed(pg, i) /\ Kills(f, Shown(pg, Row(i))) => Shown(new, Row(i)) = Unbound
    /\ IsIndexed(pg, i) /\ ~ Says(f, "map_gone", Row(i)) /\ ~ Kills(f, Shown(pg, Row(i)))
          => IsIndexed(new, i)

LEMMA NotGiven ==
    ASSUME NEW pg, PageIds(pg), NEW f, FrameOK(f), NEW new, Receives(pg, f, new), NEW i,
           ~ Gives(f, i)
    PROVE  Follows(pg, f, new, i)
<1> DEFINE name == Row(i)
           x    == Shown(pg, name)
<1>1. ~ IsTemp(name)
  BY Names
<1>2. IsIndexed(pg, i) => name \in Led(pg) /\ name \in DOMAIN pg.maps
  BY DEF Led, IsIndexed, PageIds, PageOK
<1>3. ASSUME f.type \notin {"button_gone", "remote_gone"},
             Shown(new, name) = x, IsIndexed(pg, i) /\ ~ Says(f, "map_gone", name) => IsIndexed(new, i)
      PROVE  Follows(pg, f, new, i)
  <2>1. ~ Kills(f, x)
    BY <1>3 DEF Kills, Says
  <2> QED
    BY <1>3, <2>1 DEF Follows
<1>4. CASE f.type = "inserted"
  <2>1. NamesRow(pg, f.temp_id, f.id, f.bind, new) /\ f.id # i /\ IsTemp(f.temp_id)
    BY <1>4 DEF Receives, Gives, Says, FrameOK
  <2>2. Row(f.id) # name /\ f.temp_id # name
    BY <1>1, <2>1, Names
  <2>3. Shown(new, name) = x
    BY <2>1, <2>2 DEF NamesRow, Shown
  <2>4. IsIndexed(pg, i) => IsIndexed(new, i)
    BY <2>1, <2>2 DEF NamesRow, IsIndexed
  <2> QED
    BY <1>3, <1>4, <2>3, <2>4
<1>5. CASE f.type = "updated"
  <2>1. Refreshes(pg, f.found, new)
    BY <1>5 DEF Receives
  <2>2. CASE new = pg
    BY <1>3, <1>5, <2>2
  <2>3. CASE new # pg
    <3>1. PICK j \in DOMAIN f.found : Displays(pg, Row(j), f.found[j], new)
      BY <2>1, <2>3 DEF Refreshes
    <3>2. CASE j = i
      <4>1. f.found[i] = Unbound
        BY <1>5, <3>1, <3>2 DEF Gives
      <4>2. 0 \notin DOMAIN pg.buttons
        BY DEF PageIds, PageOK
      <4>3. Displays(pg, name, Unbound, new) /\ Unbound.button_id \notin DOMAIN pg.buttons
        BY <3>1, <3>2, <4>1, <4>2, Binds
      <4>4. Shown(new, name) = x /\ IsIndexed(new, i)
        BY <4>3 DEF Displays, Shown, IsIndexed
      <4> QED
        BY <1>3, <1>5, <4>4
    <3>3. CASE j # i
      <4>1. Row(j) # name
        BY <3>3, Names
      <4>2. Shown(new, name) = x /\ (IsIndexed(pg, i) => IsIndexed(new, i))
        BY <3>1, <4>1 DEF Displays, Shown, IsIndexed
      <4> QED
        BY <1>3, <1>5, <4>2
    <3> QED
      BY <3>2, <3>3
  <2> QED
    BY <2>2, <2>3
<1>6. CASE f.type = "map_gone"
  <2>1. Hides(pg, f.id, new)
    BY <1>6 DEF Receives
  <2>2. Shown(new, name) = x
    BY <2>1 DEF Hides, Shown
  <2>3. IsIndexed(pg, i) /\ ~ Says(f, "map_gone", name) => IsIndexed(new, i)
    BY <1>6, <2>1 DEF Hides, IsIndexed, Says
  <2> QED
    BY <1>3, <1>6, <2>2, <2>3
<1>7. CASE f.type = "button_gone"
  <2>1. DropsButton(pg, f.id, new)
    BY <1>7 DEF Receives
  <2>2. Kills(f, x) <=> x.button_id = f.id
    BY <1>7 DEF Kills, Says
  <2>3. name \notin DOMAIN pg.maps => x = Unbound /\ Shown(new, name) = Unbound
    BY <2>1 DEF Shown, DropsButton, Unbinds
  <2>4. name \in DOMAIN pg.maps =>
           /\ x = pg.maps[name].bind
           /\ Shown(new, name) = IF name \in Led(pg) /\ x.button_id = f.id THEN Unbound ELSE x
    BY <2>1 DEF Shown, DropsButton, Unbinds
  <2>5. IsIndexed(pg, i) /\ ~ Kills(f, x) => IsIndexed(new, i)
    BY <1>2, <2>1, <2>2, <2>4 DEF DropsButton, IsIndexed
  <2> QED
    BY <1>2, <2>2, <2>3, <2>4, <2>5 DEF Follows
<1>8. CASE f.type = "remote_gone"
  <2>1. DropsRemote(pg, f.id, new)
    BY <1>8 DEF Receives
  <2>2. Kills(f, x) <=> x.remote_id = f.id
    BY <1>8 DEF Kills, Says
  <2>3. name \notin DOMAIN pg.maps => x = Unbound /\ Shown(new, name) = Unbound
    BY <2>1 DEF Shown, DropsRemote, Unbinds
  <2>4. name \in DOMAIN pg.maps =>
           /\ x = pg.maps[name].bind
           /\ Shown(new, name) = IF name \in Led(pg) /\ x.remote_id = f.id THEN Unbound ELSE x
    BY <2>1 DEF Shown, DropsRemote, Unbinds
  <2>5. IsIndexed(pg, i) => IsIndexed(new, i)
    BY <2>1 DEF DropsRemote, IsIndexed
  <2> QED
    BY <1>2, <2>2, <2>3, <2>4, <2>5 DEF Follows
<1>9. CASE f.type = "button_learnt"
  <2>1. Learns(pg, f.id, f.remote_id, new)
    BY <1>9 DEF Receives
  <2>2. new.maps = pg.maps /\ new.index = pg.index
    BY <2>1 DEF Learns
  <2>3. Shown(new, name) = x /\ (IsIndexed(pg, i) => IsIndexed(new, i))
    BY <2>2 DEF Shown, IsIndexed
  <2> QED
    BY <1>3, <1>9, <2>3
<1>10. CASE f.type = "remote_added"
  <2>1. AddsRemote(pg, f.id, new)
    BY <1>10 DEF Receives
  <2>2. new.maps = pg.maps /\ new.index = pg.index
    BY <2>1 DEF AddsRemote
  <2>3. Shown(new, name) = x /\ (IsIndexed(pg, i) => IsIndexed(new, i))
    BY <2>2 DEF Shown, IsIndexed
  <2> QED
    BY <1>3, <1>10, <2>3
<1> QED
  BY <1>4, <1>5, <1>6, <1>7, <1>8, <1>9, <1>10 DEF FrameOK

-----------------------------------------------------------------------------
(***************************************************************************)
(* What binds have to do with the tables.  A row that was installed and    *)
(* never bound too late is plain: it is bound to a button that is there,   *)
(* or unbound.                                                             *)
(***************************************************************************)
Plain(i) == i <= InstalledMaps /\ i \notin late

InScope(i) ==
    \/ button_binds.rows[i].button_id \in Rows(remote_buttons)
    \/ button_binds.rows[i] = Unbound /\ Plain(i)

PlainRows ==
    \A i \in Rows(button_binds) : Plain(i) /\ button_binds.rows[i] # Unbound =>
        button_binds.rows[i].button_id \in Rows(remote_buttons)

\* Replies to insertions are about further rows.
NewRows(s) == \A n \in 1..Len(s) : s[n].type = "inserted" => ~ (s[n].id <= InstalledMaps)

\* Elements show buttons that the page knows, if the table has them.
ElementsKnown(pg) ==
    \A n \in DOMAIN pg.maps :
        pg.maps[n].bind.button_id \in Rows(remote_buttons) =>
            pg.maps[n].bind.button_id \in DOMAIN pg.buttons

\* And so do the frames by the time they are received, in plain rows in any case.
FramesKnown(pg, s) ==
    \A n \in 1..Len(s) : \A i :
        /\ Gives(s[n], i)
        /\ Plain(i) \/ Given(s[n], i).button_id \in Rows(remote_buttons)
        => KnownAt(pg, s, n, Given(s[n], i).button_id)

ButtonsKnown(pg, s) == NewRows(s) /\ ElementsKnown(pg) /\ FramesKnown(pg, s)

RowTold(pg, s, i) ==
    Indexed(pg, s, i) /\ (InScope(i) => WillShow(pg, s, i, button_binds.rows[i]))

RowsTold(pg, s, out) ==
    \A i \in Rows(button_binds) : ~ Pending(out, i) => RowTold(pg, s, i)

BindsTold(pg, s, out) == ButtonsKnown(pg, s) /\ RowsTold(pg, s, out)

LEMMA NoButton == TablesOK => Unbound.button_id \notin Rows(remote_buttons)
BY Binds, Seqs DEF TablesOK

\* Nothing that is on its way takes away a button that is there and that the page knows.
LEMMA NotKilled ==
    ASSUME NEW pg, NEW s, Told(pg, s), NEW x, RightRemote(x.button_id, x.remote_id),
           x.button_id \in Rows(remote_buttons), x.button_id \in DOMAIN pg.buttons,
           NEW k \in 1..Len(s)
    PROVE  ~ Kills(s[k], x)
<1>1. x.remote_id = remote_buttons.rows[x.button_id].remote_id
  BY DEF RightRemote
<1>2. ~ OnWay("button_gone", x.button_id, s)
  BY DEF Told, ButtonsTold
<1>3. ~ OnWay("remote_gone", x.remote_id, s)
  BY <1>1 DEF Told, RemotesTold, LearntLate
<1> QED
  BY <1>2, <1>3 DEF OnWay, Kills

LEMMA ReceivedElements ==
    ASSUME TablesOK, NEW pg, PageIds(pg), NEW s, IsSeq(s), s # <<>>, FrameOK(Head(s)), NEW new,
           Receives(pg, Head(s), new), ButtonsTold(pg, s), ElementsKnown(pg)
    PROVE  ElementsKnown(new)
<1> DEFINE f    == Head(s)
           K(x) == x.button_id \in Rows(remote_buttons) => x.button_id \in DOMAIN pg.buttons
<1>1. f = s[1] /\ 1 \in 1..Len(s) /\ FrameOK(f) /\ Receives(pg, f, new)
  BY LaterTail
<1> HIDE DEF f
<1>2. K(Unbound)
  BY NoButton
<1>3. \A n \in DOMAIN pg.maps : K(pg.maps[n].bind)
  BY DEF ElementsKnown
<1>4. \A n : K(Shown(pg, n))
  BY <1>2, <1>3 DEF Shown
<1>5. \A n \in DOMAIN new.maps : K(new.maps[n].bind)
  <2>1. CASE f.type = "inserted"
    <3>1. NamesRow(pg, f.temp_id, f.id, f.bind, new)
      BY <1>1, <2>1 DEF Receives
    <3>2. K(new.maps[Row(f.id)].bind)
      BY <1>3, <1>4, <3>1 DEF NamesRow
    <3> QED
      BY <1>3, <3>1, <3>2 DEF NamesRow
  <2>2. CASE f.type = "updated"
    <3>1. CASE new = pg
      BY <1>3, <3>1
    <3>2. CASE new # pg
      <4>1. PICK j \in DOMAIN f.found : Displays(pg, Row(j), f.found[j], new)
        BY <1>1, <2>2, <3>2 DEF Receives, Refreshes
      <4>2. K(new.maps[Row(j)].bind)
        BY <1>4, <4>1 DEF Displays
      <4> QED
        BY <1>3, <4>1, <4>2 DEF Displays
    <3> QED
      BY <3>1, <3>2
  <2>3. CASE f.type = "map_gone"
    BY <1>1, <1>3, <2>3 DEF Receives, Hides
  <2>4. CASE f.type = "button_gone"
    BY <1>1, <1>2, <1>3, <2>4 DEF Receives, DropsButton, Unbinds
  <2>5. CASE f.type = "button_learnt"
    BY <1>1, <1>3, <2>5 DEF Receives, Learns
  <2>6. CASE f.type = "remote_gone"
    BY <1>1, <1>2, <1>3, <2>6 DEF Receives, DropsRemote, Unbinds
  <2>7. CASE f.type = "remote_added"
    BY <1>1, <1>3, <2>7 DEF Receives, AddsRemote
  <2> QED
    BY <1>1, <2>1, <2>2, <2>3, <2>4, <2>5, <2>6, <2>7 DEF FrameOK
<1>6. \A b \in Rows(remote_buttons) \cap DOMAIN pg.buttons : b \in DOMAIN new.buttons
  <2>1. ButtonsPart(pg, f, new)
    BY <1>1, ReceivedParts
  <2>2. f.type = "button_gone" => f.id \notin Rows(remote_buttons)
    BY <1>1 DEF ButtonsTold, OnWay, Says
  <2> QED
    BY <2>1, <2>2 DEF ButtonsPart
<1> QED
  BY <1>5, <1>6 DEF ElementsKnown

LEMMA ReceivedFrames ==
    ASSUME NEW pg, NEW s, IsSeq(s), s # <<>>, FrameOK(Head(s)), NEW new,
           Receives(pg, Head(s), new), FramesKnown(pg, s)
    PROVE  FramesKnown(new, Tail(s))
<1> DEFINE f == Head(s)
           r == Tail(s)
<1>1. /\ f = s[1] /\ 1 \in 1..Len(s) /\ Len(s) \in Nat /\ Len(r) = Len(s) - 1
      /\ \A n \in 1..Len(r) : n + 1 \in 1..Len(s) /\ r[n] = s[n + 1]
      /\ \A n \in 1..Len(s) : n = 1 \/ (n - 1 \in 1..Len(r) /\ s[n] = r[n - 1])
  BY LaterTail
<1>2. ButtonsPart(pg, f, new)
  BY ReceivedParts
<1> HIDE DEF f, r
<1>3. ASSUME NEW n \in 1..Len(r), NEW b, KnownAt(pg, s, n + 1, b)
      PROVE  KnownAt(new, r, n, b)
  <2>1. 1 < n + 1 /\ \A k \in 1..Len(r) : k < n => k + 1 < n + 1
    OBVIOUS
  <2>2. \A k \in 1..Len(s) : k < n + 1 => k = 1 \/ k - 1 < n
    OBVIOUS
  <2>3. ~ Says(f, "button_gone", b)
    BY <1>1, <1>3, <2>1 DEF KnownAt
  <2>4. \A k \in 1..Len(r) : k < n => ~ Says(r[k], "button_gone", b)
    BY <1>1, <1>3, <2>1 DEF KnownAt
  <2>5. CASE b \in DOMAIN pg.buttons \/ Says(f, "button_learnt", b)
    <3>1. b \in DOMAIN new.buttons
      BY <1>2, <2>3, <2>5 DEF ButtonsPart, Says
    <3> QED
      BY <2>4, <3>1 DEF KnownAt
  <2>6. CASE ~ (b \in DOMAIN pg.buttons \/ Says(f, "button_learnt", b))
    <3>1. PICK k \in 1..Len(s) : k < n + 1 /\ Says(s[k], "button_learnt", b)
      BY <1>3, <2>6 DEF KnownAt
    <3>2. k # 1
      BY <1>1, <2>6, <3>1
    <3>3. k - 1 \in 1..Len(r) /\ k - 1 < n /\ Says(r[k - 1], "button_learnt", b)
      BY <1>1, <2>2, <3>1, <3>2
    <3> QED
      BY <2>4, <3>3 DEF KnownAt
  <2> QED
    BY <2>5, <2>6
<1>4. FramesKnown(new, r)
  BY <1>1, <1>3 DEF FramesKnown
<1> QED
  BY <1>4 DEF r

\* The button of a frame that settles what a row in scope shows is known.
LEMMA SettlingKnown ==
    ASSUME TablesOK, NEW pg, NEW s, FramesKnown(pg, s), NEW i, InScope(i), NEW n \in 1..Len(s),
           Gives(s[n], i),
           Given(s[n], i) = button_binds.rows[i] \/ button_binds.rows[i] = Unbound
    PROVE  KnownAt(pg, s, n, Given(s[n], i).button_id)
BY NoButton DEF InScope, FramesKnown

LEMMA ReceivedIndex ==
    ASSUME NEW pg, PageIds(pg), NEW s, IsSeq(s), s # <<>>,
           FrameOK(Head(s)), NEW new, Receives(pg, Head(s), new), MapsTold(pg, s),
           NEW i \in Rows(button_binds), Indexed(pg, s, i)
    PROVE  Indexed(new, Tail(s), i)
<1> DEFINE f == Head(s)
           r == Tail(s)
<1>1. /\ f = s[1] /\ 1 \in 1..Len(s)
      /\ FrameOK(f) /\ Receives(pg, f, new)
      /\ GivenLater(i, 0, s) <=> Gives(f, i) \/ GivenLater(i, 0, r)
  BY LaterTail, TailGiven
<1>2. Row(i) \notin pg.deleted /\ ~ Says(f, "map_gone", Row(i))
  BY <1>1 DEF MapsTold, OnWay
<1> HIDE DEF f, r
<1> SUFFICES ASSUME ~ GivenLater(i, 0, r), Shown(new, Row(i)) # Unbound
             PROVE  IsIndexed(new, i)
  BY DEF Indexed, r
<1>3. CASE Gives(f, i)
  BY <1>1, <1>2, <1>3, GivenShown
<1>4. CASE ~ Gives(f, i)
  <2>1. Follows(pg, f, new, i)
    BY <1>1, <1>4, NotGiven
  <2>2. Shown(pg, Row(i)) # Unbound
    BY <2>1 DEF Follows
  <2>3. IsIndexed(pg, i)
    BY <1>1, <1>4, <2>2 DEF Indexed
  <2> QED
    BY <1>2, <2>1, <2>3 DEF Follows
<1> QED
  BY <1>3, <1>4

LEMMA ReceivedShows ==
    ASSUME TablesOK, NEW pg, PageIds(pg), NEW s, IsSeq(s), s # <<>>,
           FrameOK(Head(s)), NEW new, Receives(pg, Head(s), new), Told(pg, s),
           ButtonsKnown(pg, s), NEW i \in Rows(button_binds), RowTold(pg, s, i), InScope(i)
    PROVE  WillShow(new, Tail(s), i, button_binds.rows[i])
<1> DEFINE f == Head(s)
           r == Tail(s)
           v == button_binds.rows[i]
           x == Shown(pg, Row(i))
           y == Shown(new, Row(i))
<1>1. /\ f = s[1] /\ 1 \in 1..Len(s) /\ Len(s) \in Nat
      /\ FrameOK(f) /\ Receives(pg, f, new)
      /\ \A n \in 1..Len(r) : n + 1 \in 1..Len(s) /\ r[n] = s[n + 1]
      /\ GivenLater(i, 0, s) <=> Gives(f, i) \/ GivenLater(i, 0, r)
      /\ \A z : KilledLater(z, 0, s) <=> Kills(f, z) \/ KilledLater(z, 0, r)
      /\ \A z : \A n \in Nat : Settled(s, n + 1, i, z, v) => Settled(r, n, i, z, v)
  BY LaterTail, TailGiven, TailKilled, TailSettled
<1>2. Row(i) \notin pg.deleted
  BY DEF Told, MapsTold
<1>3. /\ WillShow(pg, s, i, v) /\ Indexed(pg, s, i)
      /\ ElementsKnown(pg) /\ FramesKnown(pg, s)
  BY DEF RowTold, ButtonsKnown
<1> HIDE DEF f, r, v
<1>4. Settled(r, 0, i, y, v)
  <2>1. CASE GivenLater(i, 0, r)
    BY <2>1 DEF Settled
  <2>2. CASE ~ GivenLater(i, 0, r) /\ Gives(f, i)
    <3> DEFINE g == Given(f, i)
    <3>1. Settled(s, 1, i, g, v)
      BY <1>1, <1>3, <2>2 DEF WillShow
    <3>2. Settled(r, 0, i, g, v)
      <4>1. Settled(s, 0 + 1, i, g, v)
        BY <3>1
      <4> QED
        BY <1>1, <4>1
    <3>3. g = v \/ v = Unbound
      BY <2>2, <3>2 DEF Settled
    <3>4. KnownAt(pg, s, 1, g.button_id)
      BY <1>1, <1>3, <2>2, <3>3, SettlingKnown DEF v
    <3>5. \A k \in 1..Len(s) : ~ (k < 1)
      OBVIOUS
    <3>6. g.button_id \in DOMAIN pg.buttons
      BY <3>4, <3>5 DEF KnownAt
    <3>7. y = g
      BY <1>1, <1>2, <2>2, <3>6, GivenShown
    <3> QED
      BY <3>2, <3>7
  <2>3. CASE ~ GivenLater(i, 0, r) /\ ~ Gives(f, i)
    <3>1. Follows(pg, f, new, i)
      BY <1>1, <2>3, NotGiven
    <3>2. ~ GivenLater(i, 0, s)
      BY <1>1, <2>3
    <3>3. x = v \/ (v = Unbound /\ (Kills(f, x) \/ KilledLater(x, 0, r)))
      BY <1>1, <1>3, <3>2 DEF WillShow, Settled
    <3>4. x # Unbound => IsIndexed(pg, i)
      BY <1>3, <3>2 DEF Indexed
    <3>5. CASE v = Unbound
      BY <3>1, <3>3, <3>4, <3>5 DEF Follows, Settled
    <3>6. CASE v # Unbound
      <4>1. x = v /\ x # Unbound
        BY <3>3, <3>6
      <4>2. v.button_id \in Rows(remote_buttons)
        BY <3>6 DEF InScope, v
      <4>3. Row(i) \in DOMAIN pg.maps /\ x = pg.maps[Row(i)].bind
        BY <4>1 DEF Shown
      <4>4. x.button_id \in DOMAIN pg.buttons /\ RightRemote(x.button_id, x.remote_id)
        BY <1>3, <4>1, <4>2, <4>3 DEF ElementsKnown, PageIds, BindOK
      <4>5. ~ Kills(s[1], x)
        BY <1>1, <4>1, <4>2, <4>4, NotKilled
      <4> QED
        BY <1>1, <3>1, <4>1, <4>5 DEF Follows, Settled
    <3> QED
      BY <3>5, <3>6
  <2> QED
    BY <2>1, <2>2, <2>3
<1>5. ASSUME NEW n \in 1..Len(r), Gives(r[n], i) PROVE Settled(r, n, i, Given(r[n], i), v)
  <2>1. /\ n + 1 \in 1..Len(s) /\ r[n] = s[n + 1] /\ n \in Nat
    BY <1>1
  <2>2. Settled(s, n + 1, i, Given(s[n + 1], i), v)
    BY <1>3, <1>5, <2>1 DEF WillShow
  <2> QED
    BY <1>1, <2>1, <2>2
<1> QED
  BY <1>4, <1>5 DEF WillShow, r, v

LEMMA ReceivedBinds ==
    ASSUME TablesOK, NEW pg, PageIds(pg), NEW s, IsSeq(s), s # <<>>,
           FrameOK(Head(s)), NEW new, Receives(pg, Head(s), new), Told(pg, s),
           NEW out, BindsTold(pg, s, out)
    PROVE  BindsTold(new, Tail(s), out)
<1>1. /\ ButtonsTold(pg, s) /\ MapsTold(pg, s)
      /\ NewRows(s) /\ ElementsKnown(pg) /\ FramesKnown(pg, s) /\ ButtonsKnown(pg, s)
  BY DEF Told, BindsTold, ButtonsKnown
<1>2. NewRows(Tail(s))
  BY <1>1, LaterTail DEF NewRows
<1>3. ElementsKnown(new)
  BY <1>1, ReceivedElements
<1>4. FramesKnown(new, Tail(s))
  BY <1>1, ReceivedFrames
<1>5. ASSUME NEW i \in Rows(button_binds), ~ Pending(out, i) PROVE RowTold(new, Tail(s), i)
  <2>1. RowTold(pg, s, i)
    BY <1>5 DEF BindsTold, RowsTold
  <2>2. Indexed(new, Tail(s), i)
    BY <1>1, <2>1, ReceivedIndex DEF RowTold
  <2>3. ASSUME InScope(i) PROVE WillShow(new, Tail(s), i, button_binds.rows[i])
    BY <1>1, <2>1, <2>3, ReceivedShows
  <2> QED
    BY <2>2, <2>3 DEF RowTold
<1> QED
  BY <1>2, <1>3, <1>4, <1>5 DEF BindsTold, ButtonsKnown, RowsTold

LEMMA LoadedBinds ==
    ASSUME TablesOK, NEW pg, IsLoaded(pg), NEW out
    PROVE  BindsTold(pg, <<>>, out)
<1>1. Len(<<>>) = 0 /\ 1..0 = {}
  BY EmptyStream
<1>2. NewRows(<<>>) /\ FramesKnown(pg, <<>>)
  BY <1>1 DEF NewRows, FramesKnown
<1>3. \A i \in Rows(button_binds) :
         /\ Row(i) \in DOMAIN pg.maps /\ IsIndexed(pg, i)
         /\ Shown(pg, Row(i)) =
               IF button_binds.rows[i].button_id \in Rows(remote_buttons)
               THEN button_binds.rows[i] ELSE Unbound
  BY DEF IsLoaded, IsIndexed, Shown
<1>4. ElementsKnown(pg)
  <2>1. Unbound.button_id \notin Rows(remote_buttons)
    BY NoButton
  <2> QED
    BY <2>1 DEF IsLoaded, ElementsKnown
<1>5. ASSUME NEW i \in Rows(button_binds) PROVE RowTold(pg, <<>>, i)
  <2>1. Indexed(pg, <<>>, i)
    BY <1>3 DEF Indexed
  <2>2. InScope(i) => Shown(pg, Row(i)) = button_binds.rows[i]
    BY <1>3 DEF InScope
  <2>3. InScope(i) => WillShow(pg, <<>>, i, button_binds.rows[i])
    BY <1>1, <2>2 DEF WillShow, Settled
  <2> QED
    BY <2>1, <2>3 DEF RowTold
<1> QED
  BY <1>2, <1>4, <1>5 DEF BindsTold, ButtonsKnown, RowsTold

LEMMA PendingConcat ==
    ASSUME NEW s, IsSeq(s), NEW t, IsSeq(t), NEW i, Pending(s, i) \/ Pending(t, i)
    PROVE  Pending(s \o t, i)
<1> DEFINE r == s \o t
<1>1. /\ Len(s) \in Nat /\ Len(t) \in Nat /\ Len(r) = Len(s) + Len(t)
      /\ \A k \in 1..Len(s) : r[k] = s[k]
      /\ \A k \in 1..Len(t) : r[Len(s) + k] = t[k]
  BY ConcatStream, SeqFacts
<1> HIDE DEF r
<1>2. /\ \A k \in 1..Len(s) : k \in 1..Len(r)
      /\ \A k \in 1..Len(t) : Len(s) + k \in 1..Len(r)
  BY <1>1
<1>3. Pending(r, i)
  BY <1>1, <1>2 DEF Pending
<1> QED
  BY <1>3 DEF r

\* A bind that a user makes is pending, until the server has handled it.
LEMMA EditBinds ==
    ASSUME TablesOK, NEW pg, PageIds(pg), NEW messages, NEW new, Edits(pg, messages, new),
           NEW s, NEW out, IsSeq(out), BindsTold(pg, s, out)
    PROVE  BindsTold(new, s, out \o messages)
<1>1. Touches(pg, new) /\ IsSeq(messages) /\ PageIds(new)
  BY DEF Edits
<1>2. new.buttons = pg.buttons
  BY <1>1 DEF Touches
<1>3. NewRows(s) /\ ElementsKnown(pg) /\ FramesKnown(pg, s) /\ RowsTold(pg, s, out)
  BY DEF BindsTold, ButtonsKnown
<1>4. FramesKnown(new, s)
  BY <1>2, <1>3 DEF FramesKnown, KnownAt
<1>5. ElementsKnown(new)
  <2> SUFFICES ASSUME NEW n \in DOMAIN new.maps,
                      new.maps[n].bind.button_id \in Rows(remote_buttons)
               PROVE  new.maps[n].bind.button_id \in DOMAIN new.buttons
    BY DEF ElementsKnown
  <2>1. new.maps[n].bind = Shown(pg, n) \/ Offers(pg, new.maps[n].bind)
    BY DEF Edits
  <2>2. n \in DOMAIN pg.maps \/ Shown(pg, n) = Unbound
    BY DEF Shown
  <2>3. Unbound.button_id \notin Rows(remote_buttons)
    BY NoButton
  <2> QED
    BY <1>2, <1>3, <2>1, <2>2, <2>3 DEF Offers, Shown, ElementsKnown
<1>6. ASSUME NEW i, ~ Pending(out \o messages, i) PROVE Shown(new, Row(i)) = Shown(pg, Row(i))
  <2>1. CASE Row(i) \notin DOMAIN new.maps
    BY <1>1, <2>1 DEF Shown, Touches
  <2>2. CASE Row(i) \in DOMAIN new.maps
    <3> DEFINE x == new.maps[Row(i)].bind
    <3> SUFFICES ASSUME x # Shown(pg, Row(i)) PROVE FALSE
      BY <2>2 DEF Shown
    <3>1. /\ Offers(pg, x)
          /\ \E n \in 1..Len(messages) : messages[n] = SaveMap(Row(i), x)
      BY <2>2 DEF Edits
    <3>2. x # Unbound
      <4>1. 0 \notin DOMAIN pg.buttons
        BY DEF PageIds, PageOK
      <4> QED
        BY <3>1, <4>1, Binds DEF Offers
    <3>3. Pending(messages, i)
      BY <3>1, <3>2 DEF Pending, Binding, SaveMap
    <3> QED
      BY <1>1, <1>6, <3>3, PendingConcat
  <2> QED
    BY <2>1, <2>2
<1>7. ASSUME NEW i, IsIndexed(pg, i) PROVE IsIndexed(new, i)
  <2>1. ~ IsTemp(Row(i))
    BY Names
  <2> QED
    BY <1>1, <1>7, <2>1 DEF Touches, IsIndexed
<1>8. ASSUME NEW i \in Rows(button_binds), ~ Pending(out \o messages, i)
      PROVE  RowTold(new, s, i)
  <2>1. ~ Pending(out, i)
    BY <1>1, <1>8, PendingConcat
  <2>2. RowTold(pg, s, i)
    BY <1>3, <2>1 DEF RowsTold
  <2>3. Shown(new, Row(i)) = Shown(pg, Row(i))
    BY <1>6, <1>8
  <2>4. Indexed(new, s, i)
    BY <1>7, <2>2, <2>3 DEF RowTold, Indexed
  <2>5. InScope(i) => WillShow(new, s, i, button_binds.rows[i])
    BY <2>2, <2>3 DEF RowTold, WillShow
  <2> QED
    BY <2>4, <2>5 DEF RowTold
<1> QED
  BY <1>3, <1>4, <1>5, <1>8 DEF BindsTold, ButtonsKnown, RowsTold

\* The frame that a handler broadcasts says what it did to the rows' binds.
BindsSaid(m, f) ==
    /\ \A i : Gives(f, i) =>
          /\ i \in Rows(button_binds') /\ Given(f, i) = button_binds'.rows[i]
          /\ Rows(remote_buttons') = Rows(remote_buttons)
    /\ \A i \in Rows(button_binds') : Binding(m, i) => Gives(f, i)
    /\ \A i \in Rows(button_binds') : ~ Gives(f, i) =>
          /\ i \in Rows(button_binds)
          /\ \/ button_binds'.rows[i] = button_binds.rows[i]
             \/ /\ button_binds'.rows[i] = Unbound /\ button_binds.rows[i] # Unbound
                /\ Kills(f, button_binds.rows[i])
    /\ f.type = "inserted" => f.id = button_binds.seq + 1

LEMMA SaidWhatWasBound ==
    ASSUME TablesOK, NEW m, MessageOK(m), NEW f, Tabled(m, f)
    PROVE  BindsSaid(m, f)
<1>1. \A i : m.id = Row(i) => ~ IsTemp(m.id) /\ m.id[2] = i
  BY Names
<1>2. CASE Inserting(m, f)
  <2>1. /\ f = Inserted(m.id, button_binds.seq + 1, m.bind) /\ IsTemp(m.id)
        /\ Inserts(button_binds, m.bind, button_binds')
        /\ UNCHANGED remote_buttons
    BY <1>2 DEF Inserting
  <2>2. /\ f.type = "inserted" /\ f.id = button_binds.seq + 1 /\ f.bind = m.bind
        /\ \A i : Gives(f, i) <=> i = button_binds.seq + 1
        /\ \A i : Given(f, i) = m.bind
    BY <2>1 DEF Inserted, Gives, Given, Says
  <2>3. \A i : ~ Binding(m, i)
    BY <1>1, <2>1 DEF Binding
  <2> QED
    BY <2>1, <2>2, <2>3 DEF BindsSaid, Inserts
<1>3. CASE Updating(m, f)
  <2>1. /\ f.type = "updated" /\ ~ IsTemp(m.id)
        /\ DOMAIN f.found = Rows(button_binds) \cap {m.id[2]}
        /\ \A i \in DOMAIN f.found : f.found[i] = button_binds'.rows[i]
        /\ \/ m.bind = Unbound /\ button_binds' = button_binds
           \/ m.bind # Unbound /\ Assigns(button_binds, {m.id[2]}, m.bind, button_binds')
        /\ UNCHANGED remote_buttons
    BY <1>3 DEF Updating
  <2>2. /\ Rows(button_binds') = Rows(button_binds)
        /\ \A i \in Rows(button_binds) : i # m.id[2] => button_binds'.rows[i] = button_binds.rows[i]
        /\ \A i \in Rows(button_binds) : button_binds'.rows[i] =
              IF m.bind # Unbound /\ i = m.id[2] THEN m.bind ELSE button_binds.rows[i]
    BY <2>1 DEF Assigns
  <2>3. /\ \A i : Gives(f, i) <=> i \in DOMAIN f.found /\ f.found[i] # Unbound
        /\ \A i : Given(f, i) = f.found[i]
    BY <2>1 DEF Gives, Given, Says
  <2>4. \A i \in Rows(button_binds') : Binding(m, i) => Gives(f, i)
    BY <1>1, <2>1, <2>2, <2>3 DEF Binding
  <2>5. ASSUME NEW i \in Rows(button_binds'), ~ Gives(f, i)
        PROVE  i \in Rows(button_binds) /\ button_binds'.rows[i] = button_binds.rows[i]
    BY <2>1, <2>2, <2>3, <2>5
  <2> QED
    BY <2>1, <2>2, <2>3, <2>4, <2>5 DEF BindsSaid
<1>4. CASE DeletingMap(m, f)
  <2>1. /\ f.type = "map_gone" /\ m.type = "delete_button_map"
        /\ \A i \in Rows(button_binds') :
              i \in Rows(button_binds) /\ button_binds'.rows[i] = button_binds.rows[i]
    BY <1>4 DEF DeletingMap, MapGone, Deletes
  <2>2. \A i : ~ Gives(f, i) /\ ~ Binding(m, i)
    BY <2>1 DEF Gives, Says, Binding
  <2> QED
    BY <2>1, <2>2 DEF BindsSaid
<1>5. CASE DeletingButton(m, f)
  <2>1. /\ f.type = "button_gone" /\ f.id = m.id /\ m.type = "delete_remote_button"
        /\ m.id \in Rows(remote_buttons)
        /\ Rows(button_binds') = Rows(button_binds)
        /\ \A i \in Rows(button_binds) : button_binds'.rows[i] =
              IF button_binds.rows[i].button_id = m.id THEN Unbound ELSE button_binds.rows[i]
    BY <1>5 DEF DeletingButton, Assigns, BoundTo, ButtonGone
  <2>2. \A i : ~ Gives(f, i) /\ ~ Binding(m, i)
    BY <2>1 DEF Gives, Says, Binding
  <2>3. \A x : x.button_id = m.id => x # Unbound /\ Kills(f, x)
    BY <2>1, NoButton DEF Kills, Says
  <2> QED
    BY <2>1, <2>2, <2>3 DEF BindsSaid
<1>6. CASE Learning(m, f)
  <2>1. /\ f.type = "button_learnt" /\ m.type = "learn" /\ button_binds' = button_binds
    BY <1>6 DEF Learning, ButtonLearnt
  <2>2. \A i : ~ Gives(f, i) /\ ~ Binding(m, i)
    BY <2>1 DEF Gives, Says, Binding
  <2> QED
    BY <2>1, <2>2 DEF BindsSaid
<1>7. CASE AddingRemote(m, f)
  <2>1. /\ f.type = "remote_added" /\ m.type = "add_remote" /\ button_binds' = button_binds
    BY <1>7 DEF AddingRemote, RemoteAdded
  <2>2. \A i : ~ Gives(f, i) /\ ~ Binding(m, i)
    BY <2>1 DEF Gives, Says, Binding
  <2> QED
    BY <2>1, <2>2 DEF BindsSaid
<1>8. CASE DeletingRemote(m, f)
  <2>1. /\ f.type = "remote_gone" /\ f.id = m.id /\ m.type = "delete_remote"
        /\ m.id \in Rows(remotes)
        /\ Rows(button_binds') = Rows(button_binds)
        /\ \A i \in Rows(button_binds) : button_binds'.rows[i] =
              IF button_binds.rows[i].remote_id = m.id THEN Unbound ELSE button_binds.rows[i]
    BY <1>8 DEF DeletingRemote, Assigns, BoundWith, RemoteGone
  <2>2. \A i : ~ Gives(f, i) /\ ~ Binding(m, i)
    BY <2>1 DEF Gives, Says, Binding
  <2>3. m.id # 0
    BY <2>1, Seqs DEF TablesOK
  <2>4. \A x : x.remote_id = m.id => x # Unbound /\ Kills(f, x)
    BY <2>1, <2>3, Binds DEF Kills, Says
  <2> QED
    BY <2>1, <2>2, <2>4 DEF BindsSaid
<1> QED
  BY <1>2, <1>3, <1>4, <1>5, <1>6, <1>7, <1>8 DEF Tabled

\* A plain row is bound to a button that is there, whatever the server handles.
LEMMA PlainStays ==
    ASSUME TablesOK, PlainRows, NEW m, MessageOK(m), NEW f, Tabled(m, f)
    PROVE  PlainRows' /\ late \subseteq late'
<1>1. ASSUME NEW i \in Rows(button_binds), button_binds'.rows[i] = button_binds.rows[i],
             Rows(remote_buttons) \subseteq Rows(remote_buttons'),
             Plain(i), button_binds'.rows[i] # Unbound
      PROVE  button_binds'.rows[i].button_id \in Rows(remote_buttons')
  BY <1>1 DEF PlainRows
<1>2. CASE Inserting(m, f)
  <2>1. /\ Inserts(button_binds, m.bind, button_binds')
        /\ UNCHANGED remote_buttons /\ UNCHANGED late
    BY <1>2 DEF Inserting
  <2>2. ~ (button_binds.seq + 1 <= InstalledMaps)
    BY Seqs, BoundsAssumption DEF TablesOK
  <2> QED
    BY <1>1, <2>1, <2>2 DEF Inserts, PlainRows, Plain, Rows
<1>3. CASE Updating(m, f)
  <2>1. /\ \/ m.bind = Unbound /\ button_binds' = button_binds
           \/ m.bind # Unbound /\ Assigns(button_binds, {m.id[2]}, m.bind, button_binds')
        /\ late' = IF m.bind = Unbound \/ m.bind.button_id \in Rows(remote_buttons)
                   THEN late ELSE late \cup {m.id[2]}
        /\ UNCHANGED remote_buttons
    BY <1>3 DEF Updating
  <2>2. Rows(button_binds') = Rows(button_binds)
    BY <2>1 DEF Assigns
  <2>3. ASSUME NEW i \in Rows(button_binds), i <= InstalledMaps, i \notin late',
               button_binds'.rows[i] # Unbound
        PROVE  button_binds'.rows[i].button_id \in Rows(remote_buttons')
    <3>1. Plain(i)
      BY <2>1, <2>3 DEF Plain
    <3>2. CASE button_binds'.rows[i] = button_binds.rows[i]
      BY <1>1, <2>1, <2>3, <3>1, <3>2
    <3>3. CASE button_binds'.rows[i] # button_binds.rows[i]
      BY <2>1, <2>3, <3>3 DEF Assigns
    <3> QED
      BY <3>2, <3>3
  <2> QED
    BY <2>1, <2>2, <2>3 DEF PlainRows, Plain, Rows
<1>4. CASE DeletingMap(m, f)
  <2>1. /\ UNCHANGED remote_buttons /\ UNCHANGED late
        /\ \A i \in Rows(button_binds') :
              i \in Rows(button_binds) /\ button_binds'.rows[i] = button_binds.rows[i]
    BY <1>4 DEF DeletingMap, Deletes
  <2> QED
    BY <1>1, <2>1 DEF PlainRows, Plain, Rows
<1>5. CASE DeletingButton(m, f)
  <2>1. /\ UNCHANGED late
        /\ Rows(remote_buttons') = Rows(remote_buttons) \ {m.id}
        /\ Rows(button_binds') = Rows(button_binds)
        /\ \A i \in Rows(button_binds) : button_binds'.rows[i] =
              IF button_binds.rows[i].button_id = m.id THEN Unbound ELSE button_binds.rows[i]
    BY <1>5 DEF DeletingButton, Assigns, Deletes, BoundTo
  <2> QED
    BY <2>1 DEF PlainRows, Plain, Rows
<1>6. CASE Learning(m, f)
  <2>1. /\ UNCHANGED late /\ button_binds' = button_binds
        /\ Rows(remote_buttons') = Rows(remote_buttons) \cup {remote_buttons.seq + 1}
    BY <1>6 DEF Learning, Inserts
  <2> QED
    BY <2>1 DEF PlainRows, Plain, Rows
<1>7. CASE AddingRemote(m, f)
  BY <1>7 DEF AddingRemote, PlainRows, Plain, Rows
<1>8. CASE DeletingRemote(m, f)
  <2>1. /\ UNCHANGED late
        /\ Rows(remote_buttons') = Rows(remote_buttons) \ ButtonsOf(m.id)
        /\ Rows(button_binds') = Rows(button_binds)
        /\ \A i \in Rows(button_binds) : button_binds'.rows[i] =
              IF button_binds.rows[i].remote_id = m.id THEN Unbound ELSE button_binds.rows[i]
    BY <1>8 DEF DeletingRemote, Assigns, Deletes, BoundWith
  <2>2. ASSUME NEW i \in Rows(button_binds), Plain(i), button_binds'.rows[i] # Unbound
        PROVE  button_binds'.rows[i].button_id \in Rows(remote_buttons')
    <3> DEFINE x == button_binds.rows[i]
    <3>1. button_binds'.rows[i] = x /\ x.remote_id # m.id /\ x # Unbound
      BY <2>1, <2>2
    <3>2. x.button_id \in Rows(remote_buttons)
      BY <2>2, <3>1 DEF PlainRows
    <3>3. x.remote_id = remote_buttons.rows[x.button_id].remote_id
      BY <3>1, <3>2 DEF TablesOK, BindOK, RightRemote
    <3> QED
      BY <2>1, <3>1, <3>2, <3>3 DEF ButtonsOf
  <2> QED
    BY <2>1, <2>2 DEF PlainRows, Plain, Rows
<1> QED
  BY <1>2, <1>3, <1>4, <1>5, <1>6, <1>7, <1>8 DEF Tabled

\* A button that is there after the reply, and was handed out before it, was there.
LEMMA WasThere ==
    ASSUME TablesOK, Grow, TablesOK', NEW x, BindOK(x), x.button_id \in Rows(remote_buttons')
    PROVE  x.button_id \in Rows(remote_buttons)
<1>1. Rows(remote_buttons') \subseteq 1..remote_buttons'.seq
  BY DEF TablesOK, Rows
<1>2. x.button_id # 0
  BY <1>1
<1>3. x.button_id \in 1..remote_buttons.seq
  BY <1>2, Binds DEF BindOK, RightRemote
<1> QED
  BY <1>3, Seqs DEF Grow, Rows

LEMMA RepliedButtonsKnown ==
    ASSUME TablesOK, PlainRows, Grow, TablesOK',
           NEW pg, PageIds(pg), NEW s, \A n \in 1..Len(s) : FrameOK(s[n]),
           NEW m, MessageOK(m), NEW f, Tabled(m, f), NEW r, OneMore(s, f, r),
           ButtonsTold(pg, s), ButtonsKnown(pg, s)
    PROVE  ButtonsKnown(pg, r)'
<1>1. /\ Len(s) \in Nat /\ Len(r) = Len(s) + 1 /\ r[Len(s) + 1] = f
      /\ \A n \in 1..Len(s) : n \in 1..Len(r) /\ r[n] = s[n]
      /\ \A n \in 1..Len(r) : n \in 1..Len(s) \/ n = Len(s) + 1
  BY DEF OneMore
<1>2. /\ NewRows(s) /\ ElementsKnown(pg) /\ FramesKnown(pg, s)
      /\ BindsSaid(m, f) /\ PlainRows' /\ late \subseteq late'
  BY SaidWhatWasBound, PlainStays DEF ButtonsKnown
<1>3. ~ (button_binds.seq + 1 <= InstalledMaps)
  BY Seqs, BoundsAssumption DEF TablesOK
<1>4. \A n \in 1..Len(r) : r[n].type = "inserted" => ~ (r[n].id <= InstalledMaps)
  BY <1>1, <1>2, <1>3 DEF NewRows, BindsSaid
<1>5. \A n \in DOMAIN pg.maps :
         pg.maps[n].bind.button_id \in Rows(remote_buttons') =>
            pg.maps[n].bind.button_id \in DOMAIN pg.buttons
  BY <1>2, WasThere DEF PageIds, ElementsKnown
<1>6. ASSUME NEW n \in 1..Len(r), NEW i, Gives(r[n], i),
             (i <= InstalledMaps /\ i \notin late')
                \/ Given(r[n], i).button_id \in Rows(remote_buttons')
      PROVE  KnownAt(pg, r, n, Given(r[n], i).button_id)
  <2> DEFINE x == Given(r[n], i)
             b == x.button_id
  <2>1. CASE n \in 1..Len(s)
    <3>1. r[n] = s[n] /\ FrameOK(s[n])
      BY <1>1, <2>1
    <3>2. BindOK(x)
      BY <1>6, <3>1 DEF Gives, Given, Says, FrameOK
    <3>3. Plain(i) \/ b \in Rows(remote_buttons)
      BY <1>2, <1>6, <3>2, WasThere DEF Plain
    <3>4. KnownAt(pg, s, n, b)
      BY <1>2, <1>6, <2>1, <3>1, <3>3 DEF FramesKnown
    <3>5. \A k \in 1..Len(r) : k < n => k \in 1..Len(s)
      BY <1>1, <2>1
    <3> QED
      BY <1>1, <3>4, <3>5 DEF KnownAt
  <2>2. CASE n = Len(s) + 1
    <3>1. r[n] = f
      BY <1>1, <2>2
    <3>2. /\ i \in Rows(button_binds') /\ x = button_binds'.rows[i]
          /\ Rows(remote_buttons') = Rows(remote_buttons)
      BY <1>2, <1>6, <3>1 DEF BindsSaid
    <3>3. b \in Rows(remote_buttons)
      <4>1. CASE b \in Rows(remote_buttons')
        BY <3>2, <4>1
      <4>2. CASE i <= InstalledMaps /\ i \notin late'
        <5>1. f.type # "inserted"
          BY <1>2, <1>3, <1>6, <3>1, <4>2 DEF BindsSaid, Gives, Says
        <5>2. x # Unbound
          BY <1>6, <3>1, <5>1 DEF Gives, Given, Says
        <5> QED
          BY <1>2, <3>2, <4>2, <5>2 DEF PlainRows, Plain, Rows
      <4> QED
        BY <1>6, <4>1, <4>2
    <3>4. \A k \in 1..Len(r) : k < n => k \in 1..Len(s)
      BY <1>1, <2>2
    <3>5. \A k \in 1..Len(s) : k < n
      BY <1>1, <2>2
    <3>6. ~ OnWay("button_gone", b, s) /\ (b \in DOMAIN pg.buttons \/ OnWay("button_learnt", b, s))
      BY <3>3 DEF ButtonsTold
    <3> QED
      BY <1>1, <3>4, <3>5, <3>6 DEF KnownAt, OnWay
  <2> QED
    BY <1>1, <2>1, <2>2
<1>7. NewRows(r)' /\ ElementsKnown(pg)'
  BY <1>4, <1>5 DEF NewRows, ElementsKnown, Rows
<1>8. FramesKnown(pg, r)'
  BY <1>6 DEF FramesKnown, Plain, Rows, Gives, Given, KnownAt, Says
<1> QED
  BY <1>7, <1>8 DEF ButtonsKnown

LEMMA RepliedRow ==
    ASSUME TablesOK, PlainRows, Grow, TablesOK',
           NEW pg, NEW s, NEW m, MessageOK(m), NEW f, Tabled(m, f), NEW r, OneMore(s, f, r),
           NEW i \in Rows(button_binds'),
           ~ Gives(f, i) /\ i \in Rows(button_binds) => RowTold(pg, s, i)
    PROVE  RowTold(pg, r, i)'
<1> DEFINE v == button_binds.rows[i]
           w == button_binds'.rows[i]
<1>1. /\ Len(s) \in Nat /\ Len(r) = Len(s) + 1 /\ r[Len(s) + 1] = f
      /\ \A n \in 1..Len(s) : r[n] = s[n]
      /\ \A n \in 1..Len(r) : n \in 1..Len(s) \/ n = Len(s) + 1
      /\ \A n \in 1..Len(s) : n \in 0..Len(s)
      /\ 0 \in 0..Len(s)
  BY DEF OneMore
<1>2. /\ \A n \in 0..Len(s) : GivenLater(i, n, r) <=> GivenLater(i, n, s) \/ Gives(f, i)
      /\ \A x : \A n \in 0..Len(s) : KilledLater(x, n, r) <=> KilledLater(x, n, s) \/ Kills(f, x)
  BY MoreGiven, MoreKilled
<1>3. BindsSaid(m, f) /\ late \subseteq late'
  BY SaidWhatWasBound, PlainStays
<1> HIDE DEF v, w
<1>4. CASE Gives(f, i)
  <2>1. Given(f, i) = w
    BY <1>3, <1>4 DEF BindsSaid, w
  <2>2. Indexed(pg, r, i)
    BY <1>1, <1>2, <1>4 DEF Indexed
  <2>3. Settled(r, 0, i, Shown(pg, Row(i)), w)
    BY <1>1, <1>2, <1>4 DEF Settled
  <2>4. ASSUME NEW n \in 1..Len(r), Gives(r[n], i) PROVE Settled(r, n, i, Given(r[n], i), w)
    <3>1. CASE n \in 1..Len(s)
      BY <1>1, <1>2, <1>4, <3>1 DEF Settled
    <3>2. CASE n = Len(s) + 1
      BY <1>1, <2>1, <3>2 DEF Settled
    <3> QED
      BY <1>1, <3>1, <3>2
  <2>5. WillShow(pg, r, i, w)
    BY <2>3, <2>4 DEF WillShow
  <2> QED
    BY <2>2, <2>5 DEF RowTold, w
<1>5. CASE ~ Gives(f, i)
  <2>1. /\ i \in Rows(button_binds)
        /\ w = v \/ (w = Unbound /\ v # Unbound /\ Kills(f, v))
        /\ RowTold(pg, s, i)
    BY <1>3, <1>5 DEF BindsSaid, v, w
  <2>2. Indexed(pg, r, i)
    BY <1>1, <1>2, <1>5, <2>1 DEF RowTold, Indexed
  <2>3. ASSUME w.button_id \in Rows(remote_buttons')
                  \/ (w = Unbound /\ i <= InstalledMaps /\ i \notin late')
        PROVE  WillShow(pg, r, i, w)
    <3>1. /\ w = Unbound => Plain(i)
          /\ Unbound.button_id \notin Rows(remote_buttons')
      <4>1. Unbound.button_id \notin Rows(remote_buttons')
        BY Binds, Seqs DEF TablesOK, Rows
      <4> QED
        BY <1>3, <2>3, <4>1 DEF Plain
    <3>2. BindOK(v)
      BY <2>1 DEF TablesOK, v
    <3>3. InScope(i)
      <4>1. CASE w = v /\ w # Unbound
        <5>1. v.button_id \in Rows(remote_buttons)
          BY <2>3, <3>2, <4>1, WasThere
        <5> QED
          BY <5>1 DEF InScope, v
      <4>2. CASE w = v /\ w = Unbound
        BY <3>1, <4>2 DEF InScope, v
      <4>3. CASE w # v
        <5>1. Plain(i) /\ v # Unbound
          BY <2>1, <3>1, <4>3
        <5> QED
          BY <2>1, <5>1 DEF PlainRows, InScope, v
      <4> QED
        BY <4>1, <4>2, <4>3
    <3>4. WillShow(pg, s, i, v)
      BY <2>1, <3>3 DEF RowTold, v
    <3>5. ASSUME NEW n \in 0..Len(s), NEW x, Settled(s, n, i, x, v) PROVE Settled(r, n, i, x, w)
      <4>1. GivenLater(i, n, s) => GivenLater(i, n, r)
        BY <1>2
      <4>2. KilledLater(x, n, s) \/ Kills(f, x) => KilledLater(x, n, r)
        BY <1>2
      <4> QED
        BY <2>1, <3>5, <4>1, <4>2 DEF Settled
    <3>6. \A n \in 1..Len(r) : Gives(r[n], i) => n \in 1..Len(s) /\ r[n] = s[n]
      BY <1>1, <1>5
    <3> QED
      BY <1>1, <3>4, <3>5, <3>6 DEF WillShow
  <2> QED
    BY <2>2, <2>3 DEF RowTold, InScope, Plain, Rows, w
<1> QED
  BY <1>4, <1>5

LEMMA PendingTail ==
    ASSUME NEW s, IsSeq(s), s # <<>>, NEW i
    PROVE  Pending(s, i) <=> Binding(Head(s), i) \/ Pending(Tail(s), i)
<1>1. /\ Head(s) = s[1] /\ 1 \in 1..Len(s)
      /\ \A n \in 1..Len(Tail(s)) : n + 1 \in 1..Len(s) /\ Tail(s)[n] = s[n + 1]
      /\ \A n \in 1..Len(s) : n = 1 \/ (n - 1 \in 1..Len(Tail(s)) /\ s[n] = Tail(s)[n - 1])
  BY LaterTail
<1> QED
  BY <1>1 DEF Pending

\* A page is told of a bind by the time that the bind is no longer pending.
LEMMA RepliedBinds ==
    ASSUME TablesOK, PlainRows, Grow, TablesOK',
           NEW pg, PageIds(pg), NEW s, \A n \in 1..Len(s) : FrameOK(s[n]),
           NEW m, MessageOK(m), NEW f, Tabled(m, f), NEW r, OneMore(s, f, r), Told(pg, s),
           NEW out, NEW rest, \A i : Pending(out, i) => Binding(m, i) \/ Pending(rest, i),
           BindsTold(pg, s, out)
    PROVE  BindsTold(pg, r, rest)'
<1>1. ButtonsKnown(pg, s) /\ RowsTold(pg, s, out) /\ ButtonsTold(pg, s) /\ BindsSaid(m, f)
  BY SaidWhatWasBound DEF BindsTold, Told
<1>2. ButtonsKnown(pg, r)'
  BY <1>1, RepliedButtonsKnown
<1>3. ASSUME NEW i \in Rows(button_binds'), ~ Pending(rest, i) PROVE RowTold(pg, r, i)'
  <2>1. ~ Gives(f, i) /\ i \in Rows(button_binds) => RowTold(pg, s, i)
    BY <1>1, <1>3 DEF RowsTold, BindsSaid
  <2> QED
    BY <2>1, RepliedRow
<1>4. RowsTold(pg, r, rest)'
  BY <1>3 DEF RowsTold, Rows
<1> QED
  BY <1>2, <1>4 DEF BindsTold

LEMMA SameBinds ==
    ASSUME UNCHANGED tables, UNCHANGED late, NEW pg, NEW s, NEW out, BindsTold(pg, s, out)
    PROVE  BindsTold(pg, s, out)'
<1>1. UNCHANGED remotes /\ UNCHANGED remote_buttons /\ UNCHANGED button_binds
  BY DEF tables
<1>2. ButtonsKnown(pg, s)'
  BY <1>1 DEF BindsTold, ButtonsKnown, NewRows, ElementsKnown, FramesKnown, Rows, Plain
<1>3. RowsTold(pg, s, out)'
  BY <1>1 DEF BindsTold, RowsTold, RowTold, InScope, Rows, Plain
<1> QED
  BY <1>2, <1>3 DEF BindsTold

LEMMA BindsBecome ==
    ASSUME NEW q, NEW pg, page'[q] = pg, NEW s, inbox'[q] = s, NEW out, outbox'[q] = out,
           BindsTold(pg, s, out)'
    PROVE  BindsTold(page[q], inbox[q], outbox[q])'
<1>1. ButtonsKnown(page[q], inbox[q])'
  BY DEF BindsTold, ButtonsKnown, NewRows, ElementsKnown, FramesKnown
<1>2. RowsTold(page[q], inbox[q], outbox[q])'
  BY DEF BindsTold, RowsTold, RowTold
<1> QED
  BY <1>1, <1>2 DEF BindsTold

LEMMA MorePending ==
    ASSUME NEW pg, NEW s, NEW out, NEW rest, \A i : Pending(out, i) => Pending(rest, i),
           BindsTold(pg, s, out)
    PROVE  BindsTold(pg, s, rest)
BY DEF BindsTold, RowsTold

\* A page that has no part in a step that leaves the tables alone.
LEMMA StillBinds ==
    ASSUME UNCHANGED tables, UNCHANGED late, NEW q, BindsTold(page[q], inbox[q], outbox[q]),
           page'[q] = page[q], inbox'[q] = inbox[q],
           \A i : Pending(outbox[q], i) => Pending(outbox'[q], i)
    PROVE  BindsTold(page[q], inbox[q], outbox[q])'
<1>1. PICK pg, s, out, rest : pg = page[q] /\ s = inbox[q] /\ out = outbox[q] /\ rest = outbox'[q]
  OBVIOUS
<1>2. BindsTold(pg, s, rest)
  BY <1>1, MorePending
<1>3. BindsTold(pg, s, rest)'
  BY <1>2, SameBinds
<1> QED
  BY <1>1, <1>3, BindsBecome

AllBinds ==
    /\ PlainRows
    /\ \A p \in Conns : Fresh(p) => BindsTold(page[p], inbox[p], outbox[p])

LEMMA SamePlainRows == UNCHANGED tables /\ UNCHANGED late /\ PlainRows => PlainRows'
BY DEF tables, PlainRows, Plain, Rows

LEMMA AllBindsStep ==
    ASSUME TInv, TInv', AllTold, AllBinds, Next
    PROVE  AllBinds'
<1>1. PICK p \in Conns :
              \/ LoadPage(p)
              \/ Quiet(p)
              \/ Disconnect(p)
              \/ Receive(p)
              \/ \E messages, new : Edits(page[p], messages, new) /\ Edit(p, messages, new)
              \/ \E f : Reply(p, f) /\ Tabled(Head(outbox[p]), f) /\ TableKinds'
  BY Steps
<1>2. PlainRows'
  <2>1. ASSUME UNCHANGED tables, UNCHANGED late PROVE PlainRows'
    BY <2>1, SamePlainRows DEF AllBinds
  <2>2. CASE LoadPage(p)
    BY <2>1, <2>2 DEF LoadPage
  <2>3. CASE Quiet(p)
    BY <2>1, <2>3, QuietTInv DEF histories
  <2>4. CASE Disconnect(p)
    BY <2>1, <2>4, DisconnectTInv
  <2>5. CASE Receive(p)
    BY <2>1, <2>5, ReceiveTInv DEF histories
  <2>6. CASE \E messages, new : Edits(page[p], messages, new) /\ Edit(p, messages, new)
    BY <2>1, <2>6, EditTInv
  <2>7. ASSUME NEW f, Reply(p, f), Tabled(Head(outbox[p]), f), TableKinds'
        PROVE  PlainRows'
    <3>1. MessageOK(Head(outbox[p])) /\ TablesOK /\ PlainRows
      BY <2>7, ReplyTInv DEF TInv, AllBinds
    <3>2. PICK m : m = Head(outbox[p])
      OBVIOUS
    <3> QED
      BY <2>7, <3>1, <3>2, PlainStays
  <2> QED
    BY <1>1, <2>2, <2>3, <2>4, <2>5, <2>6, <2>7
<1> SUFFICES ASSUME NEW q \in Conns, q \notin missed', page'[q].up
             PROVE  BindsTold(page[q], inbox[q], outbox[q])'
  BY <1>2 DEF AllBinds, Fresh
<1>3. /\ TablesOK /\ TablesOK' /\ PlainRows /\ PageIds(page[q]) /\ PageIds(page[p])
      /\ IsSeq(inbox[q]) /\ IsSeq(inbox[p]) /\ IsSeq(outbox[p])
      /\ \A n \in 1..Len(inbox[q]) : FrameOK(inbox[q][n])
  BY DEF TInv, PagesOK, HubOK, StreamsIn, StreamsOK, AllBinds
<1>4. q \notin missed /\ page[q].up =>
         Told(page[q], inbox[q]) /\ BindsTold(page[q], inbox[q], outbox[q])
  BY DEF AllTold, AllBinds, Fresh
<1>5. CASE LoadPage(p)
  <2>1. /\ UNCHANGED tables /\ page'[p] = Loaded /\ missed' = missed \ {p}
        /\ UNCHANGED hubVars /\ inbox[p] = <<>> /\ UNCHANGED late
        /\ \A c \in Conns \ {p} : page'[c] = page[c]
    BY <1>5, LoadTInv DEF LoadPage
  <2>2. UNCHANGED inbox /\ UNCHANGED outbox
    BY <2>1 DEF hubVars
  <2>3. CASE q = p
    <3>1. PICK pg, s, out : pg = Loaded /\ s = <<>> /\ out = outbox[p]
      OBVIOUS
    <3>2. IsLoaded(pg)
      BY <1>3, <2>1, <2>3, <3>1, LoadedItems
    <3>3. BindsTold(pg, s, out)'
      BY <1>3, <2>1, <3>1, <3>2, LoadedBinds, SameBinds
    <3> QED
      BY <2>1, <2>2, <2>3, <3>1, <3>3, BindsBecome
  <2>4. CASE q # p
    BY <1>4, <2>1, <2>2, <2>4, StillBinds
  <2> QED
    BY <2>3, <2>4
<1>6. CASE Quiet(p)
  <2>1. /\ UNCHANGED inbox /\ UNCHANGED tables /\ UNCHANGED page
        /\ UNCHANGED missed /\ UNCHANGED late
        /\ \A c \in Conns \ {p} : outbox'[c] = outbox[c]
        /\ \/ outbox'[p] = outbox[p]
           \/ /\ outbox[p] # <<>> /\ outbox'[p] = Tail(outbox[p])
              /\ Head(outbox[p]).type # "save_button_map"
    BY <1>6, QuietTInv DEF histories
  <2>2. \A i : Pending(outbox[q], i) => Pending(outbox'[q], i)
    <3>1. CASE outbox'[q] = outbox[q]
      BY <3>1
    <3>2. CASE outbox'[q] # outbox[q]
      <4>1. /\ q = p /\ outbox[p] # <<>> /\ outbox'[p] = Tail(outbox[p])
            /\ Head(outbox[p]).type # "save_button_map"
        BY <2>1, <3>2
      <4>2. \A i : ~ Binding(Head(outbox[p]), i)
        BY <4>1 DEF Binding
      <4> QED
        BY <1>3, <4>1, <4>2, PendingTail
    <3> QED
      BY <3>1, <3>2
  <2> QED
    BY <1>4, <2>1, <2>2, StillBinds
<1>7. CASE Disconnect(p)
  <2>1. /\ UNCHANGED tables /\ UNCHANGED page /\ UNCHANGED late
        /\ missed' = IF inbox[p] = <<>> /\ outbox[p] = <<>> THEN missed ELSE missed \cup {p}
        /\ inbox'[p] = <<>> /\ \A c \in Conns \ {p} : inbox'[c] = inbox[c]
        /\ \A c \in Conns \ {p} : outbox'[c] = outbox[c]
    BY <1>7, DisconnectTInv
  <2>2. q \notin missed /\ inbox'[q] = inbox[q]
    BY <2>1
  <2>3. \A i : Pending(outbox[q], i) => Pending(outbox'[q], i)
    BY <2>1, NothingLater
  <2> QED
    BY <1>4, <2>1, <2>2, <2>3, StillBinds
<1>8. CASE Receive(p)
  <2>1. /\ UNCHANGED tables /\ UNCHANGED missed /\ UNCHANGED late /\ UNCHANGED outbox
        /\ inbox[p] # <<>> /\ inbox'[p] = Tail(inbox[p])
        /\ FrameOK(Head(inbox[p]))
        /\ \A c \in Conns \ {p} : inbox'[c] = inbox[c] /\ page'[c] = page[c]
        /\ Receives(page[p], Head(inbox[p]), page'[p])
        /\ page'[p].up = page[p].up
    BY <1>8, ReceiveTInv DEF histories
  <2>2. CASE q = p
    <3>1. PICK pg, s, new, out :
             pg = page[p] /\ s = inbox[p] /\ new = page'[p] /\ out = outbox[p]
      OBVIOUS
    <3>2. BindsTold(new, Tail(s), out)
      BY <1>3, <1>4, <2>1, <2>2, <3>1, ReceivedBinds
    <3>3. PICK rest : rest = Tail(s)
      OBVIOUS
    <3>4. BindsTold(new, rest, out)'
      BY <2>1, <3>2, <3>3, SameBinds
    <3> QED
      BY <2>1, <2>2, <3>1, <3>3, <3>4, BindsBecome
  <2>3. CASE q # p
    BY <1>4, <2>1, <2>3, StillBinds
  <2> QED
    BY <2>2, <2>3
<1>9. ASSUME NEW messages, NEW new, Edits(page[p], messages, new), Edit(p, messages, new)
      PROVE  BindsTold(page[q], inbox[q], outbox[q])'
  <2>1. /\ UNCHANGED tables /\ UNCHANGED missed /\ UNCHANGED inbox /\ UNCHANGED late
        /\ page'[p] = new /\ outbox'[p] = outbox[p] \o messages
        /\ \A c \in Conns \ {p} : page'[c] = page[c] /\ outbox'[c] = outbox[c]
    BY <1>9, EditTInv
  <2>2. CASE q = p
    <3>1. PICK pg, s, out, rest :
             pg = page[p] /\ s = inbox[p] /\ out = outbox[p] /\ rest = out \o messages
      OBVIOUS
    <3>2. page[p].up = new.up
      BY <1>9 DEF Edits, Touches
    <3>3. BindsTold(pg, s, out) /\ IsSeq(out) /\ PageIds(pg) /\ Edits(pg, messages, new)
      BY <1>3, <1>4, <1>9, <2>1, <2>2, <3>1, <3>2
    <3>4. BindsTold(new, s, rest)
      BY <1>3, <3>1, <3>3, EditBinds
    <3>5. BindsTold(new, s, rest)'
      BY <2>1, <3>4, SameBinds
    <3> QED
      BY <2>1, <2>2, <3>1, <3>5, BindsBecome
  <2>3. CASE q # p
    BY <1>4, <2>1, <2>3, StillBinds
  <2> QED
    BY <2>2, <2>3
<1>10. ASSUME NEW f, Reply(p, f), Tabled(Head(outbox[p]), f), TableKinds'
       PROVE  BindsTold(page[q], inbox[q], outbox[q])'
  <2>1. /\ UNCHANGED page /\ Grow
        /\ missed' = missed \cup {c \in Conns : link[c] # "open"}
        /\ inbox'[q] = IF link[q] = "open" THEN Append(inbox[q], f) ELSE inbox[q]
        /\ \A c \in Conns \ {p} : outbox'[c] = outbox[c]
        /\ outbox[p] # <<>> /\ outbox'[p] = Tail(outbox[p])
        /\ MessageOK(Head(outbox[p]))
    BY <1>10, ReplyTInv
  <2>2. q \notin missed /\ page[q].up /\ inbox'[q] = Append(inbox[q], f)
    BY <2>1
  <2>3. PICK m, pg, s, r, out, rest :
           /\ m = Head(outbox[p]) /\ pg = page[q] /\ s = inbox[q] /\ r = Append(s, f)
           /\ out = outbox[q] /\ rest = outbox'[q]
    OBVIOUS
  <2>4. OneMore(s, f, r)
    BY <1>3, <2>3, LaterAppend
  <2>5. \A i : Pending(out, i) => Binding(m, i) \/ Pending(rest, i)
    <3>1. CASE q = p
      BY <1>3, <2>1, <2>3, <3>1, PendingTail
    <3>2. CASE q # p
      BY <2>1, <2>3, <3>2
    <3> QED
      BY <3>1, <3>2
  <2>6. /\ Told(pg, s) /\ BindsTold(pg, s, out)
        /\ PageIds(pg) /\ \A n \in 1..Len(s) : FrameOK(s[n])
        /\ MessageOK(m) /\ Tabled(m, f)
    BY <1>3, <1>4, <1>10, <2>1, <2>2, <2>3
  <2>7. BindsTold(pg, r, rest)'
    BY <1>3, <2>1, <2>4, <2>5, <2>6, RepliedBinds
  <2> QED
    BY <2>1, <2>2, <2>3, <2>7, BindsBecome
<1> QED
  BY <1>1, <1>5, <1>6, <1>7, <1>8, <1>9, <1>10

LEMMA InitAllBinds == Init => AllBinds
<1> SUFFICES ASSUME Init PROVE AllBinds
  OBVIOUS
<1>1. PlainRows
  BY DEF Init, PlainRows, Rows
<1> QED
  BY <1>1 DEF Init, AllBinds, Fresh

LEMMA SameAllBinds == AllBinds /\ UNCHANGED vars => AllBinds'
<1> SUFFICES ASSUME AllBinds, UNCHANGED vars PROVE AllBinds'
  OBVIOUS
<1>1. /\ UNCHANGED tables /\ UNCHANGED page /\ UNCHANGED missed /\ UNCHANGED late
      /\ UNCHANGED inbox /\ UNCHANGED outbox
  BY DEF vars, tables, hubVars
<1>2. PlainRows'
  BY <1>1, SamePlainRows DEF AllBinds
<1>3. ASSUME NEW q \in Conns, q \notin missed', page'[q].up
      PROVE  BindsTold(page[q], inbox[q], outbox[q])'
  BY <1>1, <1>3, StillBinds DEF AllBinds, Fresh
<1> QED
  BY <1>2, <1>3 DEF AllBinds, Fresh

LEMMA AllBindsInductive == Spec => []AllBinds
<1>1. TInv /\ TInv' /\ AllTold /\ AllBinds /\ [Next]_vars => AllBinds'
  BY AllBindsStep, SameAllBinds
<1> QED
  BY <1>1, InitAllBinds, TInvInductive, AllToldInductive, PTL DEF Spec

\* A page in sync shows what the rows are bound to: for every number of pages, maps,
\* buttons and edits, however the binds by several pages and the deletions of buttons
\* and of remotes are mixed, with the two exceptions that the property names.
THEOREM PagesShowTheBinds == Spec => []BindingsAgree
<1>1. TInv /\ AllTold /\ AllBinds => BindingsAgree
  <2> SUFFICES ASSUME TInv, AllTold, AllBinds, NEW p \in Conns, InSync(p),
                      NEW i \in Rows(button_binds)
               PROVE  /\ button_binds.rows[i].button_id \in Rows(remote_buttons) =>
                            page[p].maps[Row(i)].bind = button_binds.rows[i]
                      /\ button_binds.rows[i] = Unbound /\ Plain(i) =>
                            page[p].maps[Row(i)].bind = Unbound
    BY DEF BindingsAgree, Rows, Plain
  <2>1. Fresh(p) /\ inbox[p] = <<>> /\ outbox[p] = <<>>
    BY DEF InSync, Current, Fresh, TInv, PagesOK
  <2>2. BindsTold(page[p], <<>>, <<>>)
    BY <2>1 DEF AllBinds
  <2>3. Row(i) \in DOMAIN page[p].maps
    BY NothingToTell, NothingOnWay DEF Told, MapsTold
  <2>4. RowTold(page[p], <<>>, i)
    BY <2>2, NothingLater DEF BindsTold, RowsTold
  <2>5. InScope(i) => Shown(page[p], Row(i)) = button_binds.rows[i]
    BY <2>4, NothingLater DEF RowTold, WillShow, Settled
  <2> QED
    BY <2>3, <2>5 DEF InScope, Shown
<1> QED
  BY <1>1, AllBindsInductive, AllToldInductive, TInvInductive, PTL

=============================================================================
