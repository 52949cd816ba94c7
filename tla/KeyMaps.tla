------------------------------ MODULE KeyMaps ------------------------------
(***************************************************************************)
(* Keys that users map to remote buttons, for each activity.  A page has   *)
(* them twice: in the dict key_maps, for all activities, and as the list   *)
(* of the activity it shows.  Saving a map tells the other pages nothing   *)
(* but an id and a key; deleting one is broadcast with its activity.       *)
(*                                                                         *)
(* Edit mode is on and pages do not edit while their connection is down.   *)
(* A button stands for its remote too.                                     *)
(***************************************************************************)
EXTENDS Realtime, SqlTables, Functions

CONSTANTS
    Activities,
    KeyCodes,
    Buttons,         \* remote_buttons at the start
    InstalledMaps,   \* key_binds at the start, a sequence of rows
    MaxEdits         \* bound of the model: the number of edits by users

\* The table has one map for a key of an activity, as WebRemoteStore keeps it.  Ids
\* of buttons start at 1.
ASSUME InstalledAssumption ==
    /\ InstalledMaps \in
          Seq([activity_id: Activities, key_code: KeyCodes, button_id: Buttons])
    /\ \A i, j \in DOMAIN InstalledMaps :
          /\ InstalledMaps[i].activity_id = InstalledMaps[j].activity_id
          /\ InstalledMaps[i].key_code = InstalledMaps[j].key_code
          => i = j
    /\ Null \notin Buttons
    /\ MaxEdits \in Nat

ASSUME KeysAssumption == IsFiniteSet(KeyCodes)

VARIABLES
    buttons,     \* the table remote_buttons
    key_binds,   \* the table of that name
    page,        \* for each connection, the page behind it
    edits,       \* how many edits users have made
    missed,      \* history: the pages that may have missed a change
    overruled    \* history: page, activity, key: mapped on another page since

tables == <<buttons, key_binds>>
vars == <<hubVars, tables, page, edits, missed, overruled>>

-----------------------------------------------------------------------------
(***************************************************************************)
(* Names of list items, and messages.                                      *)
(***************************************************************************)
Row(i)   == <<"k", i>>       \* "k5"
Temp(n)  == <<"tempk", n>>   \* "tempk0", of a map that was never saved

\* 'k' + id, as the id is in key_maps: there a new map keeps the id tempk<n>.
Listed(id) == IF id[1] = "tempk" THEN <<"ktempk", id[2]>> ELSE id

SaveMap(a, k, b) == [type |-> "save_key_map", activity_id |-> a, key_code |-> k, button_id |-> b]
DropButton(b)    == [type |-> "delete_remote_button", id |-> b]

\* The server gets the id; which map the user saw is kept for the properties.
DeleteMap(id, a, k) == [type |-> "delete_key_map", id |-> id, seen |-> <<a, k>>]

Saved(i, k)      == [type |-> "saved", id |-> i, key_code |-> k]
MapGone(i, a, k) == [type |-> "map_gone", id |-> i, activity_id |-> a, key_code |-> k]
NoMap(id)        == [type |-> "no_map", id |-> id]
ButtonGone(b)    == [type |-> "button_gone", id |-> b]

-----------------------------------------------------------------------------
(***************************************************************************)
(* A page.                                                                 *)
(*   activity   the one whose keys are listed                              *)
(*   key_maps   for each activity, the maps by key                         *)
(*   list       the items of the list, hidden ones too                     *)
(*   buttons    the ids that it knows of                                   *)
(*   temp_id    the next temporary name                                    *)
(***************************************************************************)
NoPage == [activity |-> "none", key_maps |-> [a \in Activities |-> <<>>],
           list |-> <<>>, buttons |-> {}, loaded |-> {}, temp_id |-> 0]

\* The maps of an activity that can be listed: the others have no button, or none
\* that exists, and the loop over them breaks off at the first.
Listable(pg, a) ==
    {k \in DOMAIN pg.key_maps[a] : pg.key_maps[a][k].button_id \in pg.buttons}

Item(id, k, b) == [id |-> id, key_code |-> k, button_id |-> b, hidden |-> FALSE]

display_key_maps(pg, a, shown) ==
    [pg EXCEPT !.activity = a,
               !.list = [n \in DOMAIN shown |->
                   Item(Listed(pg.key_maps[a][shown[n]].id), shown[n],
                        pg.key_maps[a][shown[n]].button_id)]]

\* The orders in which items may come, all of them unless the loop breaks off.
Shown(pg, a) ==
    IF Listable(pg, a) = DOMAIN pg.key_maps[a]
    THEN {SetToSeq(Listable(pg, a))}
    ELSE {SetToSeq(keys) : keys \in SUBSET Listable(pg, a)}

save_key_map_callback_First(pg, i, k) ==       \* mutant: whichever item comes first
    [pg EXCEPT !.list = [n \in DOMAIN @ |->
        IF n = 1 THEN [@[n] EXCEPT !.id = Row(i)] ELSE @[n]]]

\* Every item of the key gets the id, in whichever activity it is.
save_key_map_callback(pg, i, k) ==
    [pg EXCEPT !.list = [n \in DOMAIN @ |->
        IF @[n].key_code = k THEN [@[n] EXCEPT !.id = Row(i)] ELSE @[n]]]

\* The first element of that id.
hide(list, id) ==
    [n \in DOMAIN list |->
        IF list[n].id = id /\ \A j \in 1..(n - 1) : list[j].id # id
        THEN [list[n] EXCEPT !.hidden = TRUE] ELSE list[n]]

Without(f, keys) == Restrict(f, DOMAIN f \ keys)

delete_key_map_callback_Listed(pg, frame) ==   \* mutant: in the activity that is listed
    IF frame.type = "no_map" \/ pg.activity \notin Activities
    THEN [pg EXCEPT !.list = hide(@, frame.id)]
    ELSE [pg EXCEPT !.key_maps[pg.activity] = Without(@, {frame.key_code}),
                    !.list = hide(@, Row(frame.id))]

\* Without a row the server returns the id, which is no dict: then the item goes,
\* and its map stays in key_maps.
delete_key_map_callback(pg, frame) ==
    IF frame.type = "no_map" THEN [pg EXCEPT !.list = hide(@, frame.id)]
    ELSE [pg EXCEPT !.key_maps[frame.activity_id] = Without(@, {frame.key_code}),
                    !.list = hide(@, Row(frame.id))]

delete_remote_button_callback_ListOnly(pg, b) ==  \* mutant: the dict keeps its maps
    [pg EXCEPT !.list = [n \in DOMAIN @ |->
                   IF @[n].button_id = b THEN [@[n] EXCEPT !.hidden = TRUE] ELSE @[n]],
               !.buttons = @ \ {b}]

delete_remote_button_callback(pg, b) ==
    [pg EXCEPT !.key_maps = [a \in Activities |->
                   Without(@[a], {k \in DOMAIN @[a] : @[a][k].button_id = b})],
               !.list = [n \in DOMAIN @ |->
                   IF @[n].button_id = b THEN [@[n] EXCEPT !.hidden = TRUE] ELSE @[n]],
               !.buttons = @ \ {b}]

ws_onmessage(pg, frame) ==
    CASE frame.type = "saved" -> save_key_map_callback(pg, frame.id, frame.key_code)
      [] frame.type \in {"map_gone", "no_map"} -> delete_key_map_callback(pg, frame)
      [] frame.type = "button_gone" -> delete_remote_button_callback(pg, frame.id)

-----------------------------------------------------------------------------
Init ==
    /\ HubInit
    /\ buttons = Buttons
    /\ key_binds = [seq |-> Len(InstalledMaps), rows |-> InstalledMaps]
    /\ page = [p \in Conns |-> NoPage]
    /\ edits = 0
    /\ missed = Conns
    /\ overruled = {}

\* The ids of an activity's rows, one for each key.
RowsOf(a)    == {i \in DOMAIN key_binds.rows : key_binds.rows[i].activity_id = a}
RowOf(a, k)  == {i \in RowsOf(a) : key_binds.rows[i].key_code = k}

\* A page whose first activity has a map that cannot be listed does not get up.
LoadPage(p) ==
    /\ link[p] = "closed"
    /\ \E a \in Activities :
          LET maps(c) == [k \in {key_binds.rows[i].key_code : i \in RowsOf(c)} |->
                  LET i == CHOOSE i \in RowOf(c, k) : TRUE
                  IN  [id |-> Row(i), button_id |-> key_binds.rows[i].button_id]]
              pg == [NoPage EXCEPT !.key_maps = [c \in Activities |-> maps(c)],
                                   !.buttons = buttons, !.loaded = buttons]
          IN  /\ Listable(pg, a) = DOMAIN pg.key_maps[a]
              /\ \E shown \in Shown(pg, a) :
                    page' = [page EXCEPT ![p] = display_key_maps(pg, a, shown)]
    /\ missed' = missed \ {p}
    /\ overruled' = {o \in overruled : o[1] # p}
    /\ UNCHANGED <<hubVars, tables, edits>>

Connect(p) ==
    /\ page[p] # NoPage
    /\ Open(p)
    /\ UNCHANGED <<tables, page, edits, missed, overruled>>

Disconnect(p) ==
    /\ Lose(p)
    /\ missed' = IF inbox[p] = <<>> /\ outbox[p] = <<>> THEN missed ELSE missed \cup {p}
    /\ UNCHANGED <<tables, page, edits, overruled>>

NoticeClose(p) == OnClose(p) /\ UNCHANGED <<tables, page, edits, missed, overruled>>

Receive(p) ==
    /\ Deliver(p)
    /\ page' = [page EXCEPT ![p] = ws_onmessage(@, Head(inbox[p]))]
    /\ UNCHANGED <<tables, edits, missed, overruled>>

(***************************************************************************)
(* Users edit.                                                             *)
(***************************************************************************)
SwitchActivity(p, a) ==
    /\ link[p] = "open"
    /\ a # page[p].activity
    /\ \E shown \in Shown(page[p], a) :
          page' = [page EXCEPT ![p] = display_key_maps(@, a, shown)]
    /\ UNCHANGED <<hubVars, tables, edits, missed, overruled>>

Edit(p, messages, new) ==
    /\ edits < MaxEdits
    /\ edits' = edits + 1
    /\ Send(p, messages)
    /\ page' = [page EXCEPT ![p] = new]
    /\ UNCHANGED <<tables, missed, overruled>>

\* The user asks for a new map, and presses its key.
add_key_map(p, k) ==
    LET pg == page[p]
        id == Temp(pg.temp_id)
    IN  /\ k \notin DOMAIN pg.key_maps[pg.activity]
        /\ Edit(p, <<>>,
               [pg EXCEPT !.list = Append(@, Item(id, k, Null)),
                          !.key_maps[pg.activity] =
                              [j \in DOMAIN @ \cup {k} |->
                                  IF j = k THEN [id |-> id, button_id |-> Null] ELSE @[j]],
                          !.temp_id = @ + 1])

\* An item whose map was deleted meanwhile shows the button, and nothing is saved.
map_key(p, n, b) ==
    LET pg == page[p]
        a  == pg.activity
        k  == pg.list[n].key_code
    IN  IF k \in DOMAIN pg.key_maps[a]
        THEN Edit(p, <<SaveMap(a, k, b)>>,
                 [pg EXCEPT !.list[n].button_id = b, !.key_maps[a][k].button_id = b])
        ELSE Edit(p, <<>>, [pg EXCEPT !.list[n].button_id = b])

TrashMap(p, n) ==
    LET item == page[p].list[n]
    IN  Edit(p, <<DeleteMap(item.id, page[p].activity, item.key_code)>>, page[p])

TrashButton(p, b) == Edit(p, <<DropButton(b)>>, page[p])

Visible(pg) == {n \in DOMAIN pg.list : ~ pg.list[n].hidden}

(***************************************************************************)
(* The server handles the first message of a connection.                   *)
(***************************************************************************)
Message(p, type) == HasMessage(p) /\ Head(outbox[p]).type = type

Reply(p, frame) ==
    /\ OnMessage(p, frame)
    /\ missed' = missed \cup {q \in Conns : link[q] # "open"}
    /\ UNCHANGED <<page, edits>>

RowFor(m) ==
    [activity_id |-> m.activity_id, key_code |-> m.key_code, button_id |-> m.button_id]

save_key_map_Always(m) == Insert(key_binds, RowFor(m))  \* mutant: never updates

save_key_map(m) ==
    LET found == RowOf(m.activity_id, m.key_code)
    IN  IF found # {} THEN Assign(key_binds, found, RowFor(m))
                      ELSE Insert(key_binds, RowFor(m))

\* The reply is about the last row of the table, whichever row was saved.
HandleSave(p) ==
    /\ Message(p, "save_key_map")
    /\ LET m    == Head(outbox[p])
           last == Max(DOMAIN key_binds'.rows)
       IN  /\ key_binds' = save_key_map(m)
           /\ Reply(p, Saved(last, key_binds'.rows[last].key_code))
           /\ overruled' = (overruled \ {<<p, m.activity_id, m.key_code>>}) \cup
                 {<<q, m.activity_id, m.key_code>> : q \in Conns \ {p}}
    /\ UNCHANGED buttons

HandleDelete(p) ==
    /\ Message(p, "delete_key_map")
    /\ LET id == Head(outbox[p]).id
       IN  IF id[1] = "k" /\ id[2] \in DOMAIN key_binds.rows
           THEN /\ key_binds' = Delete(key_binds, {id[2]})
                /\ Reply(p, MapGone(id[2], key_binds.rows[id[2]].activity_id,
                                    key_binds.rows[id[2]].key_code))
           ELSE Reply(p, NoMap(id)) /\ UNCHANGED key_binds
    /\ UNCHANGED <<buttons, overruled>>

HandleDeleteButton(p) ==
    /\ Message(p, "delete_remote_button")
    /\ LET b == Head(outbox[p]).id
       IN  IF b \in buttons
           THEN /\ buttons' = buttons \ {b}
                /\ key_binds' = Delete(key_binds, Having(key_binds, "button_id", b))
                /\ Reply(p, ButtonGone(b))
                /\ UNCHANGED overruled
           ELSE /\ OnMessageDropped(p)
                /\ UNCHANGED <<tables, page, edits, missed, overruled>>

Handle(p) == HandleSave(p) \/ HandleDelete(p) \/ HandleDeleteButton(p)

Next ==
    \E p \in Conns :
        \/ LoadPage(p)
        \/ Connect(p)
        \/ Disconnect(p)
        \/ NoticeClose(p)
        \/ Receive(p)
        \/ \E a \in Activities : SwitchActivity(p, a)
        \/ \E k \in KeyCodes : page[p] # NoPage /\ add_key_map(p, k)
        \/ \E n \in Visible(page[p]), b \in page[p].buttons : map_key(p, n, b)
        \/ \E n \in Visible(page[p]) : TrashMap(p, n)
        \/ \E b \in page[p].buttons : TrashButton(p, b)
        \/ Handle(p)

Spec == Init /\ [][Next]_vars
-----------------------------------------------------------------------------
(***************************************************************************)
(* Properties                                                              *)
(***************************************************************************)
Ids == {"k", "tempk", "ktempk"} \X Nat

PageOK(pg) ==
    /\ pg.activity \in Activities \cup {"none"}
    /\ \A n \in DOMAIN pg.list :
          pg.list[n].id \in Ids /\ pg.list[n].key_code \in KeyCodes
    /\ \A a \in Activities : DOMAIN pg.key_maps[a] \subseteq KeyCodes
    /\ pg.buttons \subseteq Buttons

\* A key has one row in an activity, whatever pages save for it at once.
TypeOK ==
    /\ DOMAIN key_binds.rows \subseteq 1..key_binds.seq
    /\ \A a \in Activities, k \in KeyCodes : Cardinality(RowOf(a, k)) <= 1
    /\ \A p \in Conns : PageOK(page[p])
    /\ buttons \subseteq Buttons
    /\ edits \in 0..MaxEdits

\* A page that has missed nothing, with nothing on its way to or from the server.
InSync(p) == link[p] = "open" /\ p \notin missed /\ inbox[p] = <<>> /\ outbox[p] = <<>>

\* A page in sync maps no key to a button that was deleted while it was open, in the
\* activity it lists or in another, whichever pages had mapped keys to it meanwhile.
GoneButtonsUnmapped ==
    \A p \in Conns : InSync(p) =>
        LET mapped == {page[p].list[n].button_id : n \in Visible(page[p])} \cup
                UNION {{page[p].key_maps[a][k].button_id : k \in DOMAIN page[p].key_maps[a]} :
                          a \in Activities}
        IN  mapped \cap page[p].loaded \subseteq buttons

\* What a page in sync does when a key is pressed is what the tables say: each key
\* that it has mapped has a row, with that button; unless another page mapped the
\* key after this page did, which it is not told.
KeysAgree ==
    \A p \in Conns : InSync(p) =>
        \A a \in Activities : \A k \in DOMAIN page[p].key_maps[a] :
            LET b == page[p].key_maps[a][k].button_id
            IN  b # Null /\ <<p, a, k>> \notin overruled =>
                    \E i \in RowOf(a, k) : key_binds.rows[i].button_id = b

\* The id under which a page lists a key is never that of another key's row.
IdsNameTheirKey ==
    \A p \in Conns : \A n \in DOMAIN page[p].list :
        LET item == page[p].list[n]
        IN  item.id \in {Row(i) : i \in DOMAIN key_binds.rows} =>
                key_binds.rows[item.id[2]].key_code = item.key_code

\* "Are you sure you want to delete this key map?": the map that is deleted by its
\* id is the one that the user saw in the trash, of that key and of that activity.
DeletesTheMapSeen ==
    \A p \in Conns : \A n \in DOMAIN outbox[p] :
        LET m == outbox[p][n]
        IN  m.type = "delete_key_map" /\ m.id \in {Row(i) : i \in DOMAIN key_binds.rows} =>
                m.id[2] \in RowOf(m.seen[1], m.seen[2])
=============================================================================
