----------------------------- MODULE VoiceMaps -----------------------------
(***************************************************************************)
(* Spoken commands that users map to remote buttons.  A page lists those   *)
(* of the activity it shows, each in an element that is named for its row, *)
(* and keeps them in the dict voice_maps, from which the list is built     *)
(* again when the user comes back to the activity.                         *)
(*                                                                         *)
(* There is one activity; edit mode is on; pages do not edit while their   *)
(* connection is down.  A button stands for its remote too.                *)
(***************************************************************************)
EXTENDS Realtime, SqlTables, Functions

CONSTANTS
    Names,           \* what users say
    Buttons,
    InstalledMaps,   \* voice_binds at the start, a sequence of rows
    MaxEdits         \* bound of the model: the number of edits by users

\* The dict has no name for a map that the page added itself.  Its element is shown as
\* "undefined" and has no name attribute, and a message about it has no name either.
Unnamed == "undefined"

ASSUME VoiceAssumption ==
    /\ Unnamed \notin Names
    /\ InstalledMaps \in Seq([name: Names, button_id: Buttons])
    /\ MaxEdits \in Nat

VARIABLES
    voice_binds,  \* the table of that name
    page,         \* for each connection, the page behind it
    edits,        \* how many edits users have made
    missed,       \* history: the pages that may have missed a change
    upto          \* history: the last id there was when each page was loaded

vars == <<hubVars, voice_binds, page, edits, missed, upto>>

-----------------------------------------------------------------------------
(***************************************************************************)
(* Names of elements and of entries of the dict, and messages.             *)
(***************************************************************************)
Row(i)  == <<"row", i>>    \* "voice_map5" and "5"
Temp(n) == <<"temp", n>>   \* "voice_maptemp0" and "temp0"

\* save_voice_map: an element that is still named temp<n> is saved as a new row.
SaveMap(item) == [type |-> "save_voice_map", id |-> item.id, name |-> item.name,
                  button_id |-> item.button_id]

\* The server gets the id; which name the user saw is kept for the property.
DeleteMap(item) == [type |-> "delete_voice_map", id |-> item.id, seen |-> item.name]

Inserted(i) == [type |-> "inserted", id |-> i]
Updated     == [type |-> "updated"]
MapGone(i)  == [type |-> "map_gone", id |-> Row(i)]
NoMap(id)   == [type |-> "no_map", id |-> id]

-----------------------------------------------------------------------------
(***************************************************************************)
(* A page.                                                                 *)
(*   loaded      whether there is one                                      *)
(*   voice_maps  the dict: entries by name                                 *)
(*   list        the elements, each with its entry's name (map_id), hidden *)
(*               ones too; pending is the class save_voice_map             *)
(*   temp_id     the next temporary name                                   *)
(***************************************************************************)
NoPage == [loaded |-> FALSE, voice_maps |-> <<>>, list |-> <<>>, temp_id |-> 0]

Item(id, name, b) == [id |-> id, map_id |-> id, name |-> name, button_id |-> b,
                      pending |-> FALSE, hidden |-> FALSE]

Listable(pg) == {id \in DOMAIN pg.voice_maps : pg.voice_maps[id].button_id # Null}

display_voice_maps(pg, shown) ==
    [pg EXCEPT !.list = [n \in DOMAIN shown |->
        Item(shown[n], pg.voice_maps[shown[n]].name, pg.voice_maps[shown[n]].button_id)]]

\* The order in which entries are listed; the loop breaks off at an unbound one.
Shown(pg) ==
    IF Listable(pg) = DOMAIN pg.voice_maps
    THEN {SetToSeq(Listable(pg))}
    ELSE {SetToSeq(ids) : ids \in SUBSET Listable(pg)}

IsFirst(list, n, id) == list[n].id = id /\ \A j \in 1..(n - 1) : list[j].id # id

\* Every pending element gets the id, and the first of that name ceases to be
\* pending.  The reply to an update has no id, and none ceases to be.
save_voice_map_callback(pg, frame) ==
    IF frame = Updated THEN pg
    ELSE LET id      == Row(frame.id)
             renamed == [n \in DOMAIN pg.list |->
                 IF pg.list[n].pending THEN [pg.list[n] EXCEPT !.id = id] ELSE pg.list[n]]
         IN  [pg EXCEPT !.list = [n \in DOMAIN renamed |->
                 IF IsFirst(renamed, n, id)
                 THEN [renamed[n] EXCEPT !.pending = FALSE] ELSE renamed[n]]]

hide(list, id) ==
    [n \in DOMAIN list |->
        IF IsFirst(list, n, id) THEN [list[n] EXCEPT !.hidden = TRUE] ELSE list[n]]

delete_voice_map_callback_ListOnly(pg, frame) ==  \* mutant: the dict keeps the map
    [pg EXCEPT !.list = hide(@, frame.id)]

delete_voice_map_callback(pg, frame) ==
    IF frame.type = "no_map" THEN [pg EXCEPT !.list = hide(@, frame.id)]
    ELSE [pg EXCEPT !.voice_maps = Restrict(@, DOMAIN @ \ {frame.id}),
                    !.list = hide(@, frame.id)]

ws_onmessage(pg, frame) ==
    IF frame.type \in {"inserted", "updated"} THEN save_voice_map_callback(pg, frame)
    ELSE delete_voice_map_callback(pg, frame)

-----------------------------------------------------------------------------
Init ==
    /\ HubInit
    /\ voice_binds = [seq |-> Len(InstalledMaps), rows |-> InstalledMaps]
    /\ page = [p \in Conns |-> NoPage]
    /\ edits = 0
    /\ missed = Conns
    /\ upto = [p \in Conns |-> 0]

LoadPage(p) ==
    /\ link[p] = "closed"
    /\ LET ids == {Row(i) : i \in DOMAIN voice_binds.rows}
           pg  == [NoPage EXCEPT !.loaded = TRUE,
                                 !.voice_maps = [id \in ids |-> voice_binds.rows[id[2]]]]
       IN  \E shown \in Shown(pg) :
               page' = [page EXCEPT ![p] = display_voice_maps(pg, shown)]
    /\ missed' = missed \ {p}
    /\ upto' = [upto EXCEPT ![p] = voice_binds.seq]
    /\ UNCHANGED <<hubVars, voice_binds, edits>>

Connect(p) ==
    /\ page[p].loaded
    /\ Open(p)
    /\ UNCHANGED <<voice_binds, page, edits, missed, upto>>

Disconnect(p) ==
    /\ Lose(p)
    /\ missed' = IF inbox[p] = <<>> /\ outbox[p] = <<>> THEN missed ELSE missed \cup {p}
    /\ UNCHANGED <<voice_binds, page, edits, upto>>

NoticeClose(p) == OnClose(p) /\ UNCHANGED <<voice_binds, page, edits, missed, upto>>

Receive(p) ==
    /\ Deliver(p)
    /\ page' = [page EXCEPT ![p] = ws_onmessage(@, Head(inbox[p]))]
    /\ UNCHANGED <<voice_binds, edits, missed, upto>>

(***************************************************************************)
(* Users edit.                                                             *)
(***************************************************************************)
\* The user leaves the activity and comes back to it.
ComeBack(p) ==
    /\ link[p] = "open"
    /\ \E shown \in Shown(page[p]) :
           page' = [page EXCEPT ![p] = display_voice_maps(@, shown)]
    /\ UNCHANGED <<hubVars, voice_binds, edits, missed, upto>>

Edit(p, messages, new) ==
    /\ edits < MaxEdits
    /\ edits' = edits + 1
    /\ Send(p, messages)
    /\ page' = [page EXCEPT ![p] = new]
    /\ UNCHANGED <<voice_binds, missed, upto>>

add_voice_map(p, name) ==
    LET pg == page[p]
        id == Temp(pg.temp_id)
    IN  Edit(p, <<>>,
            [pg EXCEPT !.list = Append(@, Item(id, name, Null)),
                       !.voice_maps = [i \in DOMAIN @ \cup {id} |->
                           IF i = id THEN [name |-> Unnamed, button_id |-> Null] ELSE @[i]],
                       !.temp_id = @ + 1])

\* Nothing is saved for an element whose entry was deleted meanwhile.
map_voice(p, n, b) ==
    LET pg   == page[p]
        id   == pg.list[n].map_id
        item == [pg.list[n] EXCEPT !.button_id = b, !.pending = @ \/ id \in DOMAIN pg.voice_maps]
    IN  IF id \in DOMAIN pg.voice_maps
        THEN Edit(p, <<SaveMap(item)>>,
                 [pg EXCEPT !.list[n] = item, !.voice_maps[id].button_id = b])
        ELSE Edit(p, <<>>, [pg EXCEPT !.list[n] = item])

TrashMap(p, n) == Edit(p, <<DeleteMap(page[p].list[n])>>, page[p])

Visible(pg) == {n \in DOMAIN pg.list : ~ pg.list[n].hidden}

(***************************************************************************)
(* The server handles the first message of a connection.                   *)
(***************************************************************************)
Message(p, type) == HasMessage(p) /\ Head(outbox[p]).type = type

Reply(p, frame) ==
    /\ OnMessage(p, frame)
    /\ missed' = missed \cup {q \in Conns : link[q] # "open"}
    /\ UNCHANGED <<page, edits, upto>>

\* An update of a row leaves its name alone when the message has none.
NameSaved(id, name) ==
    IF name = Unnamed /\ id \in {Row(i) : i \in DOMAIN voice_binds.rows}
    THEN voice_binds.rows[id[2]].name ELSE name

HandleSave(p) ==
    /\ Message(p, "save_voice_map")
    /\ LET m   == Head(outbox[p])
           row == [name |-> NameSaved(m.id, m.name), button_id |-> m.button_id]
       IN  IF m.id[1] = "temp"
           THEN /\ voice_binds' = Insert(voice_binds, row)
                /\ Reply(p, Inserted(voice_binds'.seq))
           ELSE /\ voice_binds' = Assign(voice_binds, {m.id[2]}, row)
                /\ Reply(p, Updated)

HandleDelete(p) ==
    /\ Message(p, "delete_voice_map")
    /\ LET id == Head(outbox[p]).id
       IN  IF id \in {Row(i) : i \in DOMAIN voice_binds.rows}
           THEN /\ voice_binds' = Delete(voice_binds, {id[2]})
                /\ Reply(p, MapGone(id[2]))
           ELSE Reply(p, NoMap(id)) /\ UNCHANGED voice_binds

Next ==
    \E p \in Conns :
        \/ LoadPage(p)
        \/ Connect(p)
        \/ Disconnect(p)
        \/ NoticeClose(p)
        \/ Receive(p)
        \/ ComeBack(p)
        \/ \E name \in Names : page[p].loaded /\ add_voice_map(p, name)
        \/ \E n \in Visible(page[p]), b \in Buttons : map_voice(p, n, b)
        \/ \E n \in Visible(page[p]) : TrashMap(p, n)
        \/ HandleSave(p)
        \/ HandleDelete(p)

Spec == Init /\ [][Next]_vars
-----------------------------------------------------------------------------
(***************************************************************************)
(* Properties                                                              *)
(***************************************************************************)
\* A page in sync: it has missed nothing, and nothing is under way.
InSync(p) == link[p] = "open" /\ p \notin missed /\ inbox[p] = <<>> /\ outbox[p] = <<>>

\* Of the maps that a page was loaded with, those it lists again when its user comes
\* back are the ones that still have their row, whoever deleted the others and under
\* whichever name: none comes back, and none that is there is lost.  A map that the page
\* added itself is left out: its entry keeps its temporary name, a deletion, which names
\* the row, leaves it there, and it does come back.
LoadedMapsAgree ==
    \A p \in Conns : InSync(p) =>
        {id[2] : id \in {x \in DOMAIN page[p].voice_maps : x[1] = "row"}} =
            DOMAIN voice_binds.rows \cap 1..upto[p]

\* "Are you sure you want to delete this voice map?": the map that is deleted by
\* its id has the name that the user was shown.
DeletesTheVoiceMapSeen ==
    \A p \in Conns : \A n \in DOMAIN outbox[p] :
        LET m == outbox[p][n]
        IN  m.type = "delete_voice_map" /\ m.id \in {Row(i) : i \in DOMAIN voice_binds.rows} =>
                voice_binds.rows[m.id[2]].name = m.seen
=============================================================================
