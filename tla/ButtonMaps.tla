----------------------------- MODULE ButtonMaps -----------------------------
(***************************************************************************)
(* The buttons that users lay out on their pages: several pages edit the   *)
(* same button maps through the websocket server, each with a copy of its  *)
(* own that it changes when a broadcast arrives, and in part before that.  *)
(*                                                                         *)
(* A page puts a new map on display at once, under a name of its own       *)
(* ("temp0", "temp1", ...), and renames it when the server's reply tells   *)
(* the id of the row.  The names of two pages are alike, and every page    *)
(* gets every reply.                                                       *)
(*                                                                         *)
(* There is one activity, and edit mode is on.  A map is its button and    *)
(* the remote that has the button.  The Bluetooth remote, whose tab is not *)
(* deleteable, is left out.  Pages do not edit while they are not          *)
(* connected.                                                              *)
(***************************************************************************)
EXTENDS Realtime, SqlTables

CONSTANTS
    InstalledRemotes,  \* number of remotes at the start
    InstalledButtons,  \* number of remote_buttons at the start, of the first remote
    InstalledMaps,     \* number of button_binds at the start, all unbound
    MaxEdits,          \* bound of the model: the number of edits by users
    MaxLosses          \* bound of the model: the number of lost connections

ASSUME BoundsAssumption ==
    /\ InstalledRemotes \in Nat /\ InstalledButtons \in Nat
    /\ InstalledButtons > 0 => InstalledRemotes > 0
    /\ InstalledMaps \in Nat /\ MaxEdits \in Nat /\ MaxLosses \in Nat

VARIABLES
    remotes,           \* the table of that name: the handlers have committed it
    remote_buttons,    \* the table of that name
    button_binds,      \* the table of that name
    page,              \* for each connection, the page behind it
    edits,             \* how many edits users have made
    losses,            \* how many connections have been lost
    missed,            \* history: the pages that may have missed a change
    blind,             \* history: whether such a page was used for an edit
    late               \* history: the rows that were bound to a button when it was gone

vars == <<hubVars, remotes, remote_buttons, button_binds, page, edits, losses,
          missed, blind, late>>

-----------------------------------------------------------------------------
(***************************************************************************)
(* What pages and server send each other.                                  *)
(***************************************************************************)
Row(i)  == <<"row", i>>    \* the element button_map<i> of a row
Temp(k) == <<"temp", k>>   \* the element button_maptemp<k> without a row

IsTemp(name) == name[1] = "temp"

\* What a map's row and element say of its button.
Button(b, r) == [button_id |-> b, remote_id |-> r]
Unbound      == Button(Null, Null)

\* The attributes of an unbound map are undefined, which JSON leaves out.
SaveMap(name, bind) == [type |-> "save_button_map", id |-> name, bind |-> bind]
DeleteMap(name)     == [type |-> "delete_button_map", id |-> name]
DropButton(b)       == [type |-> "delete_remote_button", id |-> b]
DropRemote(r)       == [type |-> "delete_remote", id |-> r]
LearnButton(r)      == [type |-> "learn", remote_id |-> r]
NewRemote           == [type |-> "add_remote"]

Inserted(temp, i, bind) ==
    [type |-> "inserted", temp_id |-> temp, id |-> i, bind |-> bind]
Updated(found)  == [type |-> "updated", found |-> found]
MapGone(name)   == [type |-> "map_gone", id |-> name]
ButtonGone(b)   == [type |-> "button_gone", id |-> b]
ButtonLearnt(b, r) == [type |-> "button_learnt", id |-> b, remote_id |-> r]
RemoteGone(r)   == [type |-> "remote_gone", id |-> r]
RemoteAdded(r)  == [type |-> "remote_added", id |-> r]

-----------------------------------------------------------------------------
(***************************************************************************)
(* A page.                                                                 *)
(*   up        whether it got through its ready handler; what a page does  *)
(*             that did not is left out                                    *)
(*   remotes   the ids in the dict of that name                            *)
(*   panels    the remotes that have a tab, which stays when they are gone *)
(*   buttons   the dict of that name: the remote of each button            *)
(*   maps      the elements of its button maps by name, hidden ones too,   *)
(*             and whether the element can be dragged and dropped on       *)
(*   index     the dict button_maps, from keys to elements: an element     *)
(*             keeps the key of its temporary name when it is renamed      *)
(*   deleted   the dict deleted_button_maps                                *)
(*   temp_id   the next temporary name                                     *)
(***************************************************************************)
NoPage == [up |-> FALSE, remotes |-> {}, panels |-> {}, buttons |-> <<>>,
           maps |-> <<>>, index |-> <<>>, deleted |-> {}, temp_id |-> 0]

\* dict[key] = value
With(dict, key, value) ==
    [k \in DOMAIN dict \cup {key} |-> IF k = key THEN value ELSE dict[k]]

Usable(pg) == {name \in DOMAIN pg.maps : pg.maps[name].ready /\ ~ pg.maps[name].hidden}

\* The buttons that are there to be dragged: those of a remote that is gone are not.
Offered(pg) == {b \in DOMAIN pg.buttons : pg.buttons[b] \in pg.remotes}

\* display_button_map reads remotes[remote_id]['remote_type'], which throws.
Throws(known, remote_ids, bind) == bind.button_id \in known /\ bind.remote_id \notin remote_ids

display_button_map_KeepBound(pg, name, bind) ==   \* mutant: only labels new elements
    LET shown == IF name \in DOMAIN pg.maps THEN pg.maps[name]
                 ELSE [bind   |-> IF bind.button_id \in DOMAIN pg.buttons THEN bind ELSE Unbound,
                       ready  |-> ~ Throws(DOMAIN pg.buttons, pg.remotes, bind),
                       hidden |-> FALSE]
    IN  [pg EXCEPT !.maps = With(@, name, shown), !.index = With(@, name, name)]

\* A button that the page does not know leaves the element as it is; an element
\* that is made by a call that throws stays half-made.
display_button_map(pg, name, bind) ==
    LET old   == IF name \in DOMAIN pg.maps THEN pg.maps[name]
                 ELSE [bind |-> Unbound, ready |-> FALSE, hidden |-> FALSE]
        shown == [bind   |-> IF bind.button_id \in DOMAIN pg.buttons THEN bind ELSE old.bind,
                  ready  |-> old.ready \/ ~ Throws(DOMAIN pg.buttons, pg.remotes, bind),
                  hidden |-> old.hidden]
    IN  [pg EXCEPT !.maps = With(@, name, shown), !.index = With(@, name, name)]

rename_DomOnly(pg, temp, name) ==              \* mutant: the index is not updated
    IF temp \notin DOMAIN pg.maps THEN pg
    ELSE [pg EXCEPT !.maps = With(Restrict(@, DOMAIN @ \ {temp}), name, @[temp])]

\* $('#button_map'+temp_id).attr('id', ...): whoever made the element.
rename(pg, temp, name) ==
    IF temp \notin DOMAIN pg.maps THEN pg
    ELSE [pg EXCEPT !.maps  = With(Restrict(@, DOMAIN @ \ {temp}), name, @[temp]),
                    !.index = [k \in DOMAIN @ |-> IF @[k] = temp THEN name ELSE @[k]]]

name_map_OwnOnly(pg, temp, i, bind) ==            \* mutant: only the page that asked
    IF temp \in DOMAIN pg.maps THEN display_button_map(rename(pg, temp, Row(i)), Row(i), bind)
                               ELSE pg

name_map_NewElement(pg, temp, i, bind) == display_button_map(pg, Row(i), bind)  \* mutant

\* The reply to an insertion names the element, or makes one.
name_map(pg, temp, i, bind) == display_button_map(rename(pg, temp, Row(i)), Row(i), bind)

\* The reply to an update has the row, if there still is one.
refresh_map(pg, found) ==
    LET fresh == {i \in DOMAIN found : Row(i) \notin pg.deleted}
    IN  IF fresh = {} THEN pg
        ELSE LET i == CHOOSE i \in fresh : TRUE
             IN  display_button_map(pg, Row(i), found[i])

save_button_map_callback(pg, frame) ==
    IF frame.type = "inserted" THEN name_map(pg, frame.temp_id, frame.id, frame.bind)
                               ELSE refresh_map(pg, frame.found)

delete_button_map_callback(pg, name) ==
    IF name \in pg.deleted THEN pg
    ELSE [pg EXCEPT !.deleted = @ \cup {name},
                    !.index   = Restrict(@, DOMAIN @ \ {name}),
                    !.maps    = [n \in DOMAIN @ |->
                                    IF n = name THEN [@[n] EXCEPT !.hidden = TRUE] ELSE @[n]]]

unbind_elements(maps, names) ==
    [n \in DOMAIN maps |-> IF n \in names THEN [maps[n] EXCEPT !.bind = Unbound] ELSE maps[n]]

\* The elements are found through the index, and the first key of each is dropped
\* from it: the loop visits the keys of rows before those of temporary names.
delete_remote_button_callback(pg, b) ==
    LET keys  == {k \in DOMAIN pg.index : pg.maps[pg.index[k]].bind.button_id = b}
        first == {k \in keys : IsTemp(k) =>
                    \A j \in keys : pg.index[j] = pg.index[k] => IsTemp(j)}
    IN  [pg EXCEPT !.maps    = unbind_elements(@, {pg.index[k] : k \in keys}),
                   !.index   = Restrict(@, DOMAIN @ \ first),
                   !.buttons = Restrict(@, DOMAIN @ \ {b})]

delete_remote_callback_ForgetNothing(pg, r) ==   \* mutant: the dict keeps the remote
    LET keys == {k \in DOMAIN pg.index : pg.maps[pg.index[k]].bind.remote_id = r}
    IN  [pg EXCEPT !.maps = unbind_elements(@, {pg.index[k] : k \in keys})]

\* The remote's buttons stay in the dict, the elements in the index.
delete_remote_callback(pg, r) ==
    LET keys == {k \in DOMAIN pg.index : pg.maps[pg.index[k]].bind.remote_id = r}
    IN  [pg EXCEPT !.maps    = unbind_elements(@, {pg.index[k] : k \in keys}),
                   !.remotes = @ \ {r}]

\* Into the dict goes the button of an unknown remote, too.
display_remote_button(pg, b, r) == [pg EXCEPT !.buttons = With(@, b, r)]

add_remote_callback(pg, r) ==
    IF r \in pg.panels THEN pg
    ELSE [pg EXCEPT !.remotes = @ \cup {r}, !.panels = @ \cup {r}]

ws_onmessage(pg, frame) ==
    CASE frame.type \in {"inserted", "updated"} -> save_button_map_callback(pg, frame)
      [] frame.type = "map_gone"       -> delete_button_map_callback(pg, frame.id)
      [] frame.type = "button_gone"    -> delete_remote_button_callback(pg, frame.id)
      [] frame.type = "button_learnt"  ->
            display_remote_button(pg, frame.id, frame.remote_id)
      [] frame.type = "remote_gone"    -> delete_remote_callback(pg, frame.id)
      [] frame.type = "remote_added"   -> add_remote_callback(pg, frame.id)

-----------------------------------------------------------------------------
Init ==
    /\ HubInit
    /\ remotes = [seq |-> InstalledRemotes,
                  rows |-> [r \in 1..InstalledRemotes |-> [name |-> "remote"]]]
    /\ remote_buttons = [seq |-> InstalledButtons,
                         rows |-> [b \in 1..InstalledButtons |-> [remote_id |-> 1]]]
    /\ button_binds = [seq |-> InstalledMaps,
                       rows |-> [i \in 1..InstalledMaps |-> Unbound]]
    /\ page = [p \in Conns |-> NoPage]
    /\ edits = 0 /\ losses = 0
    /\ missed = Conns
    /\ blind = FALSE
    /\ late = {}

(***************************************************************************)
(* Pages come and go.                                                      *)
(***************************************************************************)
tables == <<remotes, remote_buttons, button_binds>>
counts == <<edits, losses>>
histories == <<missed, blind, late>>

\* What a page is built from: the tables, as they are at one moment.
Loaded ==
    LET known == DOMAIN remote_buttons.rows
        binds == button_binds.rows
    IN  IF \E i \in DOMAIN binds : Throws(known, DOMAIN remotes.rows, binds[i]) THEN NoPage
        ELSE [up      |-> TRUE,
              remotes |-> DOMAIN remotes.rows,
              panels  |-> DOMAIN remotes.rows,
              buttons |-> [b \in known |-> remote_buttons.rows[b].remote_id],
              maps    |-> [n \in {Row(i) : i \in DOMAIN binds} |->
                             [bind   |-> IF binds[n[2]].button_id \in known THEN binds[n[2]]
                                                                            ELSE Unbound,
                              ready  |-> TRUE,
                              hidden |-> FALSE]],
              index   |-> [n \in {Row(i) : i \in DOMAIN binds} |-> n],
              deleted |-> {},
              temp_id |-> 0]

\* The websocket is opened later.
LoadPage(p) ==
    /\ link[p] = "closed"
    /\ page' = [page EXCEPT ![p] = Loaded]
    /\ missed' = missed \ {p}
    /\ UNCHANGED <<hubVars, tables, counts, blind, late>>

\* After ws_ready or, with the page as it was, after ws_reconnect.
Connect(p) ==
    /\ page[p].up
    /\ Open(p)
    /\ UNCHANGED <<tables, page, counts, histories>>

Disconnect(p) ==
    /\ losses < MaxLosses
    /\ losses' = losses + 1
    /\ Lose(p)
    /\ missed' = IF inbox[p] = <<>> /\ outbox[p] = <<>> THEN missed ELSE missed \cup {p}
    /\ UNCHANGED <<tables, page, edits, blind, late>>

NoticeClose(p) == OnClose(p) /\ UNCHANGED <<tables, page, counts, histories>>

Receive(p) ==
    /\ Deliver(p)
    /\ page' = [page EXCEPT ![p] = ws_onmessage(@, Head(inbox[p]))]
    /\ UNCHANGED <<tables, counts, histories>>

(***************************************************************************)
(* Users edit.  A new map cannot be dragged until edit mode is refreshed,  *)
(* which toggling it does and every reply to a save: from then on users    *)
(* move and trash maps that still have a temporary name.                   *)
(***************************************************************************)
Edit(p, messages, new) ==
    /\ edits < MaxEdits
    /\ edits' = edits + 1
    /\ Send(p, messages)
    /\ page' = [page EXCEPT ![p] = new]
    /\ blind' = (blind \/ p \in missed)
    /\ UNCHANGED <<tables, losses, missed, late>>

\* A template is dropped on the activity, or clicked.
AddMap(p) ==
    LET name == Temp(page[p].temp_id)
    IN  Edit(p, <<SaveMap(name, Unbound)>>,
             [display_button_map(page[p], name, Unbound) EXCEPT !.temp_id = @ + 1])

\* A remote button is dropped on a button map.
map_button(p, name, b) ==
    LET bind == Button(b, page[p].buttons[b])
    IN  Edit(p, <<SaveMap(name, bind)>>, [page[p] EXCEPT !.maps[name].bind = bind])

MoveMap(p, name) ==
    Edit(p, <<SaveMap(name, page[p].maps[name].bind)>>, page[p])

\* The end of the drag saves the map after the trash has asked for its deletion.
TrashMap(p, name) ==
    Edit(p, <<DeleteMap(name), SaveMap(name, page[p].maps[name].bind)>>, page[p])

TrashButton(p, b) == Edit(p, <<DropButton(b)>>, page[p])

\* For the remote whose tab is active, which may be one that is gone.
AddRemoteButton(p, r) == Edit(p, <<LearnButton(r)>>, page[p])

AddRemote(p) == Edit(p, <<NewRemote>>, page[p])

TrashRemote(p, r) == Edit(p, <<DropRemote(r)>>, page[p])

(***************************************************************************)
(* The server handles the first message of a connection.                   *)
(***************************************************************************)
Message(p, type) == HasMessage(p) /\ Head(outbox[p]).type = type

\* Pages that are not connected miss what is broadcast.
Reply(p, frame) ==
    /\ OnMessage(p, frame)
    /\ missed' = missed \cup {q \in Conns : link[q] # "open"}
    /\ UNCHANGED <<page, counts, blind>>

\* del db.table[id] of a row that is gone: no page hears of it.
NoSuchRecord(p) ==
    /\ OnMessageDropped(p)
    /\ UNCHANGED <<tables, page, counts, histories>>

HandleInsert(p) ==
    /\ Message(p, "save_button_map")
    /\ LET m == Head(outbox[p])
       IN  /\ IsTemp(m.id)
           /\ button_binds' = Insert(button_binds, m.bind)
           /\ Reply(p, Inserted(m.id, button_binds.seq + 1, m.bind))
    /\ UNCHANGED <<remotes, remote_buttons, late>>

HandleUpdate(p) ==
    /\ Message(p, "save_button_map")
    /\ LET m   == Head(outbox[p])
           new == IF m.bind = Unbound THEN button_binds
                  ELSE Assign(button_binds, {m.id[2]}, m.bind)
       IN  /\ ~ IsTemp(m.id)
           /\ button_binds' = new
           /\ Reply(p, Updated(Restrict(new.rows, DOMAIN new.rows \cap {m.id[2]})))
           /\ late' = IF m.bind = Unbound \/ m.bind.button_id \in DOMAIN remote_buttons.rows
                      THEN late ELSE late \cup {m.id[2]}
    /\ UNCHANGED <<remotes, remote_buttons>>

\* Acknowledged even if there was no such row, or no row at all.
HandleDeleteMap(p) ==
    /\ Message(p, "delete_button_map")
    /\ LET m == Head(outbox[p])
       IN  /\ button_binds' = IF IsTemp(m.id) THEN button_binds
                              ELSE Delete(button_binds, {m.id[2]})
           /\ Reply(p, MapGone(m.id))
    /\ UNCHANGED <<remotes, remote_buttons, late>>

unbind(col, v) == Assign(button_binds, Having(button_binds, col, v), Unbound)

HandleDeleteButton(p) ==
    /\ Message(p, "delete_remote_button")
    /\ LET b == Head(outbox[p]).id
       IN  \/ /\ b \in DOMAIN remote_buttons.rows
              /\ remote_buttons' = Delete(remote_buttons, {b})
              /\ button_binds' = unbind("button_id", b)
              /\ Reply(p, ButtonGone(b))
              /\ UNCHANGED <<remotes, late>>
           \/ b \notin DOMAIN remote_buttons.rows /\ NoSuchRecord(p)

HandleLearn(p) ==
    /\ Message(p, "learn")
    /\ LET r == Head(outbox[p]).remote_id
       IN  /\ remote_buttons' = Insert(remote_buttons, [remote_id |-> r])
           /\ Reply(p, ButtonLearnt(remote_buttons.seq + 1, r))
    /\ UNCHANGED <<remotes, button_binds, late>>

HandleAddRemote(p) ==
    /\ Message(p, "add_remote")
    /\ remotes' = Insert(remotes, [name |-> "remote"])
    /\ Reply(p, RemoteAdded(remotes.seq + 1))
    /\ UNCHANGED <<remote_buttons, button_binds, late>>

HandleDeleteRemote_KeepButtons(p) ==       \* mutant
    /\ Message(p, "delete_remote")
    /\ LET r == Head(outbox[p]).id
       IN  \/ /\ r \in DOMAIN remotes.rows
              /\ remotes' = Delete(remotes, {r})
              /\ button_binds' = unbind("remote_id", r)
              /\ Reply(p, RemoteGone(r))
              /\ UNCHANGED <<remote_buttons, late>>
           \/ r \notin DOMAIN remotes.rows /\ NoSuchRecord(p)

HandleDeleteRemote(p) ==
    /\ Message(p, "delete_remote")
    /\ LET r == Head(outbox[p]).id
       IN  \/ /\ r \in DOMAIN remotes.rows
              /\ remotes' = Delete(remotes, {r})
              /\ remote_buttons' = Delete(remote_buttons, Having(remote_buttons, "remote_id", r))
              /\ button_binds' = unbind("remote_id", r)
              /\ Reply(p, RemoteGone(r))
              /\ UNCHANGED late
           \/ r \notin DOMAIN remotes.rows /\ NoSuchRecord(p)

Handle(p) ==
    \/ HandleInsert(p)
    \/ HandleUpdate(p)
    \/ HandleDeleteMap(p)
    \/ HandleDeleteButton(p)
    \/ HandleLearn(p)
    \/ HandleAddRemote(p)
    \/ HandleDeleteRemote(p)

Next ==
    \E p \in Conns :
        \/ LoadPage(p)
        \/ Connect(p)
        \/ Disconnect(p)
        \/ NoticeClose(p)
        \/ Receive(p)
        \/ AddMap(p)
        \/ \E name \in Usable(page[p]), b \in Offered(page[p]) : map_button(p, name, b)
        \/ \E name \in Usable(page[p]) : MoveMap(p, name)
        \/ \E name \in Usable(page[p]) : TrashMap(p, name)
        \/ \E b \in Offered(page[p]) : TrashButton(p, b)
        \/ \E r \in page[p].panels : AddRemoteButton(p, r)
        \/ AddRemote(p)
        \/ \E r \in page[p].remotes : TrashRemote(p, r)
        \/ Handle(p)

\* The server's loop takes up every message, and a browser every frame.
Fairness == \A p \in Conns : WF_vars(Handle(p)) /\ WF_vars(Receive(p))

Spec == Init /\ [][Next]_vars /\ Fairness

-----------------------------------------------------------------------------
(***************************************************************************)
(* Properties                                                              *)
(***************************************************************************)
PageOK(pg) ==
    /\ DOMAIN pg.buttons \subseteq 1..remote_buttons.seq
    /\ pg.remotes \subseteq pg.panels /\ pg.panels \subseteq 1..remotes.seq
    /\ \A name \in DOMAIN pg.maps \cup DOMAIN pg.index \cup pg.deleted :
          IF IsTemp(name) THEN name[2] \in Nat ELSE name[2] \in 1..button_binds.seq
    /\ \A name \in DOMAIN pg.maps : IsTemp(name) => name[2] < pg.temp_id
    /\ \A k \in DOMAIN pg.index : pg.index[k] \in DOMAIN pg.maps

\* A page names only rows and buttons that the tables have handed out, and its
\* index leads to elements that exist under the name they have now.
TypeOK ==
    /\ link \in [Conns -> {"closed", "open", "lost"}]
    /\ \A t \in {remotes, remote_buttons, button_binds} : DOMAIN t.rows \subseteq 1..t.seq
    /\ \A p \in Conns : PageOK(page[p])
    /\ edits \in 0..MaxEdits /\ losses \in 0..MaxLosses
    /\ missed \subseteq Conns
    /\ blind \in BOOLEAN
    /\ late \subseteq 1..button_binds.seq

\* A connected page that has missed no change since it was loaded.
Current(p) == link[p] = "open" /\ p \notin missed

\* ... and has nothing on its way to or from the server.
InSync(p) == Current(p) /\ inbox[p] = <<>> /\ outbox[p] = <<>>

\* A page in sync has an element for every row that it was not told is gone, and
\* for no other, whichever names its own and other pages' new maps had.
MapsAgree ==
    \A p \in Conns : InSync(p) =>
        {i \in 1..button_binds.seq : Row(i) \in DOMAIN page[p].maps /\ Row(i) \notin page[p].deleted}
            = DOMAIN button_binds.rows

\* A page in sync shows the button of every row that is bound to one, after
\* concurrent edits of the same map by several pages as well.  It shows none on an
\* unbound row, with two exceptions.  An element that a user bound while it had a
\* temporary name keeps the button, while its row is unbound.  And a row that was
\* bound to a button that was gone already has the others show what they showed
\* before; the button's remote then unbinds the row, but not what they show.
BindingsAgree ==
    \A p \in Conns : InSync(p) =>
        \A i \in DOMAIN button_binds.rows :
            LET bind  == button_binds.rows[i]
                shown == page[p].maps[Row(i)].bind
            IN  /\ bind.button_id \in DOMAIN remote_buttons.rows => shown = bind
                /\ bind = Unbound /\ i <= InstalledMaps /\ i \notin late => shown = Unbound

\* A page in sync offers exactly the buttons of the tables whose remote is there,
\* although a remote takes its buttons along on the server only, and a button may
\* be learnt for a remote that is gone.
RemotesAgree ==
    \A p \in Conns : InSync(p) =>
        /\ page[p].remotes = DOMAIN remotes.rows
        /\ Offered(page[p]) = {b \in DOMAIN remote_buttons.rows :
                                 remote_buttons.rows[b].remote_id \in DOMAIN remotes.rows}

\* Whoever loads a page now gets one that works: display_button_map does not throw
\* in the middle of the ready handler, which it does for a map of a button whose
\* remote is gone.  Only a page that missed the deletion could bind one.
PagesGetUp == blind \/ Loaded.up

\* A map that a user added gets the name of a row, unless the connection is lost
\* first: it does not remain under a temporary name, by which nothing could delete
\* it and every save would insert another row.
TempsAreNamed ==
    \A p \in Conns : \A k \in 0..(MaxEdits - 1) :
        (Current(p) /\ Temp(k) \in DOMAIN page[p].maps)
            ~> (~ Current(p) \/ Temp(k) \notin DOMAIN page[p].maps)

=============================================================================
