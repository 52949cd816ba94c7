# A TLA+ model of webremote

`applications/webremote` turns a small computer into a universal remote
control. A browser page shows remotes, their buttons, and activities (screens of
buttons that users lay out themselves, with keyboard and voice shortcuts). A
pressed button goes over a websocket to a server that drives a Bluetooth HID
module and an infrared transmitter over serial lines. Everything users configure
is kept in one SQLite database, and several people edit it at once, from several
pages.

This directory holds TLA+ modules of the parts where that is hard, the TLC
configurations that check them on small instances, and proofs that TLAPS checks
of nearly all safety properties that the configurations check: of the database,
the websocket hub, the drivers, and what the pages make of edits and of the
keyboard.

The rest of the repository is a web2py checkout (`gluon/`, `applications/admin`,
`handlers`, `scripts`, `examples`, `extras`), which is not modelled beyond what
the program uses of it.

## Inventory

### Database handlers: `modules/webremote.py`, `tables.py`, `DB.py`

State: tables `remotes`, `remote_buttons`, `activities`, `button_binds` (maps on
the screen), `key_binds`, `voice_binds`, `default_key_to_button`, `settings`; one
SQLite connection, shared by all handlers, with one transaction that any
statement opens and any handler's `db.commit()` closes.

Operations: add and delete activities, remotes and remote buttons; save (insert
or update) and delete the three kinds of binds; save settings; `get_tables`, run
by the web process on a connection of its own when a page is loaded.

Interactions: called by the websocket server with what a page sent; the value
returned is broadcast to every page.

Hard: requests are built from ids that were valid some time ago; there are no
foreign keys, so each delete has to find what refers to the row; a handler can
fail after half its statements and nothing rolls back; a commit can be refused
while another process writes; the scripts kill the server at any time.

Correct means: ids never come back as something else; a key has one map in an
activity; a bind's button and remote agree; deletes cascade; what a page was shown
is durable.

### Websocket hub: `modules/websocket_messaging.py`

State: `listeners`, the list of connections of each group (every page joins the
group `default`). One event loop; a handler runs to its end before the next
message is read.

Operations: `open`, `on_message` (dispatch to a driver or a database handler, then
a broadcast of the reply), `on_close`. `PostHandler` and `TokenHandler` come
with web2py's example and have no users.

Hard: connections are lost before, between and after messages; lost ones stay on
the list until they are noticed; an exception inside the dispatch is dropped
silently, one outside of it takes the sender's connection down.

Correct means: every page that stays connected gets every reply, once and in
the order of the handlers.

### Pages: `views/webremote/webremote.js`

State: a copy of the tables, loaded with the page and kept up to date by
broadcasts (`buttons`, `button_maps`, `key_maps`, ...); elements of the DOM whose
ids are row ids or temporary names; edit mode and the selection; the pressed keys
(`bt_keys`, `bt_mods`, `bt_mouse`), of which full HID reports are sent.

Operations: user edits (some applied to the page at once, some when the broadcast
arrives), a callback for each kind of reply, keyboard and mouse input, reconnecting
one second after the connection was lost.

Hard: edits of several pages cross; temporary names of different pages are equal;
a page that reconnects is not told what it missed; releases of keys are ignored
in edit mode.

Correct means: pages that miss nothing show the same as the tables; new maps get
their row's name; keys that are up are up on the device too.

### Drivers: `modules/irduino.py`, `hc05.py`, `irtoy.py`

State: a serial line, and the last code sent, which is repeated with one byte.
Hard: learning blocks the whole server until a remote is pressed; frames are read
as far as they have arrived; failures inside the error handler. `irtoy.py` is a
third-party driver that nothing imports.

### Others

`controllers/webremote.py` and `index.html` load a page with `get_tables`.
`stop.sh`, `reload.sh`, `reboot.sh` and `websocket.sh` kill and start processes.
`default.py`, `appadmin.py`, `db.py` and `menu.py` are web2py's scaffold;
`static/js/webremote.js` is an older client that no view loads.

## The modules

| module | models | kind |
|---|---|---|
| `SqlTables` | ids, inserts, updates, deletes and selects of pydal on SQLite | operators |
| `WebRemoteStore` | the database handlers, the shared transaction, crashes | state machine |
| `GetTables` | `get_tables`, select by select, next to all handlers | composition with `WebRemoteStore` |
| `Realtime` | connections, streams, listeners, the three outcomes of a message | actions to compose |
| `BroadcastLog` | what the hub promises | abstract specification |
| `RealtimeHistory` | `Realtime` with arbitrary replies and a history; implements `BroadcastLog` | state machine, refinement |
| `ButtonMaps` | pages that edit button maps, buttons and remotes | composition with `Realtime` and `SqlTables` |
| `KeyMaps` | pages that map keys, for several activities | composition with `Realtime` and `SqlTables` |
| `VoiceMaps` | pages that map spoken commands | composition with `Realtime` and `SqlTables` |
| `KeyInput` | from pressed keys and buttons to the reports on the device | composition with `Realtime` |
| `IRduino` | the infrared driver and its serial line | state machine |
| `WebRemoteStore_proofs` | theorems about `WebRemoteStore` and `GetTables` | proofs |
| `Hub_proofs` | lemmas on `Realtime`, for the five modules that are built on it | proofs |
| `Realtime_proofs`, `ButtonMaps_proofs`, `KeyMaps_proofs`, `VoiceMaps_proofs`, `KeyInput_proofs` | theorems about `RealtimeHistory`, `ButtonMaps`, `KeyMaps`, `VoiceMaps`, `KeyInput`, on top of `Hub_proofs` | proofs |
| `IRduino_proofs` | theorems about `IRduino` | proofs |
| `MC*` | constants for TLC | |

Operators whose names end in `_` and a word, marked `mutant`, are variants of the
definition of that name with a plausible bug. Nothing uses them; put in its place,
each makes TLC find a violation of a property.

### WebRemoteStore

A handler is one action, because the server runs it to its end without looking at
another message. `db` is what the server's connection sees, `disk` what is
committed, `txn` whether they may differ. Each handler is an operator on
databases of the source's name (`delete_remote(s, r)`), and an action
(`DeleteRemote(r)`) that says how it can end:

- `Done`: the commit went through, and with it everything an earlier handler left
  behind; the reply goes out, and `seen` has the ids that it shows to pages;
- `Refused`: the commit raised. `on_message` drops the message, and the changes
  stay in the open transaction;
- `NoSuchRecord`: `del db.table[id]` raised, after its statement had opened a
  transaction.

A statement that is refused because another process holds the write lock changes
nothing and is a stuttering step. `AddActivity` has a further outcome: the
activity is committed and the default key maps are not, although the reply shows
one of them. Requests are built from `seen` and `owners`, which only grow, so a
request may be arbitrarily late. `PageLoad` shows what is on disk. `Restart` loses
what was not committed, the sequences included; the pages live on. `gone` is a
history variable.

Left out: names, places, classes, delays and codes; settings; the exact wording of
replies.

### GetTables

The web process reads the tables one after the other (`Order`), and each select
sees what is committed at that moment. `Select` reads the next table into `read`;
`SendPage` hands the page to the user, whose requests are then built from it.
Between any two of these, every action of `WebRemoteStore` may happen. `upTo` and
`astray` are history variables: the sequence of a table when it was read, and the
references of rows that led nowhere already when the row was read.

### Realtime, RealtimeHistory and BroadcastLog

A websocket is two FIFO streams, `inbox` and `outbox`. `link[c]` is "open",
"closed", or "lost": gone, but not noticed by the server yet. When it is lost, what
was under way to the page is gone and a prefix of what the page had sent still
arrives. `OnMessage` is on_message with a reply, `OnMessageDropped` the exception
that is caught, `OnMessageAborted` the one that is not. The broadcast goes to a
connection as often as it is on the list, so a list with duplicates or leftovers
shows.

`RealtimeHistory` adds the log of all replies and what each connection was
delivered. Under the refinement mapping (a member is an open connection; its cursor
is the length of the log less what is in its inbox) it implements `BroadcastLog`,
including the liveness of `Hear`.

### ButtonMaps

A page is a record of `remotes` (the dict), `panels` (the tabs, which stay in the DOM),
`buttons`, `maps` (the elements, by name), `index` (the dict `button_maps`),
`deleted` and `temp_id`. The names of elements are `Row(i)` or `Temp(k)`. The
callbacks are operators on pages with the source's names; `Receive` applies the one
that the frame names, `Handle...` are the server's handlers, and the edits are what
users do with the mouse. Details that matter and are kept:

- dropping a map on the trash sends two messages, the deletion and then the save
  that ends every drag;
- a deletion is acknowledged whatever the handler found;
- an element that is renamed keeps its temporary key in the index;
- the callback of a deleted button drops the elements it clears from the index,
  and reaches only elements that are in it;
- replies name buttons that a page may not know, and then leave the element as
  it is;
- the callback of a deleted remote leaves the remote's buttons in the dict
  `buttons`; `display_button_map` then throws half-way for a map that is bound to
  one of them, and leaves an element that cannot be dragged (`ready`).

`missed` is a history variable: the pages to which a broadcast, or a message of
their own, was lost. A page joins it when it loses its connection with something
under way and when something is broadcast while it is not connected, also between
its load and its connection. `blind` tells that a page used for an edit was in it.
`late` has the rows that were bound to a button which was gone when the save arrived.

There is one activity, and the Bluetooth remote, whose tab cannot be deleted, is
left out. Users stay in edit mode and do not edit while the connection is down; the
database accepts every statement, which is `WebRemoteStore`'s subject. A restart of
the server looks to the pages like lost connections.

### KeyMaps

A page has its key maps twice: in the dict `key_maps`, for all activities, which is
what a pressed key consults, and as the `list` of the activity that is shown. The
two are changed by different code: `map_key` changes both at once; the reply to a
save names the last row of the table, whichever row was saved, and
`save_key_map_callback` gives that id to every item of its key; a new map keeps the
id `tempk<n>` in the dict; a deletion is broadcast with its activity. The list is
built again when the user comes to an activity, and breaks off at the first map
whose button is gone or that was never bound (`Listable`). `seen` in a message of
deletion, `overruled` (maps that another page has changed since, of which a page is
not told) and `loaded` are history.

### VoiceMaps

An element of the list has an `id`, which the reply to a save may change, the entry
of the dict it belongs to (`map_id`), and the class `save_voice_map` (`pending`),
which it carries from the moment it is saved. The reply to an insertion gives its id
to every element with that class and takes the class off; the reply to an update
has no id and leaves the class on. Maps that were added on the page have no name in
the dict and are listed as "undefined" when the user comes back; such an element has no
name attribute, and when it is saved again the row keeps its name. `upto` is history: the
last row there was when each page was loaded. What the browser's
speech recognition understands is not modelled.

### KeyInput

A *token* is one thing that can be pressed: the code of a key, of a modifier or of a
consumer control, a mouse axis with its value, an infrared repetition. A page has the
places of its report (`bt_keys`, `bt_mods`), its `bt_mouse`, and whether a button's
code is being repeated. `down` and `clicked` say what the user really presses, with
the tokens it was pressed as; `slipped` is history: tokens whose key went up while
the page could not see it (in edit mode, in another activity, after its map was
changed, outside the window). `write` is the driver: a report replaces what the
device takes to be pressed. `cut` has the pages that were cut off with something
pressed, until a `clear_bt` has arrived.

A button learnt since the page was loaded has a JSON text for its code;
`poll_key_map` then enters a character as a modifier, and the report is cut short.
That is the token `TextModifier`. The driver writes a report byte by byte (`hc05.py:21`)
and raises at the text, when 253, 9 and 1 have gone out; the module takes the eight bytes
that are missing from the next reports, releases included. What it makes of them is not
known: from then on the device has the token `Unknown` (`OutOfStep`). Spoken commands, which press and clear at once, and
flashing are left out.

### IRduino

The server and the Arduino, byte by byte. `waiting` are bytes that arrived, `arriving`
those that the Arduino still writes. `learn_code` asks to record, waits for a first
byte without a time limit, reads until nothing waits, and judges what it has; it is
not one action, since bytes arrive in between. `SendCode` writes the code, or 'd' when
it takes the Arduino to have it in its memory still. The Arduino's program is not in
the repository and is modelled from how the driver uses it: while it records it may or
may not take notice of other commands. `cut` is history: a learning ended without a
code, be it because part of the code had not arrived or because the line failed. The model
knows of each byte on the line where in which code it stands; `whole`, the driver's test,
sees the values only.

## The runs

| run | module, configuration | checks |
|---|---|---|
| `store` | `MCWebRemoteStore`, `Store.cfg` | `TypeOK`, `KeyMapUnique`, `GoneForGood`, `BindsNameTheirRemote`, `DeletesCascade` |
| `get_tables` | `MCGetTables`, `GetTables.cfg` | `LoadedResolves`, `ShownIsDurable`, `IdsNotRecycled` |
| `realtime` | `MCRealtime`, `Realtime.cfg` | `TypeOK`, `ListedOnce`, `ImplementsBroadcastLog` |
| `button_maps` | `MCButtonMaps`, `ButtonMaps.cfg` | `TypeOK`, `MapsAgree`, `BindingsAgree`, `RemotesAgree`, `PagesGetUp` |
| `button_maps_named` | `MCButtonMaps`, `ButtonMapsNamed.cfg` | `TempsAreNamed` |
| `key_maps` | `MCKeyMaps`, `KeyMaps.cfg` | `TypeOK`, `GoneButtonsUnmapped`, `KeysAgree`, `IdsNameTheirKey` |
| `key_maps_shared` | `MCKeyMaps`, `KeyMapsShared.cfg` | `DeletesTheMapSeen`, violated |
| `voice_maps` | `MCVoiceMaps`, `VoiceMaps.cfg` | `LoadedMapsAgree` |
| `voice_maps_named` | `MCVoiceMaps`, `VoiceMapsNamed.cfg` | `DeletesTheVoiceMapSeen`, violated |
| `keys` | `MCKeyInput`, `KeyInput.cfg` | `TypeOK`, `ReportIsPressed`, `DeviceIsPressed` |
| `keys_pages` | `MCKeyInput`, `KeyInputPages.cfg` | `DeviceIsPressed`, `ReleasesArrive` |
| `irduino` | `MCIRduino`, `IRduino.cfg` | `LearntIsWhole`, `LearntIsNew`, `SentIsAsked` |

What they show, and where the properties stop:

- **KeyMapUnique**: `update_or_insert` never meets a second row for its key and
  activity, though `add_activity` copies default keys without looking.
- **GoneForGood**, **IdsNotRecycled**: AUTOINCREMENT, and commits before replies,
  keep a late request from reaching a row that its page has never seen.
  `key_binds` is excepted in the second: its sequence can fall back behind what
  was shown.
- **BindsNameTheirRemote**, **DeletesCascade**: the two ways in which deletes find
  binds, by remote and by button, agree, and no delete leaves an unchanged bind
  behind that it made dangle. `voice_binds` is not in the second, because no
  delete cleans it up. A dangling bind can still come from a late save.
- **LoadedResolves**: a page that is read in pieces has the button, the remote and
  the activity of each of its binds, unless they were added after their table
  was read, or were gone when the bind was read. The order of the selects matters:
  with the binds first, a delete in between breaks it.
- **ShownIsDurable**: everything a page was shown is committed, `key_binds`
  excepted.
- **ListedOnce**, **ImplementsBroadcastLog**: see above. These hold whatever
  connections are opened, aborted and lost meanwhile.
- **MapsAgree**: a page that missed nothing and has nothing under way has an element
  for exactly the rows of the table, those apart that it was told are gone. The
  element may be hidden: when a deletion of a temporary name is acknowledged, every
  page hides the element that has this name there. It may also be half-made.
- **BindingsAgree**: such a page shows the button of every bound row, and none on
  unbound rows that were there from the start. For new rows the second part does
  not hold: a map that is bound before its reply arrives becomes two rows, and
  the page keeps showing the button on the first, which is unbound. Nor does it for
  rows that were bound to a button when it was gone (`late`): the other pages do not
  know the button and go on showing what they showed, also after the deletion of
  the button's remote has unbound the row.
- **RemotesAgree**: such a page offers exactly the buttons whose remote exists.
- **PagesGetUp**: a page that is loaded now gets up. It excepts what was edited on a
  page that had missed a change: three edits lead from there to a map of which every
  later page load throws, since the server checks nothing.
- **TempsAreNamed**: on a page that stays connected every new map gets its row's
  name in the end.
- **GoneButtonsUnmapped**, **KeysAgree**, **IdsNameTheirKey**: on a page in sync no
  key sends a button that was deleted, keys send what the tables say unless another
  page has mapped them since, and an id never names another key's row.
- **LoadedMapsAgree**: of the voice maps a page in sync was loaded with, it lists again
  exactly those that are still there when its user comes back to the activity. A map
  that the page added itself is left out: it stays in `voice_maps` under its temporary
  name (`webremote.js:1162`) when its row is deleted by its id (`webremote.js:1409`), and
  it does come back, until the page is reloaded.
- **ReportIsPressed**, **DeviceIsPressed**: a page reports, and in the end the device
  has, nothing that no user presses, apart from what slipped by the page and from
  pages that were cut off. That such keys do stay pressed is what the code does. Of the
  device nothing is said once a report was cut short by a button that was just learnt.
- **ReleasesArrive**: and what is stray on the device is released in the end.
- **LearntIsWhole**: a learnt button has a whole code or none, even when it is made of
  what an earlier learning left unread. The exception: a leftover that begins with a
  byte 116 inside a code and happens to have the length that its third byte tells passes
  the driver's test (`irduino.py:59`). **LearntIsNew** and **SentIsAsked** hold until a learning ends without a code; from then on a button
  may be given the code of an earlier press, and 'd' may send the code that
  was recorded last.

### Violations

Two properties state what a prompt tells the user, and are violated.

- `key_maps_shared`: the trash asks "Are you sure you want to delete this key map?"
  with the key of the item (`webremote.js:1377`). When the same key has a map in two
  activities, the reply to a save names the last row of the table
  (`webremote.py:99`), and `save_key_map_callback` (`webremote.js:1222`) gives that id
  to the item of the key in whichever activity is shown: the trash then deletes the
  map of the other activity.
- `voice_maps_named`: the same prompt for voice maps (`webremote.js:1400`). An element
  that was updated, or whose save is still under way, keeps the class
  `save_voice_map`; the next reply to an insertion gives it that row's id
  (`webremote.js:1243`), and the trash deletes that row instead.

### Bounds, and why they are enough

- `store`: `MaxId` bounds the rows that each table hands out, `MaxIds` their sum:
  a remote and a button besides the installed ones, two activities, and one bind of
  a kind at a time. Enough for every row to go while others refer to it, for its id to
  be wanted again, and for a late request to come. `get_tables` has the same with
  five rows and nothing installed. The proofs have no such bound.
- `MaxInFlight` and `MaxLog` bound the streams and the history: two frames in a stream
  are needed to reorder any, and three replies let one be missed between two that
  are heard.
- `MaxEdits` is the number of edits on all pages. In `button_maps` three make an edit,
  a crossing one and a third that acts on the outcome, such as a new map on each page
  under the same name and the deletion of one of them, or a remote that goes, a button
  learnt for it and a map of the button. The liveness property is checked with two,
  which already covers colliding names. `key_maps` has two, with switches of the
  activity and page loads that are not counted, `voice_maps` three.
- `MaxLosses`: one connection lost on top of the edits is enough for a page to miss
  a change, to come back and to edit on. When the edits and the loss are used up
  and every message has arrived, nothing is left to do: the two configurations of
  `ButtonMaps` therefore do not check for deadlock.
- `KeyInput`: two places in a report (six in the code) and two keys, which can hold three
  codes when a key's map or the activity changes while it is down, so that one is
  dropped; one place for modifiers (eight). Two keys are enough for both to have one
  code, and `MaxMishaps`, which bounds how often a key slips by, lets one of them be
  mapped anew while it is down. `KeyInput_proofs` has no such bounds.
- `IRduino`: a code of five bytes and one of nine that has 116 in the middle, so that
  what is left of the one may pass for a code; `MaxUnread` bounds what is on the line
  when a remote is pressed, five bytes being a code that was left unread.
- `PageSymmetry` exchanges the two pages, and is used for invariants only.

### Fairness

`WF(Receive(c))`: a browser that is alive handles the frames that have arrived;
its event loop does nothing else for long. `WF(Handle(p))`: Tornado's loop reads
every open connection. This leaves out learning an infrared code, during which
the server waits for the user (`irduino.py:57`). `RealtimeHistory` has the first,
`KeyInput` the second, `ButtonMaps` both. Nothing is assumed of users, of the
network, or of connections being noticed as closed. The other modules have no
fairness: their properties are safety.

## Proofs

For every value of the constants that meets the assumptions:

| module | theorem | states |
|---|---|---|
| `WebRemoteStore_proofs` | `Types` | `Spec => []TypeOK` |
| | `KeyMapsAreUnique` | `Spec => []KeyMapUnique` |
| | `RemovedIdsStayGone` | `Spec => []GoneForGood` |
| | `RepliesAreDurable` | `Spec => []ShownIsDurable` |
| | `ShownIdsAreNotRecycled` | `Spec => IdsNotRecycled` |
| | `BindsNameOwners` | `Spec => []BindsNameTheirRemote` |
| | `DeletesTakeAlong` | `Spec => DeletesCascade` |
| | `PagesResolve` | `LoadSpec => []LoadedResolves` |
| | `PagesAreDurable` | `LoadSpec => []ShownIsDurable` |
| | `PagesAreNotRecycled` | `LoadSpec => IdsNotRecycled` |
| `Realtime_proofs` | `ListenersOnce` | `Spec => []ListedOnce` |
| | `StreamTypes` | `Spec => []TypeOK` |
| | `ImplementsLogSafely` | `Spec => Abstract!Init /\ [][Abstract!Next]_(Abstract!vars)` |
| `ButtonMaps_proofs` | `PagesWellFormed` | `Spec => []TypeOK` |
| | `PagesHaveTheMaps` | `Spec => []MapsAgree` |
| | `PagesOfferTheButtons` | `Spec => []RemotesAgree` |
| | `PagesLoad` | `Spec => []PagesGetUp` |
| | `PagesShowTheBinds` | `Spec => []BindingsAgree` |
| `KeyMaps_proofs` | `KeysHaveOneMap` | `Spec => []TypeOK` |
| | `IdsStayWithTheirKey` | `Spec => []IdsNameTheirKey` |
| | `GoneButtonsStayUnmapped` | `Spec => []GoneButtonsUnmapped` |
| | `DictsAgreeWithTables` | `Spec => []KeysAgree` |
| `VoiceMaps_proofs` | `LoadedMapsStayTrue` | `Spec => []LoadedMapsAgree` |
| `KeyInput_proofs` | `ReportsArePressed` | `Spec => []ReportIsPressed` |
| | `ReportsWellFormed` | `Spec => []TypeOK` |
| | `PressedOnDevice` | `Spec => []DeviceIsPressed` |
| `IRduino_proofs` | `CodesAreWhole` | `Spec => []LearntIsWhole` |
| | `UnmarkedCodesAreWhole` | no code has 116 past its first place: learnt codes are whole |
| | `CodesAreNew` | `Spec => []LearntIsNew` |
| | `CodesAreTheOnesAsked` | `Spec => []SentIsAsked` |

The assumptions are those that the modules name. Of `WebRemoteStore`:
`InstalledAssumption`, `MaxIdAssumption`, and `DefaultKeysAssumption`, by which the
installed table has a key code at most once and names buttons of the installed
remote; of `KeyMaps`: `InstalledAssumption`, by which a key has at most one installed
map in an activity and no button has the id that stands for none, and
`KeysAssumption`, by which there are finitely many keys; of `ButtonMaps`:
`BoundsAssumption`, by which installed buttons have a remote; of
`KeyInput`: `ButtonsAssumption` and `BoundsAssumption`; of `IRduino`:
`CodesAssumption`, by which a code begins with 116 and its third byte tells its length;
of `VoiceMaps`: `VoiceAssumption`; of `Realtime`: `MaxInFlightAssumption`.

None of the invariants is inductive alone.

- **The store.** `IInv` adds what ties `db`, `disk`, `seen` and `gone` together: the
  sequences of `db` are not behind those of `disk` (`SeqAhead`); ids that were shown
  of the durable tables, and ids that were removed, are not above the committed
  sequence of their table (`SeenCommitted`, `GoneCommitted`), so that a new id is
  above both; and every key map's activity has been handed out (`ActivitiesKnown` in
  `KeysOK`), so that a fresh activity's id occurs in no key map, which is what lets
  `add_activity` copy the default keys without looking. The argument goes in three
  layers: lemmas on each statement (an insertion keeps the rows and adds ids above the
  sequence; deletions and updates add none); lemmas that each handler turns a good
  database into a good one; and one lemma for each way a handler ends, so that each
  action is a short case.
- **A bind's remote.** `BInv` is about all pairs of a button and a remote that are known
  anywhere: in the binds, in the default keys, and in what pages were shown. Each names
  a button that was given out and, as long as that button is there, its remote.
- **Deletes.** `CInv` adds that references, in rows and in what pages know, are not
  above the committed sequence of the table they lead to. A restart takes away only
  rows above the committed sequences, and so nothing that is referred to. For the
  handlers it uses `BindsNameOwners`: `delete_remote` finds binds by remote only.
- **Page loads.** `LInv` adds that what is committed grows out of what was committed
  before (`DiskBehind`) and what this means for tables that were read (`LoadOK`): the
  rows that a table has now were read, or lie above the sequence it had then.
- **The hub.** `HInv`: a connection takes its turn in the list once (`ListOK`); what is
  on its way to an open connection is the end of the log, and what it was delivered
  came before (`HistoryOK`). The refinement is proved step by step from it; its
  fairness is left to TLC.
- **Key maps.** `IInv` adds that id and key go together wherever they are: in the list,
  in the dict, and in frames on their way (`Known`, `NamesKey`). A row's key never
  changes and no id is given out twice (`TableStep`), so they stay together although the
  row may be gone before the frame arrives (`KnownStays`). `KInv` adds what lets a dict
  differ from the table (`Told`): wherever an entry does, what settles it is in one of
  the page's streams (a save that is pending, or the frame by which the map or its
  button goes), or the key is `overruled`; and no map on the page has a button that
  is gone, unless the frame that says so is on its way. One more message or frame keeps
  that (`ReplyTold`).
- **Voice maps.** `VInv`: on a page that missed nothing, an entry of the dict that is
  named for a row has this row, or the frame that takes it away is on its way, and every
  row from before the page was loaded has its entry (`Agrees`). A deletion that is on
  its way names a row that is gone for good (`FramesOK`), since no id is given out
  twice (`TableOK`), so that it takes no entry away whose row is there.
- **Button maps.** Four layers. `TInv`: every id that occurs
  anywhere was handed out, and a button goes with its remote as long as the button is
  there (`RightRemote`). `AllTold`, for pages that missed nothing: what the page's dicts
  and the frames in its stream say together is what the tables say (`RemotesTold`,
  `ButtonsTold`, `MapsTold`), where the order of the frames matters: a remote's addition
  comes before its deletion, a map's row before the map is gone. A button that is learnt
  for a remote that is gone already comes after that remote's deletion (`LearntLate`).
  `Sound`, while no page that missed a change was used (`blind`): whatever binds a
  button that is there binds it with a remote that is there, which is what makes pages
  load. The lemmas say what each kind of frame does to a page (`Receives`), what one
  more frame does to what it was told (`ToldBecomes`), and what the server's handlers
  do to tables and frame together (`Tabled`).
  `AllBinds`, again for pages that missed nothing: the last that the page has or will
  get of a row's bind, its element or a frame (`Gives`), agrees with the row; or the row
  is unbound, and a frame that comes later, by which the button or the remote goes,
  takes the bind away (`WillShow`). Two exceptions: while a bind by the page's own user
  is on its way to the server (`Pending`), the page is ahead of the table; and the
  rows that the property excepts are out of scope (`InScope`). Other installed rows are
  unbound or bound to a button that is there (`PlainRows`). It needs that a shown bind
  is found by the callbacks which take it away, through the index (`Indexed`), and that
  the page knows a button by the time a frame binds a map to it (`FramesKnown`), since
  it ignores the bind otherwise.
- **Reports.** A code is in one place of its report only, so that releasing it takes it
  out; what is in the report is held by keys, or slipped by, and what is repeated by
  the on-screen button. `DInv` adds the device: what the last message of
  a page about a report presses, and what the device has pressed unless such a message
  is on its way, some open page keeps in that report or is going to clear (`Accounted`),
  as long as no page was `cut` off and the module is in step (`OutOfStep`).
- **The infrared line.** What has been read, waits and arrives is one stream; whatever
  byte of a code is found there, the rest of that code follows (`Framed`), so that what passes the driver's test and
  begins where a code begins is that code; as long as
  nothing was cut short, the line holds at most the code being learnt (`Clean`), and
  the Arduino's memory is what the server takes it to be.

Every invariant of a passing run is stated by one of these theorems, and so are the
action properties `IdsNotRecycled` and `DeletesCascade`. Only model-checked: liveness
(`TempsAreNamed`, `ReleasesArrive`) and the fairness of `ImplementsBroadcastLog`, whose
safety part is `ImplementsLogSafely`. They need `ENABLED` of the fair actions, which the
installed provers do not reason about.

## Not modelled

- The web2py framework (`gluon/`, `handlers/`, `scripts/`, `extras/`, `examples/`,
  `site-packages/`) and its application `admin` are vendored and are by far most of the
  repository's lines. `SqlTables` has what the handlers use of the
  database layer.
- The hub's posting and token endpoints, further groups and names: nothing in the
  program uses them.
- `irtoy.py`, `default.py`, `appadmin.py`, `db.py`, `menu.py` and the former client:
  nothing in the program imports or loads them, or they are the unchanged scaffold.
- Settings, edit mode's appearance, the desktop and mobile layouts, and places and
  classes of maps: presentation state.
- Speech recognition, and the press that a spoken command makes: what annyang calls
  back with is outside the repository.
- Tabs of activities that come and go on the pages. `delete_activity_callback` hides a
  tab and changes nothing else; with it as a further kind of edit, `ButtonMaps` and
  `KeyMaps` are beyond what TLC does in minutes. The tables' side is in
  `WebRemoteStore`.
- What pages make of a statement that the locked database refused, and edits while the
  connection is down.

## What is left to do

1. A module of its own for the activities on the pages, with one kind of map, so that
   the saves that go to a deleted activity can be followed up to the next page load.
2. `ButtonMaps` with refused statements, and with edits while the connection is down.

## Running

    tlc -workers 2 -config Store.cfg MCWebRemoteStore      # or another run of the table
    tlapm KeyMaps_proofs.tla                               # or another module of proofs

A run takes from some seconds to two minutes, a module of proofs a few minutes.
