-------------------------- MODULE WebRemoteStore --------------------------
(***************************************************************************)
(* The database behind the remote control, and the handlers of             *)
(* modules/webremote.py that the websocket server runs on it.              *)
(*                                                                         *)
(* The server is one process with one event loop: a handler runs from its  *)
(* first statement to its reply before the next message is looked at, so a *)
(* handler is one action.  What makes the order of handlers hard is        *)
(*   - that a request is built by a page from ids the page was shown at    *)
(*     some earlier time, and may arrive after those rows are gone;        *)
(*   - that the connection keeps its transaction open from the first       *)
(*     statement that writes to the next commit, whichever handler that    *)
(*     commit is in, so a reply may be sent before its rows are durable;   *)
(*   - that a commit may be refused ("database is locked") and is then     *)
(*     neither retried nor rolled back;                                    *)
(*   - that the server may be killed (stop.sh, reload.sh, reboot) between  *)
(*     any two handlers.                                                   *)
(*                                                                         *)
(* Names, coordinates, CSS classes, delays and IR codes are left out.      *)
(***************************************************************************)
EXTENDS Integers, Sequences, SqlTables

CONSTANTS
    KeyCodes,          \* key codes of the client's keyboard
    DefaultKeys,       \* the rows of default_key_to_button, by id
    InstalledButtons,  \* number of buttons of the installed Bluetooth remote
    MaxId,             \* bound of the model: the largest id of each table
    MaxIds             \* bound of the model: ids given out before no more are

BTRemote == 1          \* the installed Bluetooth remote

Tables == {"remotes", "remote_buttons", "activities",
           "button_binds", "key_binds", "voice_binds"}

Ids == Nat \ {Null}

(***************************************************************************)
(* The columns of a row that the properties tell apart.                    *)
(***************************************************************************)
RowType ==
    [remotes        |-> [remote_type: {"BT", "IR"}],
     remote_buttons |-> [remote_id: Ids],
     activities     |-> [name: {"activity"}],
     button_binds   |-> [remote_id: Nat, button_id: Nat, activity_id: Ids],
     key_binds      |-> [key_code: KeyCodes, remote_id: Ids, button_id: Ids,
                         activity_id: Ids],
     voice_binds    |-> [remote_id: Ids, button_id: Ids, activity_id: Ids]]

DefaultKeyRow ==
    [key_code: KeyCodes, remote_id: {BTRemote}, button_id: 1..InstalledButtons]

ASSUME InstalledAssumption == InstalledButtons \in Nat

ASSUME MaxIdAssumption == MaxId \in [Tables -> Nat] /\ MaxIds \in Nat

\* The installed table maps a key code once, to a button of the Bluetooth remote.
ASSUME DefaultKeysAssumption ==
    /\ DefaultKeys \in Seq(DefaultKeyRow)
    /\ \A m, n \in DOMAIN DefaultKeys :
          DefaultKeys[m].key_code = DefaultKeys[n].key_code => m = n

-----------------------------------------------------------------------------
Unbind_ButtonOnly(tab, ids) ==            \* mutant
    [seq  |-> tab.seq,
     rows |-> [i \in DOMAIN tab.rows |->
                  IF i \in ids THEN [tab.rows[i] EXCEPT !.button_id = Null]
                               ELSE tab.rows[i]]]

\* update(remote_id=None, button_id=None)
Unbind(tab, ids) ==
    [seq  |-> tab.seq,
     rows |-> [i \in DOMAIN tab.rows |->
                  IF i \in ids
                  THEN [tab.rows[i] EXCEPT !.remote_id = Null, !.button_id = Null]
                  ELSE tab.rows[i]]]

\* update(activity_id=a)
MoveTo(tab, ids, a) ==
    [seq  |-> tab.seq,
     rows |-> [i \in DOMAIN tab.rows |->
                  IF i \in ids THEN [tab.rows[i] EXCEPT !.activity_id = a]
                               ELSE tab.rows[i]]]

-----------------------------------------------------------------------------
(***************************************************************************)
(* The handlers, as functions from the database to the database.           *)
(***************************************************************************)
ActivityRow == [name |-> "activity"]

\* The activity as line 10 commits it, before the default keys are copied.
add_activity_row(s) == [s EXCEPT !.activities = Insert(@, ActivityRow)]

copy_default_keys(s, a) ==
    [s EXCEPT !.key_binds =
        InsertAll(@, [n \in 1..Len(DefaultKeys) |->
            [key_code    |-> DefaultKeys[n].key_code,
             remote_id   |-> DefaultKeys[n].remote_id,
             button_id   |-> DefaultKeys[n].button_id,
             activity_id |-> a]])]

delete_activity(s, a) ==
    [s EXCEPT !.activities   = Delete(@, {a}),
              !.button_binds = Delete(@, Having(@, "activity_id", a)),
              !.key_binds    = Delete(@, Having(@, "activity_id", a))]

add_remote(s) == [s EXCEPT !.remotes = Insert(@, [remote_type |-> "IR"])]

delete_remote(s, r) ==
    [s EXCEPT !.remotes        = Delete(@, {r}),
              !.remote_buttons = Delete(@, Having(@, "remote_id", r)),
              !.button_binds   = Unbind(@, Having(@, "remote_id", r)),
              !.key_binds      = Delete(@, Having(@, "remote_id", r))]

add_remote_button(s, r) ==
    [s EXCEPT !.remote_buttons = Insert(@, [remote_id |-> r])]

delete_remote_button(s, b) ==
    [s EXCEPT !.remote_buttons = Delete(@, {b}),
              !.button_binds   = Unbind(@, Having(@, "button_id", b)),
              !.key_binds      = Delete(@, Having(@, "button_id", b))]

delete_button_map(s, i) == [s EXCEPT !.button_binds = Delete(@, {i})]

insert_button_map(s, row) == [s EXCEPT !.button_binds = Insert(@, row)]

update_button_map_KeepRemote(s, i, row) ==  \* mutant
    [s EXCEPT !.button_binds =
        [seq  |-> @.seq,
         rows |-> [j \in DOMAIN @.rows |->
            IF j = i THEN [row EXCEPT !.remote_id = s.button_binds.rows[j].remote_id]
                     ELSE s.button_binds.rows[j]]]]

\* A page that shows the map unbound sends neither remote_id nor button_id, and
\* the two columns keep what they have.
update_button_map(s, i, row) ==
    IF row.button_id # Null
    THEN [s EXCEPT !.button_binds = Assign(@, {i}, row)]
    ELSE [s EXCEPT !.button_binds = MoveTo(@, {i}, row.activity_id)]

delete_key_map(s, i) == [s EXCEPT !.key_binds = Delete(@, {i})]

KeyMapsOf(s, k, a) ==
    Having(s.key_binds, "key_code", k) \cap Having(s.key_binds, "activity_id", a)

save_key_map_Insert(s, row) == [s EXCEPT !.key_binds = Insert(@, row)]  \* mutant

\* update_or_insert: the first row of this key and activity, or a new one.
save_key_map(s, row) ==
    LET found == KeyMapsOf(s, row.key_code, row.activity_id)
    IN  [s EXCEPT !.key_binds = IF found = {} THEN Insert(@, row)
                                              ELSE Assign(@, FirstOf(found), row)]

delete_voice_map(s, i) == [s EXCEPT !.voice_binds = Delete(@, {i})]

insert_voice_map(s, row) == [s EXCEPT !.voice_binds = Insert(@, row)]

update_voice_map(s, i, row) == [s EXCEPT !.voice_binds = Assign(@, {i}, row)]

-----------------------------------------------------------------------------
VARIABLES
    db,      \* the tables as the server's connection sees them
    disk,    \* the tables as committed: what other processes and a restart see
    txn,     \* the connection is in a transaction, and holds the write lock
    seen,    \* the ids that replies and page loads have shown to some page
    owners,  \* the buttons pages were shown, each with its remote
    gone     \* history: the ids that a committed handler removed

vars == <<db, disk, txn, seen, owners, gone>>

IdsIn(s, t) == DOMAIN s[t].rows

OwnersIn(tab, ids) ==
    {[button_id |-> b, remote_id |-> tab.rows[b].remote_id] : b \in ids}

InstalledStore ==
    [t \in Tables |->
        CASE t = "remotes"        -> [seq |-> 1, rows |-> [i \in {BTRemote} |-> [remote_type |-> "BT"]]]
          [] t = "remote_buttons" -> [seq |-> InstalledButtons,
                                      rows |-> [i \in 1..InstalledButtons |-> [remote_id |-> BTRemote]]]
          [] OTHER                -> [seq |-> 0, rows |-> [i \in {} |-> Null]]]

Init ==
    /\ db = InstalledStore
    /\ disk = InstalledStore
    /\ txn = FALSE
    /\ seen = [t \in Tables |-> {}]
    /\ owners = {}
    /\ gone = [t \in Tables |-> {}]

(***************************************************************************)
(* How a handler ends.  A handler whose first statement finds the write    *)
(* lock taken by the web process changes nothing: that is a stutter.       *)
(***************************************************************************)

\* db.commit() went through: the connection's whole transaction is durable.
Commit(durable) ==
    /\ disk' = durable
    /\ gone' = [t \in Tables |->
                   gone[t] \cup ((IdsIn(db, t) \cup IdsIn(disk, t)) \ IdsIn(durable, t))]

Done_NoCommit(new) == db' = new /\ txn' = TRUE /\ UNCHANGED <<disk, gone>>  \* mutant

\* The handler's changes are committed; what it replies is the caller's.
Done(new) == db' = new /\ txn' = FALSE /\ Commit(new)

\* db.commit() raised: on_message drops the message, the changes stay pending.
Refused(new) == db' = new /\ txn' = TRUE /\ UNCHANGED <<disk, gone, seen, owners>>

\* "No such record" raised after a DELETE that found nothing.
NoSuchRecord == txn' = TRUE /\ UNCHANGED <<db, disk, gone, seen, owners>>

Show(t, ids) == seen' = [seen EXCEPT ![t] = @ \cup ids]

SilentReply == UNCHANGED <<seen, owners>>

Given(s) ==
    s.remotes.seq + s.remote_buttons.seq + s.activities.seq
        + s.button_binds.seq + s.key_binds.seq + s.voice_binds.seq

\* Bound of the model: no table gives out more than MaxId ids, and none gives out
\* any when all of them have given out MaxIds.
Room(t, n) == db[t].seq + n <= MaxId[t] /\ Given(db) < MaxIds

-----------------------------------------------------------------------------
(***************************************************************************)
(* The requests.                                                           *)
(***************************************************************************)
DefaultKeyCount == Len(DefaultKeys)

\* The reply holds one of the new key maps: the loop that collects them clears
\* the dict on every turn.
OneOf(ids) == IF ids = {} THEN {{}} ELSE {{i} : i \in ids}

AddActivity ==
    /\ Room("activities", 1)
    /\ Room("key_binds", DefaultKeyCount)
    /\ LET added == add_activity_row(db)
       IN  \/ Refused(added)
           \/ Done(added) /\ SilentReply        \* copying found the lock taken
           \/ \E a \in LastIds(added.activities) :
                  LET copied == copy_default_keys(added, a)
                  IN  /\ db' = copied
                      /\ Commit(added)
                      /\ txn' = (DefaultKeyCount > 0)
                      /\ \E shown \in OneOf(Having(copied.key_binds, "activity_id", a)) :
                            seen' = [seen EXCEPT !.activities = @ \cup {a},
                                                 !.key_binds = @ \cup shown]
                      /\ UNCHANGED owners

DeleteActivity(a) ==
    LET new == delete_activity(db, a)
    IN  \/ Done(new) /\ SilentReply
        \/ Refused(new)

AddRemote ==
    /\ Room("remotes", 1)
    /\ LET new == add_remote(db)
       IN  \/ Done(new) /\ Show("remotes", LastIds(new.remotes)) /\ UNCHANGED owners
           \/ Refused(new)

\* The tab of a Bluetooth remote cannot be dragged to the trash.
DeleteRemote(r) ==
    /\ r # BTRemote
    /\ IF r \in IdsIn(db, "remotes")
       THEN LET new == delete_remote(db, r)
            IN  \/ Done(new) /\ SilentReply
                \/ Refused(new)
       ELSE NoSuchRecord

\* A learned code becomes a button; the Bluetooth remote offers no learning.
AddRemoteButton(r) ==
    /\ r # BTRemote
    /\ Room("remote_buttons", 1)
    /\ LET new  == add_remote_button(db, r)
           last == LastIds(new.remote_buttons)
       IN  \/ /\ Done(new)
              /\ Show("remote_buttons", last)
              /\ owners' = owners \cup OwnersIn(new.remote_buttons, last)
           \/ Refused(new)

DeleteRemoteButton(b) ==
    IF b \in IdsIn(db, "remote_buttons")
    THEN LET new == delete_remote_button(db, b)
         IN  \/ Done(new) /\ SilentReply
             \/ Refused(new)
    ELSE NoSuchRecord

\* The handler swallows every exception and acknowledges all the same.
DeleteButtonMap(i) ==
    IF i \in IdsIn(db, "button_binds")
    THEN LET new == delete_button_map(db, i)
         IN  \/ Done(new) /\ SilentReply
             \/ Refused(new)
    ELSE NoSuchRecord

ButtonMapRows ==
    {[remote_id |-> o.remote_id, button_id |-> o.button_id, activity_id |-> a] :
        o \in owners \cup {[remote_id |-> Null, button_id |-> Null]},
        a \in seen.activities}

InsertButtonMap(row) ==
    /\ Room("button_binds", 1)
    /\ LET new == insert_button_map(db, row)
       IN  \/ Done(new) /\ Show("button_binds", LastIds(new.button_binds)) /\ UNCHANGED owners
           \/ Refused(new)

UpdateButtonMap(i, row) ==
    LET new == update_button_map(db, i, row)
    IN  \/ Done(new) /\ SilentReply
        \/ Refused(new)

\* A missing row has no as_dict: the exception is swallowed before any write.
DeleteKeyMap(i) ==
    /\ i \in IdsIn(db, "key_binds")
    /\ LET new == delete_key_map(db, i)
       IN  \/ Done(new) /\ SilentReply
           \/ Refused(new)

KeyMapRows ==
    {[key_code |-> k, remote_id |-> o.remote_id, button_id |-> o.button_id,
      activity_id |-> a] : k \in KeyCodes, o \in owners, a \in seen.activities}

SaveKeyMap(row) ==
    /\ KeyMapsOf(db, row.key_code, row.activity_id) = {} => Room("key_binds", 1)
    /\ LET new == save_key_map(db, row)
       IN  \/ Done(new) /\ Show("key_binds", LastIds(new.key_binds)) /\ UNCHANGED owners
           \/ Refused(new)

DeleteVoiceMap(i) ==
    /\ i \in IdsIn(db, "voice_binds")
    /\ LET new == delete_voice_map(db, i)
       IN  \/ Done(new) /\ SilentReply
           \/ Refused(new)

VoiceMapRows ==
    {[remote_id |-> o.remote_id, button_id |-> o.button_id, activity_id |-> a] :
        o \in owners, a \in seen.activities}

InsertVoiceMap(row) ==
    /\ Room("voice_binds", 1)
    /\ LET new == insert_voice_map(db, row)
       IN  \/ Done(new) /\ Show("voice_binds", LastIds(new.voice_binds)) /\ UNCHANGED owners
           \/ Refused(new)

UpdateVoiceMap(i, row) ==
    LET new == update_voice_map(db, i, row)
    IN  \/ Done(new) /\ SilentReply
        \/ Refused(new)

(***************************************************************************)
(* A page is built by the web process, which reads what is committed.      *)
(***************************************************************************)
PageLoad ==
    /\ seen' = [t \in Tables |-> seen[t] \cup IdsIn(disk, t)]
    /\ owners' = owners \cup OwnersIn(disk.remote_buttons, IdsIn(disk, "remote_buttons"))
    /\ UNCHANGED <<db, disk, txn, gone>>

(***************************************************************************)
(* The server is killed and started again: what was not committed is lost, *)
(* the sequences included.  The pages live on.                             *)
(***************************************************************************)
Restart ==
    /\ db' = disk
    /\ txn' = FALSE
    /\ UNCHANGED <<disk, seen, owners, gone>>

Next ==
    \/ AddActivity
    \/ \E a \in seen.activities : DeleteActivity(a)
    \/ AddRemote
    \/ \E r \in seen.remotes : DeleteRemote(r)
    \/ \E r \in seen.remotes : AddRemoteButton(r)
    \/ \E b \in seen.remote_buttons : DeleteRemoteButton(b)
    \/ \E i \in seen.button_binds : DeleteButtonMap(i)
    \/ \E row \in ButtonMapRows : InsertButtonMap(row)
    \/ \E i \in seen.button_binds, row \in ButtonMapRows : UpdateButtonMap(i, row)
    \/ \E i \in seen.key_binds : DeleteKeyMap(i)
    \/ \E row \in KeyMapRows : SaveKeyMap(row)
    \/ \E i \in seen.voice_binds : DeleteVoiceMap(i)
    \/ \E row \in VoiceMapRows : InsertVoiceMap(row)
    \/ \E i \in seen.voice_binds, row \in VoiceMapRows : UpdateVoiceMap(i, row)
    \/ PageLoad
    \/ Restart

Spec == Init /\ [][Next]_vars

-----------------------------------------------------------------------------
(***************************************************************************)
(* Properties                                                              *)
(***************************************************************************)
TableOK(tab, R) ==
    /\ tab = [seq |-> tab.seq, rows |-> tab.rows]
    /\ tab.seq \in Nat
    /\ DOMAIN tab.rows \subseteq 1..tab.seq
    /\ tab.rows \in [DOMAIN tab.rows -> R]

StoreOK(s) == DOMAIN s = Tables /\ \A t \in Tables : TableOK(s[t], RowType[t])

\* Every table holds rows of its type, under ids its sequence has given out.
TypeOK ==
    /\ StoreOK(db) /\ StoreOK(disk)
    /\ txn \in BOOLEAN
    /\ seen \in [Tables -> SUBSET Ids]
    /\ owners \subseteq [button_id: Ids, remote_id: Ids]
    /\ gone \in [Tables -> SUBSET Ids]

KeyMapsUnique(s) ==
    \A i, j \in IdsIn(s, "key_binds") :
        /\ s.key_binds.rows[i].key_code = s.key_binds.rows[j].key_code
        /\ s.key_binds.rows[i].activity_id = s.key_binds.rows[j].activity_id
        => i = j

\* A key has at most one map in an activity, for every order of default keys
\* copied by add_activity and of early, late and repeated save_key_map calls.
\* get_tables files the maps by activity and key code, and would drop a second.
KeyMapUnique == KeyMapsUnique(db) /\ KeyMapsUnique(disk)

BindTables == {"button_binds", "key_binds", "voice_binds"}

BindPairs(s) ==
    \A t \in BindTables : \A i \in IdsIn(s, t) :
        LET bind == s[t].rows[i]
        IN  bind.button_id \in IdsIn(s, "remote_buttons") =>
                bind.remote_id = s.remote_buttons.rows[bind.button_id].remote_id

\* A bind to an existing button names the remote that owns the button, however
\* old the page that sent the pair.  delete_remote finds the binds of the remote's
\* buttons by remote_id alone.
BindsNameTheirRemote == BindPairs(db) /\ BindPairs(disk)

\* An id that a committed handler removed never denotes a row again: a request
\* that a page built from it cannot reach another row.
GoneForGood ==
    \A t \in Tables : gone[t] \cap (IdsIn(db, t) \cup IdsIn(disk, t)) = {}

DurableTables == Tables \ {"key_binds"}

\* A row that some page was shown survives a restart.  key_binds is the exception:
\* add_activity replies with default key maps that it has not committed.
ShownIsDurable ==
    \A t \in DurableTables : seen[t] \cap IdsIn(db, t) \subseteq IdsIn(disk, t)

\* An id that was shown to a page is never given to a new row, restarts included;
\* it can only come back as the row whose delete was not committed.
IdsNotRecycled ==
    [][\A t \in DurableTables :
          (IdsIn(db, t)' \ IdsIn(db, t)) \cap seen[t] \subseteq IdsIn(disk, t)]_vars

\* The references that the delete handlers keep: voice_binds is not among them.
References ==
    [from: {"button_binds", "key_binds"}, col: {"activity_id"}, to: {"activities"}]
        \cup [from: {"button_binds", "key_binds"}, col: {"button_id"}, to: {"remote_buttons"}]
        \cup [from: {"button_binds", "key_binds", "remote_buttons"}, col: {"remote_id"}, to: {"remotes"}]

Resolves(s, ref, i) == s[ref.from].rows[i][ref.col] \in IdsIn(s, ref.to)

\* No handler and no restart leaves a bind or a button, itself unchanged, pointing
\* at a row that has just disappeared: each delete takes everything that hangs on
\* the row with it.  A dangling bind can only come from a request that arrived late.
DeletesCascade ==
    [][\A ref \in References :
         \A i \in IdsIn(db, ref.from) \cap IdsIn(db, ref.from)' :
            (db[ref.from].rows[i] = db'[ref.from].rows[i] /\ Resolves(db, ref, i))
                => Resolves(db', ref, i)]_vars

=============================================================================
