----------------------- MODULE WebRemoteStore_proofs -----------------------
(***************************************************************************)
(* Proofs about WebRemoteStore, and about GetTables on top of it, for      *)
(* every number of ids, every set of key codes and every table of default  *)
(* keys.  In four parts, each of which uses the ones before it:            *)
(*   1. types, uniqueness of key maps, ids that do not come back;          *)
(*   2. a bind names its button's remote;                                  *)
(*   3. deletes take along what refers to a row;                           *)
(*   4. page loads.                                                        *)
(***************************************************************************)
EXTENDS GetTables, TLAPS

-----------------------------------------------------------------------------
(***************************************************************************)
(* Part 1.  Types, key maps and ids.                                       *)
(*                                                                         *)
(* The argument has three levels: what each table operation returns, what  *)
(* each handler makes of a well-formed database, and what the two ways a   *)
(* handler ends (committed, refused) make of the connection's view and the *)
(* committed one.                                                          *)
(***************************************************************************)
(***************************************************************************)
(* A table that grew out of another one: the ids that are new lie above    *)
(* everything the sequence had given out.                                  *)
(***************************************************************************)
GrownFrom(old, new) ==
    /\ old.seq <= new.seq
    /\ \A i \in DOMAIN new.rows : i \in DOMAIN old.rows \/ i > old.seq

LEMMA InsertAllTable ==
    ASSUME NEW R, NEW tab, TableOK(tab, R), NEW rows \in Seq(R)
    PROVE  /\ TableOK(InsertAll(tab, rows), R)
           /\ GrownFrom(tab, InsertAll(tab, rows))
<1> DEFINE new == InsertAll(tab, rows)
<1>1. /\ Len(rows) \in Nat
      /\ rows \in [1..Len(rows) -> R]
  OBVIOUS
<1>2. /\ new.seq = tab.seq + Len(rows)
      /\ DOMAIN new.rows = DOMAIN tab.rows \cup (tab.seq + 1)..(tab.seq + Len(rows))
      /\ new = [seq |-> new.seq, rows |-> new.rows]
  BY DEF InsertAll
<1>3. ASSUME NEW i \in DOMAIN new.rows
      PROVE  new.rows[i] \in R
  <2>1. CASE i \in DOMAIN tab.rows
    <3>1. new.rows[i] = tab.rows[i]
      BY <2>1 DEF InsertAll
    <3> QED
      BY <2>1, <3>1 DEF TableOK
  <2>2. CASE i \notin DOMAIN tab.rows
    <3>1. i \in (tab.seq + 1)..(tab.seq + Len(rows)) /\ new.rows[i] = rows[i - tab.seq]
      BY <2>2, <1>2 DEF InsertAll
    <3>2. i - tab.seq \in 1..Len(rows)
      BY <3>1, <1>1 DEF TableOK
    <3> QED
      BY <3>1, <3>2, <1>1
  <2> QED
    BY <2>1, <2>2
<1>4. new.rows \in [DOMAIN new.rows -> R]
  <2>1. new.rows = [i \in DOMAIN new.rows |-> new.rows[i]]
    BY DEF InsertAll
  <2> QED
    BY <1>3, <2>1
<1>5. TableOK(new, R)
  BY <1>1, <1>2, <1>4 DEF TableOK
<1>6. GrownFrom(tab, new)
  BY <1>1, <1>2 DEF GrownFrom, TableOK
<1> QED
  BY <1>5, <1>6

LEMMA InsertTable ==
    ASSUME NEW R, NEW tab, TableOK(tab, R), NEW row \in R
    PROVE  /\ TableOK(Insert(tab, row), R)
           /\ GrownFrom(tab, Insert(tab, row))
           /\ Insert(tab, row).seq = tab.seq + 1
           /\ DOMAIN Insert(tab, row).rows = DOMAIN tab.rows \cup {tab.seq + 1}
           /\ \A i \in DOMAIN tab.rows : Insert(tab, row).rows[i] = tab.rows[i]
           /\ Insert(tab, row).rows[tab.seq + 1] = row
<1>1. <<row>> \in Seq(R) /\ Len(<<row>>) = 1 /\ <<row>>[1] = row
  OBVIOUS
<1>2. /\ TableOK(Insert(tab, row), R)
      /\ GrownFrom(tab, Insert(tab, row))
  BY <1>1, InsertAllTable DEF Insert
<1>3. tab.seq \in Nat /\ tab.seq + 1 \notin DOMAIN tab.rows /\ (tab.seq + 1)..(tab.seq + 1) = {tab.seq + 1}
  BY DEF TableOK
<1>4. /\ Insert(tab, row).seq = tab.seq + 1
      /\ DOMAIN Insert(tab, row).rows = DOMAIN tab.rows \cup {tab.seq + 1}
  BY <1>1, <1>3 DEF Insert, InsertAll
<1>5. \A i \in DOMAIN tab.rows : Insert(tab, row).rows[i] = tab.rows[i]
  BY DEF Insert, InsertAll
<1>6. Insert(tab, row).rows[tab.seq + 1] = row
  <2>1. tab.seq + 1 \in DOMAIN tab.rows \cup (tab.seq + 1)..(tab.seq + Len(<<row>>))
    BY <1>1, <1>3
  <2>2. tab.seq + 1 - tab.seq = 1
    BY <1>3
  <2> QED
    BY <1>1, <1>3, <2>1, <2>2 DEF Insert, InsertAll
<1> QED
  BY <1>2, <1>4, <1>5, <1>6

LEMMA DeleteTable ==
    ASSUME NEW R, NEW tab, TableOK(tab, R), NEW ids
    PROVE  /\ TableOK(Delete(tab, ids), R)
           /\ GrownFrom(tab, Delete(tab, ids))
           /\ Delete(tab, ids).seq = tab.seq
           /\ DOMAIN Delete(tab, ids).rows = DOMAIN tab.rows \ ids
           /\ \A i \in DOMAIN tab.rows \ ids : Delete(tab, ids).rows[i] = tab.rows[i]
BY DEF TableOK, GrownFrom, Delete, Restrict

LEMMA AssignTable ==
    ASSUME NEW R, NEW tab, TableOK(tab, R), NEW ids, NEW row \in R
    PROVE  /\ TableOK(Assign(tab, ids, row), R)
           /\ GrownFrom(tab, Assign(tab, ids, row))
           /\ Assign(tab, ids, row).seq = tab.seq
           /\ DOMAIN Assign(tab, ids, row).rows = DOMAIN tab.rows
           /\ \A i \in DOMAIN tab.rows :
                Assign(tab, ids, row).rows[i] = IF i \in ids THEN row ELSE tab.rows[i]
BY DEF TableOK, GrownFrom, Assign

ButtonBindRow == [remote_id: Nat, button_id: Nat, activity_id: Ids]

LEMMA UnbindTable ==
    ASSUME NEW tab, TableOK(tab, ButtonBindRow), NEW ids
    PROVE  /\ TableOK(Unbind(tab, ids), ButtonBindRow)
           /\ GrownFrom(tab, Unbind(tab, ids))
<1> DEFINE new == Unbind(tab, ids)
<1>1. /\ new = [seq |-> new.seq, rows |-> new.rows]
      /\ new.seq = tab.seq
      /\ DOMAIN new.rows = DOMAIN tab.rows
      /\ new.rows = [i \in DOMAIN new.rows |-> new.rows[i]]
  BY DEF Unbind
<1>2. ASSUME NEW i \in DOMAIN tab.rows
      PROVE  new.rows[i] \in ButtonBindRow
  <2>1. tab.rows[i] \in ButtonBindRow
    BY DEF TableOK
  <2>2. [tab.rows[i] EXCEPT !.remote_id = Null, !.button_id = Null] \in ButtonBindRow
    BY <2>1 DEF ButtonBindRow, Null
  <2> QED
    BY <2>1, <2>2 DEF Unbind
<1> QED
  BY <1>1, <1>2 DEF TableOK, GrownFrom

LEMMA MoveToTable ==
    ASSUME NEW tab, TableOK(tab, ButtonBindRow), NEW ids, NEW a \in Ids
    PROVE  /\ TableOK(MoveTo(tab, ids, a), ButtonBindRow)
           /\ GrownFrom(tab, MoveTo(tab, ids, a))
<1> DEFINE new == MoveTo(tab, ids, a)
<1>1. /\ new = [seq |-> new.seq, rows |-> new.rows]
      /\ new.seq = tab.seq
      /\ DOMAIN new.rows = DOMAIN tab.rows
      /\ new.rows = [i \in DOMAIN new.rows |-> new.rows[i]]
  BY DEF MoveTo
<1>2. ASSUME NEW i \in DOMAIN tab.rows
      PROVE  new.rows[i] \in ButtonBindRow
  <2>1. tab.rows[i] \in ButtonBindRow
    BY DEF TableOK
  <2>2. [tab.rows[i] EXCEPT !.activity_id = a] \in ButtonBindRow
    BY <2>1 DEF ButtonBindRow
  <2> QED
    BY <2>1, <2>2 DEF MoveTo
<1> QED
  BY <1>1, <1>2 DEF TableOK, GrownFrom

-----------------------------------------------------------------------------
(***************************************************************************)
(* The handlers.  Each makes a well-formed database that grew out of the   *)
(* one it was given, and keeps the key maps unique.                        *)
(***************************************************************************)
StoreGrown(s, new) == \A t \in Tables : GrownFrom(s[t], new[t])

\* No key map names an activity that has not been given out yet.
ActivitiesKnown(s) ==
    \A i \in IdsIn(s, "key_binds") :
        s.key_binds.rows[i].activity_id <= s.activities.seq

KeysOK(s) == KeyMapsUnique(s) /\ ActivitiesKnown(s)

GoodStep(s, new) == StoreOK(new) /\ StoreGrown(s, new) /\ KeysOK(new)

LEMMA GrownReflexive ==
    ASSUME NEW R, NEW tab, TableOK(tab, R)
    PROVE  GrownFrom(tab, tab)
BY DEF TableOK, GrownFrom

\* A handler that adds no key map and changes none keeps them unique.
LEMMA KeysKept ==
    ASSUME NEW s, NEW new, StoreOK(s), StoreOK(new), StoreGrown(s, new), KeysOK(s),
           \A i \in IdsIn(new, "key_binds") :
                /\ i \in IdsIn(s, "key_binds")
                /\ new.key_binds.rows[i] = s.key_binds.rows[i]
    PROVE  KeysOK(new)
<1>1. /\ s.activities.seq \in Nat /\ new.activities.seq \in Nat
      /\ s.activities.seq <= new.activities.seq
  BY DEF StoreOK, TableOK, StoreGrown, GrownFrom, Tables
<1>2. \A i \in IdsIn(s, "key_binds") : s.key_binds.rows[i].activity_id \in Nat
  BY DEF StoreOK, TableOK, RowType, Tables, IdsIn, Ids
<1>3. KeyMapsUnique(new)
  BY DEF KeysOK, KeyMapsUnique
<1>4. ActivitiesKnown(new)
  BY <1>1, <1>2 DEF KeysOK, ActivitiesKnown
<1> QED
  BY <1>3, <1>4 DEF KeysOK

\* A handler that replaces one table by a well-formed one that grew out of it.
LEMMA OneTable ==
    ASSUME NEW s, NEW t \in Tables, NEW tab,
           StoreOK(s), TableOK(tab, RowType[t]), GrownFrom(s[t], tab)
    PROVE  StoreOK([s EXCEPT ![t] = tab]) /\ StoreGrown(s, [s EXCEPT ![t] = tab])
BY GrownReflexive DEF StoreOK, StoreGrown

LEMMA OtherTable ==
    ASSUME NEW s, NEW t \in Tables \ {"key_binds"}, NEW tab,
           StoreOK(s), KeysOK(s), TableOK(tab, RowType[t]), GrownFrom(s[t], tab)
    PROVE  GoodStep(s, [s EXCEPT ![t] = tab])
<1> DEFINE new == [s EXCEPT ![t] = tab]
<1>1. StoreOK(new) /\ StoreGrown(s, new)
  BY OneTable
<1>2. new["key_binds"] = s["key_binds"]
  BY DEF StoreOK, Tables
<1>3. KeysOK(new)
  BY <1>1, <1>2, KeysKept DEF IdsIn
<1> QED
  BY <1>1, <1>3 DEF GoodStep

LEMMA AddActivityRowGood ==
    ASSUME NEW s, StoreOK(s), KeysOK(s)
    PROVE  GoodStep(s, add_activity_row(s))
<1> DEFINE tab == Insert(s["activities"], ActivityRow)
<1>1. ActivityRow \in RowType["activities"] /\ "activities" \in Tables \ {"key_binds"}
  BY DEF ActivityRow, RowType, Tables
<1>2. TableOK(tab, RowType["activities"]) /\ GrownFrom(s["activities"], tab)
  BY <1>1, InsertTable DEF StoreOK
<1>3. GoodStep(s, [s EXCEPT !["activities"] = tab])
  BY <1>1, <1>2, OtherTable
<1> QED
  BY <1>3 DEF add_activity_row

LEMMA AddRemoteGood ==
    ASSUME NEW s, StoreOK(s), KeysOK(s)
    PROVE  GoodStep(s, add_remote(s))
<1> DEFINE tab == Insert(s["remotes"], [remote_type |-> "IR"])
<1>1. [remote_type |-> "IR"] \in RowType["remotes"] /\ "remotes" \in Tables \ {"key_binds"}
  BY DEF RowType, Tables
<1>2. TableOK(tab, RowType["remotes"]) /\ GrownFrom(s["remotes"], tab)
  BY <1>1, InsertTable DEF StoreOK
<1>3. GoodStep(s, [s EXCEPT !["remotes"] = tab])
  BY <1>1, <1>2, OtherTable
<1> QED
  BY <1>3 DEF add_remote

LEMMA AddRemoteButtonGood ==
    ASSUME NEW s, StoreOK(s), KeysOK(s), NEW r \in Ids
    PROVE  GoodStep(s, add_remote_button(s, r))
<1> DEFINE tab == Insert(s["remote_buttons"], [remote_id |-> r])
<1>1. [remote_id |-> r] \in RowType["remote_buttons"] /\ "remote_buttons" \in Tables \ {"key_binds"}
  BY DEF RowType, Tables
<1>2. TableOK(tab, RowType["remote_buttons"]) /\ GrownFrom(s["remote_buttons"], tab)
  BY <1>1, InsertTable DEF StoreOK
<1>3. GoodStep(s, [s EXCEPT !["remote_buttons"] = tab])
  BY <1>1, <1>2, OtherTable
<1> QED
  BY <1>3 DEF add_remote_button

LEMMA DeleteButtonMapGood ==
    ASSUME NEW s, StoreOK(s), KeysOK(s), NEW i
    PROVE  GoodStep(s, delete_button_map(s, i))
<1> DEFINE tab == Delete(s["button_binds"], {i})
<1>1. "button_binds" \in Tables \ {"key_binds"}
  BY DEF RowType, Tables
<1>2. TableOK(tab, RowType["button_binds"]) /\ GrownFrom(s["button_binds"], tab)
  BY <1>1, DeleteTable DEF StoreOK
<1>3. GoodStep(s, [s EXCEPT !["button_binds"] = tab])
  BY <1>1, <1>2, OtherTable
<1> QED
  BY <1>3 DEF delete_button_map

LEMMA InsertButtonMapGood ==
    ASSUME NEW s, StoreOK(s), KeysOK(s), NEW row \in RowType["button_binds"]
    PROVE  GoodStep(s, insert_button_map(s, row))
<1> DEFINE tab == Insert(s["button_binds"], row)
<1>1. "button_binds" \in Tables \ {"key_binds"}
  BY DEF RowType, Tables
<1>2. TableOK(tab, RowType["button_binds"]) /\ GrownFrom(s["button_binds"], tab)
  BY <1>1, InsertTable DEF StoreOK
<1>3. GoodStep(s, [s EXCEPT !["button_binds"] = tab])
  BY <1>1, <1>2, OtherTable
<1> QED
  BY <1>3 DEF insert_button_map

LEMMA DeleteVoiceMapGood ==
    ASSUME NEW s, StoreOK(s), KeysOK(s), NEW i
    PROVE  GoodStep(s, delete_voice_map(s, i))
<1> DEFINE tab == Delete(s["voice_binds"], {i})
<1>1. "voice_binds" \in Tables \ {"key_binds"}
  BY DEF RowType, Tables
<1>2. TableOK(tab, RowType["voice_binds"]) /\ GrownFrom(s["voice_binds"], tab)
  BY <1>1, DeleteTable DEF StoreOK
<1>3. GoodStep(s, [s EXCEPT !["voice_binds"] = tab])
  BY <1>1, <1>2, OtherTable
<1> QED
  BY <1>3 DEF delete_voice_map

LEMMA InsertVoiceMapGood ==
    ASSUME NEW s, StoreOK(s), KeysOK(s), NEW row \in RowType["voice_binds"]
    PROVE  GoodStep(s, insert_voice_map(s, row))
<1> DEFINE tab == Insert(s["voice_binds"], row)
<1>1. "voice_binds" \in Tables \ {"key_binds"}
  BY DEF RowType, Tables
<1>2. TableOK(tab, RowType["voice_binds"]) /\ GrownFrom(s["voice_binds"], tab)
  BY <1>1, InsertTable DEF StoreOK
<1>3. GoodStep(s, [s EXCEPT !["voice_binds"] = tab])
  BY <1>1, <1>2, OtherTable
<1> QED
  BY <1>3 DEF insert_voice_map

LEMMA UpdateVoiceMapGood ==
    ASSUME NEW s, StoreOK(s), KeysOK(s), NEW i, NEW row \in RowType["voice_binds"]
    PROVE  GoodStep(s, update_voice_map(s, i, row))
<1> DEFINE tab == Assign(s["voice_binds"], {i}, row)
<1>1. "voice_binds" \in Tables \ {"key_binds"}
  BY DEF RowType, Tables
<1>2. TableOK(tab, RowType["voice_binds"]) /\ GrownFrom(s["voice_binds"], tab)
  BY <1>1, AssignTable DEF StoreOK
<1>3. GoodStep(s, [s EXCEPT !["voice_binds"] = tab])
  BY <1>1, <1>2, OtherTable
<1> QED
  BY <1>3 DEF update_voice_map

LEMMA UpdateButtonMapGood ==
    ASSUME NEW s, StoreOK(s), KeysOK(s), NEW i, NEW row \in RowType["button_binds"]
    PROVE  GoodStep(s, update_button_map(s, i, row))
<1> DEFINE set  == Assign(s["button_binds"], {i}, row)
           move == MoveTo(s["button_binds"], {i}, row.activity_id)
<1>1. /\ "button_binds" \in Tables \ {"key_binds"}
      /\ RowType["button_binds"] = ButtonBindRow
      /\ row.activity_id \in Ids
  BY DEF RowType, Tables, ButtonBindRow
<1>2. TableOK(s["button_binds"], ButtonBindRow)
  BY <1>1 DEF StoreOK
<1>3. TableOK(set, ButtonBindRow) /\ GrownFrom(s["button_binds"], set)
  BY <1>1, <1>2, AssignTable
<1>4. TableOK(move, ButtonBindRow) /\ GrownFrom(s["button_binds"], move)
  BY <1>1, <1>2, MoveToTable
<1>5. GoodStep(s, [s EXCEPT !["button_binds"] = set])
  BY <1>1, <1>3, OtherTable
<1>6. GoodStep(s, [s EXCEPT !["button_binds"] = move])
  BY <1>1, <1>4, OtherTable
<1> QED
  BY <1>5, <1>6 DEF update_button_map

LEMMA DeleteKeyMapGood ==
    ASSUME NEW s, StoreOK(s), KeysOK(s), NEW i
    PROVE  GoodStep(s, delete_key_map(s, i))
<1> DEFINE tab == Delete(s["key_binds"], {i})
           new == [s EXCEPT !["key_binds"] = tab]
<1>1. /\ TableOK(tab, RowType["key_binds"]) /\ GrownFrom(s["key_binds"], tab)
      /\ DOMAIN tab.rows = DOMAIN s["key_binds"].rows \ {i}
      /\ \A j \in DOMAIN tab.rows : tab.rows[j] = s["key_binds"].rows[j]
  BY DeleteTable DEF StoreOK, Tables
<1>2. StoreOK(new) /\ StoreGrown(s, new)
  BY <1>1, OneTable DEF Tables
<1>3. new["key_binds"] = tab
  BY DEF StoreOK, Tables
<1>4. KeysOK(new)
  BY <1>1, <1>2, <1>3, KeysKept DEF IdsIn
<1>5. GoodStep(s, new)
  BY <1>2, <1>4 DEF GoodStep
<1> QED
  BY <1>5 DEF delete_key_map

\* A delete handler: every table stays well-formed, key maps only go.
LEMMA ManyTables ==
    ASSUME NEW s, NEW new, StoreOK(s), KeysOK(s), DOMAIN new = Tables,
           \A t \in Tables : TableOK(new[t], RowType[t]) /\ GrownFrom(s[t], new[t]),
           \A i \in IdsIn(new, "key_binds") :
                /\ i \in IdsIn(s, "key_binds")
                /\ new.key_binds.rows[i] = s.key_binds.rows[i]
    PROVE  GoodStep(s, new)
BY KeysKept DEF GoodStep, StoreOK, StoreGrown

LEMMA DeleteActivityGood ==
    ASSUME NEW s, StoreOK(s), KeysOK(s), NEW a
    PROVE  GoodStep(s, delete_activity(s, a))
<1> DEFINE new  == delete_activity(s, a)
           acts == Delete(s["activities"], {a})
           maps == Delete(s["button_binds"], Having(s["button_binds"], "activity_id", a))
           keys == Delete(s["key_binds"], Having(s["key_binds"], "activity_id", a))
<1>1. \A t \in Tables : TableOK(s[t], RowType[t]) /\ GrownFrom(s[t], s[t])
  BY GrownReflexive DEF StoreOK
<1>2. /\ TableOK(acts, RowType["activities"]) /\ GrownFrom(s["activities"], acts)
      /\ TableOK(maps, RowType["button_binds"]) /\ GrownFrom(s["button_binds"], maps)
      /\ TableOK(keys, RowType["key_binds"]) /\ GrownFrom(s["key_binds"], keys)
      /\ \A i \in DOMAIN keys.rows : i \in DOMAIN s["key_binds"].rows /\ keys.rows[i] = s["key_binds"].rows[i]
  BY <1>1, DeleteTable DEF Tables
<1>3. /\ DOMAIN new = Tables
      /\ new["activities"] = acts /\ new["button_binds"] = maps /\ new["key_binds"] = keys
      /\ \A t \in Tables \ {"activities", "button_binds", "key_binds"} : new[t] = s[t]
  BY DEF delete_activity, StoreOK, Tables
<1>4. \A t \in Tables : TableOK(new[t], RowType[t]) /\ GrownFrom(s[t], new[t])
  BY <1>1, <1>2, <1>3
<1> QED
  BY <1>2, <1>3, <1>4, ManyTables DEF IdsIn

LEMMA DeleteRemoteGood ==
    ASSUME NEW s, StoreOK(s), KeysOK(s), NEW r
    PROVE  GoodStep(s, delete_remote(s, r))
<1> DEFINE new     == delete_remote(s, r)
           remotes == Delete(s["remotes"], {r})
           buttons == Delete(s["remote_buttons"], Having(s["remote_buttons"], "remote_id", r))
           maps    == Unbind(s["button_binds"], Having(s["button_binds"], "remote_id", r))
           keys    == Delete(s["key_binds"], Having(s["key_binds"], "remote_id", r))
<1>1. \A t \in Tables : TableOK(s[t], RowType[t]) /\ GrownFrom(s[t], s[t])
  BY GrownReflexive DEF StoreOK
<1>2. /\ TableOK(remotes, RowType["remotes"]) /\ GrownFrom(s["remotes"], remotes)
      /\ TableOK(buttons, RowType["remote_buttons"]) /\ GrownFrom(s["remote_buttons"], buttons)
      /\ TableOK(keys, RowType["key_binds"]) /\ GrownFrom(s["key_binds"], keys)
      /\ \A i \in DOMAIN keys.rows : i \in DOMAIN s["key_binds"].rows /\ keys.rows[i] = s["key_binds"].rows[i]
  BY <1>1, DeleteTable DEF Tables
<1>3. TableOK(maps, RowType["button_binds"]) /\ GrownFrom(s["button_binds"], maps)
  <2>1. RowType["button_binds"] = ButtonBindRow
    BY DEF RowType, ButtonBindRow
  <2> QED
    BY <1>1, <2>1, UnbindTable DEF Tables
<1>4. /\ DOMAIN new = Tables
      /\ new["remotes"] = remotes /\ new["remote_buttons"] = buttons
      /\ new["button_binds"] = maps /\ new["key_binds"] = keys
      /\ \A t \in Tables \ {"remotes", "remote_buttons", "button_binds", "key_binds"} : new[t] = s[t]
  BY DEF delete_remote, StoreOK, Tables
<1>5. \A t \in Tables : TableOK(new[t], RowType[t]) /\ GrownFrom(s[t], new[t])
  BY <1>1, <1>2, <1>3, <1>4
<1> QED
  BY <1>2, <1>4, <1>5, ManyTables DEF IdsIn

LEMMA DeleteRemoteButtonGood ==
    ASSUME NEW s, StoreOK(s), KeysOK(s), NEW b
    PROVE  GoodStep(s, delete_remote_button(s, b))
<1> DEFINE new     == delete_remote_button(s, b)
           buttons == Delete(s["remote_buttons"], {b})
           maps    == Unbind(s["button_binds"], Having(s["button_binds"], "button_id", b))
           keys    == Delete(s["key_binds"], Having(s["key_binds"], "button_id", b))
<1>1. \A t \in Tables : TableOK(s[t], RowType[t]) /\ GrownFrom(s[t], s[t])
  BY GrownReflexive DEF StoreOK
<1>2. /\ TableOK(buttons, RowType["remote_buttons"]) /\ GrownFrom(s["remote_buttons"], buttons)
      /\ TableOK(keys, RowType["key_binds"]) /\ GrownFrom(s["key_binds"], keys)
      /\ \A i \in DOMAIN keys.rows : i \in DOMAIN s["key_binds"].rows /\ keys.rows[i] = s["key_binds"].rows[i]
  BY <1>1, DeleteTable DEF Tables
<1>3. TableOK(maps, RowType["button_binds"]) /\ GrownFrom(s["button_binds"], maps)
  <2>1. RowType["button_binds"] = ButtonBindRow
    BY DEF RowType, ButtonBindRow
  <2> QED
    BY <1>1, <2>1, UnbindTable DEF Tables
<1>4. /\ DOMAIN new = Tables
      /\ new["remote_buttons"] = buttons
      /\ new["button_binds"] = maps /\ new["key_binds"] = keys
      /\ \A t \in Tables \ {"remote_buttons", "button_binds", "key_binds"} : new[t] = s[t]
  BY DEF delete_remote_button, StoreOK, Tables
<1>5. \A t \in Tables : TableOK(new[t], RowType[t]) /\ GrownFrom(s[t], new[t])
  BY <1>1, <1>2, <1>3, <1>4
<1> QED
  BY <1>2, <1>4, <1>5, ManyTables DEF IdsIn

LEMMA SaveKeyMapGood ==
    ASSUME NEW s, StoreOK(s), KeysOK(s), NEW row \in RowType["key_binds"],
           row.activity_id <= s.activities.seq
    PROVE  GoodStep(s, save_key_map(s, row))
<1> DEFINE old   == s["key_binds"]
           found == KeyMapsOf(s, row.key_code, row.activity_id)
           tab   == IF found = {} THEN Insert(old, row) ELSE Assign(old, FirstOf(found), row)
           new   == [s EXCEPT !["key_binds"] = tab]
<1>1. /\ "key_binds" \in Tables /\ "activities" \in Tables
      /\ TableOK(old, RowType["key_binds"]) /\ old.seq \in Nat
      /\ s["activities"].seq \in Nat
  BY DEF StoreOK, TableOK, Tables
<1>2. TableOK(tab, RowType["key_binds"]) /\ GrownFrom(old, tab)
  BY <1>1, InsertTable, AssignTable
<1>3. StoreOK(new) /\ StoreGrown(s, new)
  BY <1>1, <1>2, OneTable
<1>4. new["key_binds"] = tab /\ new["activities"] = s["activities"]
  BY DEF StoreOK, Tables
<1>5. ASSUME found = {} PROVE KeysOK(new)
  <2>1. /\ DOMAIN tab.rows = DOMAIN old.rows \cup {old.seq + 1}
        /\ \A i \in DOMAIN old.rows : tab.rows[i] = old.rows[i]
        /\ tab.rows[old.seq + 1] = row
    BY <1>1, <1>5, InsertTable
  <2>2. \A i \in DOMAIN old.rows :
           ~(old.rows[i].key_code = row.key_code /\ old.rows[i].activity_id = row.activity_id)
    BY <1>5 DEF KeyMapsOf, Having
  <2>3. KeyMapsUnique(new)
    BY <1>4, <2>1, <2>2 DEF KeysOK, KeyMapsUnique, IdsIn
  <2>4. ActivitiesKnown(new)
    BY <1>4, <2>1 DEF KeysOK, ActivitiesKnown, IdsIn
  <2> QED
    BY <2>3, <2>4 DEF KeysOK
<1>6. ASSUME found # {} PROVE KeysOK(new)
  <2>1. /\ DOMAIN tab.rows = DOMAIN old.rows
        /\ \A i \in DOMAIN old.rows : tab.rows[i] = IF i \in FirstOf(found) THEN row ELSE old.rows[i]
    BY <1>1, <1>6, AssignTable
  <2>2. \A i \in FirstOf(found) :
           old.rows[i].key_code = row.key_code /\ old.rows[i].activity_id = row.activity_id
    BY DEF KeyMapsOf, Having, FirstOf
  <2>3. KeyMapsUnique(new)
    BY <1>4, <2>1, <2>2 DEF KeysOK, KeyMapsUnique, IdsIn
  <2>4. ActivitiesKnown(new)
    BY <1>4, <2>1, <2>2 DEF KeysOK, ActivitiesKnown, IdsIn
  <2> QED
    BY <2>3, <2>4 DEF KeysOK
<1>7. GoodStep(s, new)
  BY <1>3, <1>5, <1>6 DEF GoodStep
<1> QED
  BY <1>7 DEF save_key_map

\* The default keys go to an activity that has no key map yet.
LEMMA CopyDefaultKeysGood ==
    ASSUME NEW s, StoreOK(s), KeysOK(s), NEW a \in Ids, a <= s.activities.seq,
           \A i \in IdsIn(s, "key_binds") : s.key_binds.rows[i].activity_id # a
    PROVE  GoodStep(s, copy_default_keys(s, a))
<1> DEFINE old  == s["key_binds"]
           rows == [n \in 1..Len(DefaultKeys) |->
                        [key_code    |-> DefaultKeys[n].key_code,
                         remote_id   |-> DefaultKeys[n].remote_id,
                         button_id   |-> DefaultKeys[n].button_id,
                         activity_id |-> a]]
           tab  == InsertAll(old, rows)
           new  == [s EXCEPT !["key_binds"] = tab]
<1>1. /\ "key_binds" \in Tables /\ "activities" \in Tables
      /\ TableOK(old, RowType["key_binds"]) /\ old.seq \in Nat
      /\ s["activities"].seq \in Nat
  BY DEF StoreOK, TableOK, Tables
<1>2. Len(DefaultKeys) \in Nat /\ DOMAIN DefaultKeys = 1..Len(DefaultKeys)
  BY DefaultKeysAssumption
<1>3. rows \in Seq(RowType["key_binds"]) /\ Len(rows) = Len(DefaultKeys)
  <2>1. \A n \in 1..Len(DefaultKeys) : rows[n] \in RowType["key_binds"]
    <3> SUFFICES ASSUME NEW n \in 1..Len(DefaultKeys)
                 PROVE  rows[n] \in RowType["key_binds"]
      OBVIOUS
    <3>1. DefaultKeys[n] \in DefaultKeyRow
      BY <1>2, DefaultKeysAssumption
    <3>2. /\ DefaultKeys[n].key_code \in KeyCodes
          /\ DefaultKeys[n].remote_id \in Ids
          /\ DefaultKeys[n].button_id \in Ids
      BY <3>1, InstalledAssumption DEF DefaultKeyRow, Ids, Null, BTRemote
    <3> QED
      BY <3>2 DEF RowType
  <2> QED
    BY <1>2, <2>1
<1>4. TableOK(tab, RowType["key_binds"]) /\ GrownFrom(old, tab)
  BY <1>1, <1>3, InsertAllTable
<1>5. StoreOK(new) /\ StoreGrown(s, new)
  BY <1>1, <1>4, OneTable
<1>6. new["key_binds"] = tab /\ new["activities"] = s["activities"]
  BY DEF StoreOK, Tables
<1>7. /\ \A i \in DOMAIN old.rows : tab.rows[i] = old.rows[i]
      /\ \A i \in DOMAIN tab.rows \ DOMAIN old.rows :
            /\ i \in Int
            /\ i - old.seq \in DOMAIN DefaultKeys
            /\ tab.rows[i].key_code = DefaultKeys[i - old.seq].key_code
            /\ tab.rows[i].activity_id = a
  <2>1. \A i \in DOMAIN old.rows : tab.rows[i] = old.rows[i]
    BY DEF InsertAll
  <2>2. SUFFICES ASSUME NEW i \in DOMAIN tab.rows \ DOMAIN old.rows
                 PROVE  /\ i \in Int
                        /\ i - old.seq \in DOMAIN DefaultKeys
                        /\ tab.rows[i].key_code = DefaultKeys[i - old.seq].key_code
                        /\ tab.rows[i].activity_id = a
    BY <2>1
  <2>3. i \in (old.seq + 1)..(old.seq + Len(rows)) /\ tab.rows[i] = rows[i - old.seq]
    BY DEF InsertAll
  <2>4. i \in Int /\ i - old.seq \in 1..Len(DefaultKeys)
    BY <1>1, <1>2, <1>3, <2>3
  <2> QED
    BY <1>2, <2>3, <2>4
<1>8. KeyMapsUnique(new)
  <2> SUFFICES ASSUME NEW i \in DOMAIN tab.rows, NEW j \in DOMAIN tab.rows,
                      tab.rows[i].key_code = tab.rows[j].key_code,
                      tab.rows[i].activity_id = tab.rows[j].activity_id
               PROVE  i = j
    BY <1>6 DEF KeyMapsUnique, IdsIn
  <2>1. CASE i \in DOMAIN old.rows /\ j \in DOMAIN old.rows
    BY <1>7, <2>1 DEF KeysOK, KeyMapsUnique, IdsIn
  <2>2. CASE i \notin DOMAIN old.rows /\ j \notin DOMAIN old.rows
    <3> HIDE DEF tab, rows, old, new
    <3>1. /\ i \in Int /\ i - old.seq \in DOMAIN DefaultKeys
          /\ tab.rows[i].key_code = DefaultKeys[i - old.seq].key_code
      BY <1>7, <2>2
    <3>2. /\ j \in Int /\ j - old.seq \in DOMAIN DefaultKeys
          /\ tab.rows[j].key_code = DefaultKeys[j - old.seq].key_code
      BY <1>7, <2>2
    <3>3. i - old.seq = j - old.seq
      BY <3>1, <3>2, DefaultKeysAssumption
    <3> QED
      BY <1>1, <3>1, <3>2, <3>3
  <2>3. CASE ~(i \in DOMAIN old.rows <=> j \in DOMAIN old.rows)
    BY <1>7, <2>3 DEF IdsIn
  <2> QED
    BY <2>1, <2>2, <2>3
<1>9. ActivitiesKnown(new)
  BY <1>6, <1>7 DEF KeysOK, ActivitiesKnown, IdsIn
<1>10. GoodStep(s, new)
  BY <1>5, <1>8, <1>9 DEF GoodStep, KeysOK
<1> QED
  BY <1>10 DEF copy_default_keys

-----------------------------------------------------------------------------
(***************************************************************************)
(* The inductive invariant.  What was shown of the durable tables and what *)
(* was removed lies below the committed sequences; the connection's        *)
(* sequences are never behind them; so a new id is above both.             *)
(***************************************************************************)
SeqAhead == \A t \in Tables : disk[t].seq <= db[t].seq

SeenCommitted == \A t \in DurableTables : seen[t] \subseteq 1..disk[t].seq

GoneCommitted == \A t \in Tables : gone[t] \subseteq 1..disk[t].seq

IInv ==
    /\ TypeOK
    /\ KeysOK(db) /\ KeysOK(disk)
    /\ SeqAhead
    /\ SeenCommitted
    /\ GoneCommitted
    /\ GoneForGood
    /\ ShownIsDurable

\* What a step may do to the connection's view: grow from it, or roll back.
DbGrows == StoreGrown(db, db') \/ db' = disk

LEMMA GrownIds ==
    ASSUME NEW s, NEW new, StoreOK(s), StoreOK(new), StoreGrown(s, new), NEW t \in Tables
    PROVE  /\ s[t].seq \in Nat /\ new[t].seq \in Nat /\ s[t].seq <= new[t].seq
           /\ \A i \in IdsIn(s, t) : i \in 1..s[t].seq
           /\ \A i \in IdsIn(new, t) : i \in 1..new[t].seq /\ (i \in IdsIn(s, t) \/ i > s[t].seq)
BY DEF StoreOK, TableOK, StoreGrown, GrownFrom, IdsIn

LEMMA StoreGrownReflexive ==
    ASSUME NEW s, StoreOK(s)
    PROVE  StoreGrown(s, s)
BY GrownReflexive DEF StoreOK, StoreGrown

\* A handler that commits mid and goes on to new; most stop at mid = new.
LEMMA CommitStep ==
    ASSUME IInv, NEW mid, NEW new,
           GoodStep(db, mid), GoodStep(mid, new),
           Commit(mid), db' = new, txn' \in BOOLEAN,
           seen' \in [Tables -> SUBSET Ids],
           owners' \subseteq [button_id: Ids, remote_id: Ids],
           \A t \in DurableTables : seen'[t] \subseteq seen[t] \cup IdsIn(mid, t)
    PROVE  IInv' /\ DbGrows
<1>1. /\ StoreOK(db) /\ StoreOK(disk) /\ StoreOK(mid) /\ StoreOK(new)
      /\ StoreGrown(db, mid) /\ StoreGrown(mid, new)
      /\ KeysOK(mid) /\ KeysOK(new)
  BY DEF IInv, TypeOK, GoodStep
<1>2. /\ disk' = mid
      /\ \A t \in Tables :
            gone'[t] = gone[t] \cup ((IdsIn(db, t) \cup IdsIn(disk, t)) \ IdsIn(mid, t))
      /\ gone' = [t \in Tables |-> gone'[t]]
  BY DEF Commit
<1>3. \A t \in Tables : t \in DurableTables => t \in Tables
  OBVIOUS
<1>4. ASSUME NEW t \in Tables
      PROVE  /\ disk[t].seq \in Nat /\ db[t].seq \in Nat /\ mid[t].seq \in Nat /\ new[t].seq \in Nat
             /\ disk[t].seq <= db[t].seq /\ db[t].seq <= mid[t].seq /\ mid[t].seq <= new[t].seq
             /\ IdsIn(disk, t) \subseteq 1..disk[t].seq
             /\ IdsIn(db, t) \subseteq 1..db[t].seq
             /\ IdsIn(mid, t) \subseteq 1..mid[t].seq
             /\ \A i \in IdsIn(mid, t) : i \in IdsIn(db, t) \/ i > db[t].seq
             /\ \A i \in IdsIn(new, t) : i \in IdsIn(mid, t) \/ i > mid[t].seq
             /\ gone[t] \subseteq 1..disk[t].seq
             /\ gone[t] \cap (IdsIn(db, t) \cup IdsIn(disk, t)) = {}
  <2>1. disk[t].seq <= db[t].seq
    BY DEF IInv, SeqAhead
  <2>2. disk[t].seq \in Nat /\ IdsIn(disk, t) \subseteq 1..disk[t].seq
    BY <1>1 DEF StoreOK, TableOK, IdsIn
  <2>3. gone[t] \subseteq 1..disk[t].seq /\ gone[t] \cap (IdsIn(db, t) \cup IdsIn(disk, t)) = {}
    BY DEF IInv, GoneCommitted, GoneForGood
  <2> QED
    BY <1>1, <2>1, <2>2, <2>3, GrownIds
<1>5. ASSUME NEW t \in Tables
      PROVE  /\ gone'[t] \subseteq 1..mid[t].seq
             /\ gone'[t] \cap (IdsIn(new, t) \cup IdsIn(mid, t)) = {}
  BY <1>2, <1>4
<1>6. ASSUME NEW t \in DurableTables
      PROVE  /\ seen'[t] \subseteq 1..mid[t].seq
             /\ seen'[t] \cap IdsIn(new, t) \subseteq IdsIn(mid, t)
  <2>1. t \in Tables /\ seen[t] \subseteq 1..disk[t].seq
    BY DEF IInv, SeenCommitted, DurableTables
  <2>2. seen'[t] \subseteq 1..mid[t].seq
    BY <1>4, <2>1
  <2> QED
    BY <1>4, <2>1, <2>2
<1>7. TypeOK'
  <2>1. \A t \in Tables : gone'[t] \subseteq Ids
    BY <1>4, <1>5 DEF Ids, Null
  <2>2. gone' \in [Tables -> SUBSET Ids]
    BY <1>2, <2>1
  <2> QED
    BY <1>1, <1>2, <2>2 DEF TypeOK
<1>8. SeqAhead' /\ SeenCommitted' /\ GoneCommitted'
  BY <1>2, <1>4, <1>5, <1>6 DEF SeqAhead, SeenCommitted, GoneCommitted
<1>9. GoneForGood' /\ ShownIsDurable'
  BY <1>2, <1>5, <1>6 DEF GoneForGood, ShownIsDurable
<1>10. StoreGrown(db, new)
  <2> SUFFICES ASSUME NEW t \in Tables
               PROVE  GrownFrom(db[t], new[t])
    BY DEF StoreGrown
  <2>1. db[t].seq <= new[t].seq
    BY <1>4
  <2>2. ASSUME NEW i \in IdsIn(new, t)
        PROVE  i \in IdsIn(db, t) \/ i > db[t].seq
    <3>1. i \in 1..new[t].seq
      BY <1>1, GrownIds
    <3> QED
      BY <1>4, <3>1
  <2> QED
    BY <2>1, <2>2 DEF GrownFrom, IdsIn
<1> QED
  BY <1>1, <1>2, <1>7, <1>8, <1>9, <1>10 DEF IInv, DbGrows

LEMMA DoneStep ==
    ASSUME IInv, NEW new, GoodStep(db, new), Done(new),
           seen' \in [Tables -> SUBSET Ids],
           owners' \subseteq [button_id: Ids, remote_id: Ids],
           \A t \in DurableTables : seen'[t] \subseteq seen[t] \cup IdsIn(new, t)
    PROVE  IInv' /\ DbGrows
<1>1. GoodStep(new, new)
  BY StoreGrownReflexive DEF GoodStep
<1> QED
  BY <1>1, CommitStep DEF Done

LEMMA RefusedStep ==
    ASSUME IInv, NEW new, GoodStep(db, new), Refused(new)
    PROVE  IInv' /\ DbGrows
<1>1. /\ StoreOK(db) /\ StoreOK(disk) /\ StoreOK(new) /\ StoreGrown(db, new) /\ KeysOK(new)
      /\ db' = new /\ txn' = TRUE
      /\ UNCHANGED disk /\ UNCHANGED gone /\ UNCHANGED seen /\ UNCHANGED owners
  BY DEF IInv, TypeOK, GoodStep, Refused
<1>2. ASSUME NEW t \in Tables
      PROVE  /\ disk[t].seq <= new[t].seq
             /\ gone[t] \subseteq 1..db[t].seq
             /\ \A i \in IdsIn(new, t) : i \in IdsIn(db, t) \/ i > db[t].seq
             /\ disk[t].seq \in Nat /\ db[t].seq \in Nat /\ disk[t].seq <= db[t].seq
  <2>1. disk[t].seq <= db[t].seq /\ gone[t] \subseteq 1..disk[t].seq
    BY DEF IInv, SeqAhead, GoneCommitted
  <2>2. disk[t].seq \in Nat
    BY <1>1 DEF StoreOK, TableOK
  <2> QED
    BY <1>1, <2>1, <2>2, GrownIds
<1>3. TypeOK'
  BY <1>1 DEF IInv, TypeOK
<1>4. SeqAhead' /\ SeenCommitted' /\ GoneCommitted'
  BY <1>1, <1>2 DEF IInv, SeqAhead, SeenCommitted, GoneCommitted
<1>5. GoneForGood'
  <2> SUFFICES ASSUME NEW t \in Tables, NEW i \in gone[t]
               PROVE  i \notin IdsIn(new, t) /\ i \notin IdsIn(disk, t)
    BY <1>1 DEF GoneForGood
  <2>1. i \notin IdsIn(db, t) /\ i \notin IdsIn(disk, t)
    BY DEF IInv, GoneForGood
  <2> QED
    BY <1>2, <2>1
<1>6. ShownIsDurable'
  <2> SUFFICES ASSUME NEW t \in DurableTables, NEW i \in seen[t], i \in IdsIn(new, t)
               PROVE  i \in IdsIn(disk, t)
    BY <1>1 DEF ShownIsDurable
  <2>1. t \in Tables /\ i \in 1..disk[t].seq
    BY DEF IInv, SeenCommitted, DurableTables
  <2>2. i \in IdsIn(db, t)
    BY <1>2, <2>1
  <2> QED
    BY <2>2 DEF IInv, ShownIsDurable
<1> QED
  BY <1>1, <1>3, <1>4, <1>5, <1>6 DEF IInv, DbGrows

\* A handler's two ways to end, for the handlers that commit once.
LEMMA DoneOrRefused ==
    ASSUME IInv, NEW new, GoodStep(db, new), (Done(new) /\ SilentReply) \/ Refused(new)
    PROVE  IInv' /\ DbGrows
<1>1. CASE Done(new) /\ SilentReply
  <2>1. /\ seen' = seen /\ owners' = owners
    BY <1>1 DEF SilentReply
  <2>2. /\ seen' \in [Tables -> SUBSET Ids]
        /\ owners' \subseteq [button_id: Ids, remote_id: Ids]
    BY <2>1 DEF IInv, TypeOK
  <2> QED
    BY <1>1, <2>1, <2>2, DoneStep
<1>2. CASE Refused(new)
  BY <1>2, RefusedStep
<1> QED
  BY <1>1, <1>2

\* A handler that replies with the last row of table t.
LEMMA DoneShowing ==
    ASSUME IInv, NEW new, GoodStep(db, new), NEW t \in Tables,
           \/ /\ Done(new) /\ Show(t, LastIds(new[t]))
              /\ owners' \subseteq [button_id: Ids, remote_id: Ids]
           \/ Refused(new)
    PROVE  IInv' /\ DbGrows
<1>1. ASSUME Done(new), Show(t, LastIds(new[t])), owners' \subseteq [button_id: Ids, remote_id: Ids]
      PROVE  IInv' /\ DbGrows
  <2>1. LastIds(new[t]) \subseteq IdsIn(new, t) /\ IdsIn(new, t) \subseteq Ids
    BY DEF LastIds, IdsIn, GoodStep, StoreOK, TableOK, Ids, Null
  <2>2. seen \in [Tables -> SUBSET Ids]
    BY DEF IInv, TypeOK
  <2>3. /\ seen' = [seen EXCEPT ![t] = @ \cup LastIds(new[t])]
        /\ seen' \in [Tables -> SUBSET Ids]
        /\ \A u \in Tables : seen'[u] \subseteq seen[u] \cup IdsIn(new, u)
    BY <1>1, <2>1, <2>2 DEF Show
  <2> QED
    BY <1>1, <2>3, DoneStep DEF DurableTables
<1> QED
  BY <1>1, RefusedStep

-----------------------------------------------------------------------------
(***************************************************************************)
(* The actions.                                                            *)
(***************************************************************************)
LEMMA InitIInv == Init => IInv
<1> SUFFICES ASSUME Init PROVE IInv
  OBVIOUS
<1>1. \A t \in Tables : TableOK(InstalledStore[t], RowType[t])
  <2>1. TableOK(InstalledStore["remotes"], RowType["remotes"])
    BY DEF InstalledStore, TableOK, RowType, Tables, BTRemote
  <2>2. TableOK(InstalledStore["remote_buttons"], RowType["remote_buttons"])
    <3>1. InstalledStore["remote_buttons"] =
             [seq |-> InstalledButtons,
              rows |-> [i \in 1..InstalledButtons |-> [remote_id |-> BTRemote]]]
      BY DEF InstalledStore, Tables
    <3>2. RowType["remote_buttons"] = [remote_id: Ids]
      BY DEF RowType
    <3>3. [remote_id |-> BTRemote] \in [remote_id: Ids]
      BY DEF BTRemote, Ids, Null
    <3> QED
      BY <3>1, <3>2, <3>3, InstalledAssumption DEF TableOK
  <2>3. ASSUME NEW t \in Tables \ {"remotes", "remote_buttons"}
        PROVE  TableOK(InstalledStore[t], RowType[t])
    <3>1. InstalledStore[t] = [seq |-> 0, rows |-> [i \in {} |-> Null]]
      BY DEF InstalledStore
    <3> QED
      BY <3>1 DEF TableOK
  <2> QED
    BY <2>1, <2>2, <2>3
<1>2. StoreOK(InstalledStore)
  BY <1>1 DEF StoreOK, InstalledStore
<1>3. db = InstalledStore /\ disk = InstalledStore
  BY DEF Init
<1>4. IdsIn(InstalledStore, "key_binds") = {}
  BY DEF InstalledStore, Tables, IdsIn
<1>5. KeysOK(InstalledStore)
  BY <1>4 DEF KeysOK, KeyMapsUnique, ActivitiesKnown
<1>6. TypeOK
  BY <1>2 DEF Init, TypeOK
<1>7. SeqAhead /\ SeenCommitted /\ GoneCommitted /\ GoneForGood /\ ShownIsDurable
  <2>1. \A t \in Tables : InstalledStore[t].seq \in Nat
    BY <1>2 DEF StoreOK, TableOK
  <2> QED
    BY <2>1, <1>3 DEF Init, SeqAhead, SeenCommitted, GoneCommitted, GoneForGood, ShownIsDurable,
                      DurableTables
<1> QED
  BY <1>3, <1>5, <1>6, <1>7 DEF IInv

\* What IInv says of the rows that requests carry.
LEMMA RequestTypes ==
    ASSUME IInv
    PROVE  /\ \A row \in ButtonMapRows : row \in RowType["button_binds"]
           /\ \A row \in VoiceMapRows : row \in RowType["voice_binds"]
           /\ \A row \in KeyMapRows :
                 row \in RowType["key_binds"] /\ row.activity_id <= db.activities.seq
<1>1. /\ seen["activities"] \subseteq Ids
      /\ owners \subseteq [button_id: Ids, remote_id: Ids]
  BY DEF IInv, TypeOK, Tables
<1>2. \A a \in seen["activities"] : a <= db["activities"].seq
  <2>1. "activities" \in DurableTables /\ "activities" \in Tables
    BY DEF Tables, DurableTables
  <2>2. /\ disk["activities"].seq \in Nat /\ db["activities"].seq \in Nat
        /\ disk["activities"].seq <= db["activities"].seq
        /\ seen["activities"] \subseteq 1..disk["activities"].seq
    BY <2>1 DEF IInv, TypeOK, StoreOK, TableOK, SeqAhead, SeenCommitted
  <2> QED
    BY <2>2
<1>3. \A row \in ButtonMapRows : row \in RowType["button_binds"]
  BY <1>1 DEF ButtonMapRows, RowType, Ids, Null
<1>4. \A row \in VoiceMapRows : row \in RowType["voice_binds"]
  BY <1>1 DEF VoiceMapRows, RowType
<1>5. \A row \in KeyMapRows :
         row \in RowType["key_binds"] /\ row.activity_id <= db.activities.seq
  BY <1>1, <1>2 DEF KeyMapRows, RowType
<1> QED
  BY <1>3, <1>4, <1>5

\* The activity that add_activity has committed has a new id, and the default keys
\* that are copied to it are its first key maps.
LEMMA CopyToNewActivity ==
    ASSUME NEW s, StoreOK(s), KeysOK(s), NEW a \in LastIds(add_activity_row(s).activities)
    PROVE  /\ GoodStep(s, add_activity_row(s))
           /\ GoodStep(add_activity_row(s), copy_default_keys(add_activity_row(s), a))
           /\ a \in Ids /\ a \in IdsIn(add_activity_row(s), "activities")
<1> DEFINE added == add_activity_row(s)
<1>0. StoreOK(s) /\ KeysOK(s) /\ GoodStep(s, added)
  BY AddActivityRowGood
<1>1. added["key_binds"] = s["key_binds"]
  BY <1>0 DEF add_activity_row, StoreOK, Tables
<1>2. /\ added["activities"] = Insert(s["activities"], ActivityRow)
      /\ TableOK(s["activities"], RowType["activities"])
      /\ ActivityRow \in RowType["activities"]
  BY <1>0 DEF add_activity_row, StoreOK, Tables, ActivityRow, RowType
<1>3. /\ added["activities"].seq = s["activities"].seq + 1
      /\ DOMAIN added["activities"].rows = DOMAIN s["activities"].rows \cup {s["activities"].seq + 1}
      /\ s["activities"].seq \in Nat
      /\ DOMAIN s["activities"].rows \subseteq 1..s["activities"].seq
  <2>1. /\ Insert(s["activities"], ActivityRow).seq = s["activities"].seq + 1
        /\ DOMAIN Insert(s["activities"], ActivityRow).rows
              = DOMAIN s["activities"].rows \cup {s["activities"].seq + 1}
    BY <1>2, InsertTable
  <2>2. s["activities"].seq \in Nat /\ DOMAIN s["activities"].rows \subseteq 1..s["activities"].seq
    BY <1>2 DEF TableOK
  <2> QED
    BY <1>2, <2>1, <2>2
<1>4. a = s["activities"].seq + 1
  BY <1>3 DEF LastIds
<1>5. /\ a \in Ids /\ a <= added.activities.seq
      /\ a \in IdsIn(added, "activities")
  BY <1>3, <1>4 DEF Ids, Null, IdsIn
<1>6. \A i \in IdsIn(added, "key_binds") : added.key_binds.rows[i].activity_id # a
  <2> SUFFICES ASSUME NEW i \in IdsIn(s, "key_binds")
               PROVE  s.key_binds.rows[i].activity_id # a
    BY <1>1 DEF IdsIn
  <2>1. s.key_binds.rows[i].activity_id <= s.activities.seq
    BY <1>0 DEF KeysOK, ActivitiesKnown
  <2>2. s.key_binds.rows[i].activity_id \in Nat
    BY <1>0 DEF StoreOK, TableOK, Tables, RowType, IdsIn, Ids
  <2> QED
    BY <1>3, <1>4, <2>1, <2>2
<1>7. StoreOK(added) /\ KeysOK(added)
  BY <1>0 DEF GoodStep
<1>8. GoodStep(added, copy_default_keys(added, a))
  BY <1>5, <1>6, <1>7, CopyDefaultKeysGood
<1> QED
  BY <1>0, <1>5, <1>8

LEMMA AddActivityStep == IInv /\ AddActivity => IInv' /\ DbGrows
<1> SUFFICES ASSUME IInv, AddActivity PROVE IInv' /\ DbGrows
  OBVIOUS
<1> DEFINE added == add_activity_row(db)
<1>1. /\ StoreOK(db) /\ KeysOK(db)
      /\ GoodStep(db, added)
  BY AddActivityRowGood DEF IInv, TypeOK
<1>2. CASE Refused(added) \/ (Done(added) /\ SilentReply)
  BY <1>1, <1>2, DoneOrRefused
<1>3. ASSUME NEW a \in LastIds(added.activities),
             db' = copy_default_keys(added, a),
             Commit(added),
             txn' = (DefaultKeyCount > 0),
             NEW shown \in OneOf(Having(copy_default_keys(added, a).key_binds, "activity_id", a)),
             seen' = [seen EXCEPT !.activities = @ \cup {a}, !.key_binds = @ \cup shown],
             UNCHANGED owners
      PROVE  IInv' /\ DbGrows
  <2> DEFINE new == copy_default_keys(added, a)
  <2>1. /\ GoodStep(db, added) /\ GoodStep(added, new)
        /\ a \in Ids /\ a \in IdsIn(added, "activities")
    BY <1>1, CopyToNewActivity
  <2>2. shown \subseteq Ids
    <3>1. shown \subseteq IdsIn(new, "key_binds")
      BY DEF OneOf, Having, IdsIn
    <3>2. IdsIn(new, "key_binds") \subseteq Ids
      BY <2>1 DEF GoodStep, StoreOK, TableOK, Tables, IdsIn, Ids, Null
    <3> QED
      BY <3>1, <3>2
  <2>3. seen \in [Tables -> SUBSET Ids] /\ "activities" \in Tables /\ "key_binds" \in Tables
    BY DEF IInv, TypeOK, Tables
  <2>4. /\ seen' \in [Tables -> SUBSET Ids]
         /\ \A t \in DurableTables : seen'[t] \subseteq seen[t] \cup IdsIn(added, t)
    BY <1>3, <2>1, <2>2, <2>3 DEF DurableTables
  <2>5. txn' \in BOOLEAN /\ owners' \subseteq [button_id: Ids, remote_id: Ids]
    BY <1>3 DEF IInv, TypeOK
  <2> QED
    BY <1>1, <1>3, <2>1, <2>4, <2>5, CommitStep
<1> QED
  BY <1>2, <1>3 DEF AddActivity

LEMMA PageLoadStep == IInv /\ PageLoad => IInv' /\ DbGrows
<1> SUFFICES ASSUME IInv, PageLoad PROVE IInv' /\ DbGrows
  OBVIOUS
<1>1. /\ StoreOK(db) /\ StoreOK(disk)
      /\ UNCHANGED db /\ UNCHANGED disk /\ UNCHANGED txn /\ UNCHANGED gone
      /\ seen' = [t \in Tables |-> seen[t] \cup IdsIn(disk, t)]
  BY DEF IInv, TypeOK, PageLoad
<1>2. \A t \in Tables : IdsIn(disk, t) \subseteq 1..disk[t].seq /\ disk[t].seq \in Nat
  BY <1>1 DEF StoreOK, TableOK, IdsIn
<1>3. seen' \in [Tables -> SUBSET Ids]
  <2>1. \A t \in Tables : IdsIn(disk, t) \subseteq Ids
    BY <1>2 DEF Ids, Null
  <2> QED
    BY <1>1, <2>1 DEF IInv, TypeOK
<1>4. owners' \subseteq [button_id: Ids, remote_id: Ids]
  <2>1. \A b \in IdsIn(disk, "remote_buttons") :
          b \in Ids /\ disk.remote_buttons.rows[b].remote_id \in Ids
    BY <1>1, <1>2 DEF StoreOK, TableOK, RowType, Tables, IdsIn, Ids, Null
  <2>2. OwnersIn(disk.remote_buttons, IdsIn(disk, "remote_buttons"))
           \subseteq [button_id: Ids, remote_id: Ids]
    BY <2>1 DEF OwnersIn
  <2> QED
    BY <2>2 DEF IInv, TypeOK, PageLoad
<1>5. TypeOK'
  BY <1>1, <1>3, <1>4 DEF IInv, TypeOK
<1>6. SeenCommitted' /\ ShownIsDurable'
  BY <1>1, <1>2 DEF IInv, SeenCommitted, ShownIsDurable, DurableTables
<1>7. KeysOK(db') /\ KeysOK(disk') /\ SeqAhead' /\ GoneCommitted' /\ GoneForGood'
  BY <1>1 DEF IInv, SeqAhead, GoneCommitted, GoneForGood
<1>8. DbGrows
  BY <1>1, StoreGrownReflexive DEF DbGrows
<1> QED
  BY <1>5, <1>6, <1>7, <1>8 DEF IInv

LEMMA RestartStep == IInv /\ Restart => IInv' /\ DbGrows
<1> SUFFICES ASSUME IInv, Restart PROVE IInv' /\ DbGrows
  OBVIOUS
<1>1. /\ db' = disk /\ txn' = FALSE /\ UNCHANGED disk
      /\ UNCHANGED seen /\ UNCHANGED owners /\ UNCHANGED gone
  BY DEF Restart
<1>2. \A t \in Tables : disk[t].seq \in Nat
  BY DEF IInv, TypeOK, StoreOK, TableOK
<1>3. TypeOK' /\ KeysOK(db') /\ KeysOK(disk')
  BY <1>1 DEF IInv, TypeOK
<1>4. SeqAhead' /\ SeenCommitted' /\ GoneCommitted' /\ GoneForGood' /\ ShownIsDurable'
  BY <1>1, <1>2 DEF IInv, SeqAhead, SeenCommitted, GoneCommitted, GoneForGood, ShownIsDurable
<1> QED
  BY <1>1, <1>3, <1>4 DEF IInv, DbGrows

LEMMA NoSuchRecordStep == IInv /\ NoSuchRecord => IInv' /\ DbGrows
<1> SUFFICES ASSUME IInv, NoSuchRecord PROVE IInv' /\ DbGrows
  OBVIOUS
<1>1. /\ UNCHANGED db /\ UNCHANGED disk /\ txn' = TRUE
      /\ UNCHANGED seen /\ UNCHANGED owners /\ UNCHANGED gone
  BY DEF NoSuchRecord
<1>2. IInv'
  BY <1>1 DEF IInv, TypeOK, SeqAhead, SeenCommitted, GoneCommitted, GoneForGood, ShownIsDurable
<1>3. DbGrows
  BY <1>1, StoreGrownReflexive DEF DbGrows, IInv, TypeOK
<1> QED
  BY <1>2, <1>3

LEMMA NextStep == IInv /\ Next => IInv' /\ DbGrows
<1> SUFFICES ASSUME IInv, Next PROVE IInv' /\ DbGrows
  OBVIOUS
<1>1. StoreOK(db) /\ KeysOK(db) /\ seen \in [Tables -> SUBSET Ids]
      /\ owners \subseteq [button_id: Ids, remote_id: Ids]
  BY DEF IInv, TypeOK
<1>2. CASE AddActivity
  BY <1>2, AddActivityStep
<1>3. ASSUME NEW a \in seen.activities, DeleteActivity(a) PROVE IInv' /\ DbGrows
  BY <1>1, <1>3, DeleteActivityGood, DoneOrRefused DEF DeleteActivity
<1>4. CASE AddRemote
  <2> DEFINE new == add_remote(db)
  <2>1. GoodStep(db, new)
    BY <1>1, AddRemoteGood
  <2>2. \/ Done(new) /\ Show("remotes", LastIds(new["remotes"])) /\ UNCHANGED owners
        \/ Refused(new)
    BY <1>4 DEF AddRemote
  <2> QED
    BY <1>1, <2>1, <2>2, DoneShowing DEF Tables
<1>5. ASSUME NEW r \in seen.remotes, DeleteRemote(r) PROVE IInv' /\ DbGrows
  BY <1>1, <1>5, DeleteRemoteGood, DoneOrRefused, NoSuchRecordStep DEF DeleteRemote
<1>6. ASSUME NEW r \in seen.remotes, AddRemoteButton(r) PROVE IInv' /\ DbGrows
  <2> DEFINE new  == add_remote_button(db, r)
             last == LastIds(new["remote_buttons"])
  <2>1. r \in Ids /\ "remote_buttons" \in Tables
    BY <1>1 DEF Tables
  <2>2. GoodStep(db, new)
    BY <1>1, <2>1, AddRemoteButtonGood
  <2>3. \A b \in last : b \in Ids /\ new["remote_buttons"].rows[b].remote_id \in Ids
    BY <2>2 DEF LastIds, GoodStep, StoreOK, TableOK, RowType, Tables, Ids, Null
  <2>4. OwnersIn(new["remote_buttons"], last) \subseteq [button_id: Ids, remote_id: Ids]
    BY <2>3 DEF OwnersIn
  <2>5. \/ /\ Done(new) /\ Show("remote_buttons", last)
           /\ owners' = owners \cup OwnersIn(new["remote_buttons"], last)
        \/ Refused(new)
    BY <1>6 DEF AddRemoteButton
  <2> QED
    BY <1>1, <2>1, <2>2, <2>4, <2>5, DoneShowing
<1>7. ASSUME NEW b \in seen.remote_buttons, DeleteRemoteButton(b) PROVE IInv' /\ DbGrows
  BY <1>1, <1>7, DeleteRemoteButtonGood, DoneOrRefused, NoSuchRecordStep DEF DeleteRemoteButton
<1>8. ASSUME NEW i \in seen.button_binds, DeleteButtonMap(i) PROVE IInv' /\ DbGrows
  BY <1>1, <1>8, DeleteButtonMapGood, DoneOrRefused, NoSuchRecordStep DEF DeleteButtonMap
<1>9. ASSUME NEW row \in ButtonMapRows, InsertButtonMap(row) PROVE IInv' /\ DbGrows
  <2> DEFINE new == insert_button_map(db, row)
  <2>1. GoodStep(db, new)
    BY <1>1, RequestTypes, InsertButtonMapGood
  <2>2. \/ Done(new) /\ Show("button_binds", LastIds(new["button_binds"])) /\ UNCHANGED owners
        \/ Refused(new)
    BY <1>9 DEF InsertButtonMap
  <2> QED
    BY <1>1, <2>1, <2>2, DoneShowing DEF Tables
<1>10. ASSUME NEW i \in seen.button_binds, NEW row \in ButtonMapRows, UpdateButtonMap(i, row)
       PROVE  IInv' /\ DbGrows
  BY <1>1, <1>10, RequestTypes, UpdateButtonMapGood, DoneOrRefused DEF UpdateButtonMap
<1>11. ASSUME NEW i \in seen.key_binds, DeleteKeyMap(i) PROVE IInv' /\ DbGrows
  BY <1>1, <1>11, DeleteKeyMapGood, DoneOrRefused DEF DeleteKeyMap
<1>12. ASSUME NEW row \in KeyMapRows, SaveKeyMap(row) PROVE IInv' /\ DbGrows
  <2> DEFINE new == save_key_map(db, row)
  <2>1. GoodStep(db, new)
    BY <1>1, RequestTypes, SaveKeyMapGood
  <2>2. \/ Done(new) /\ Show("key_binds", LastIds(new["key_binds"])) /\ UNCHANGED owners
        \/ Refused(new)
    BY <1>12 DEF SaveKeyMap
  <2> QED
    BY <1>1, <2>1, <2>2, DoneShowing DEF Tables
<1>13. ASSUME NEW i \in seen.voice_binds, DeleteVoiceMap(i) PROVE IInv' /\ DbGrows
  BY <1>1, <1>13, DeleteVoiceMapGood, DoneOrRefused DEF DeleteVoiceMap
<1>14. ASSUME NEW row \in VoiceMapRows, InsertVoiceMap(row) PROVE IInv' /\ DbGrows
  <2> DEFINE new == insert_voice_map(db, row)
  <2>1. GoodStep(db, new)
    BY <1>1, RequestTypes, InsertVoiceMapGood
  <2>2. \/ Done(new) /\ Show("voice_binds", LastIds(new["voice_binds"])) /\ UNCHANGED owners
        \/ Refused(new)
    BY <1>14 DEF InsertVoiceMap
  <2> QED
    BY <1>1, <2>1, <2>2, DoneShowing DEF Tables
<1>15. ASSUME NEW i \in seen.voice_binds, NEW row \in VoiceMapRows, UpdateVoiceMap(i, row)
       PROVE  IInv' /\ DbGrows
  BY <1>1, <1>15, RequestTypes, UpdateVoiceMapGood, DoneOrRefused DEF UpdateVoiceMap
<1>16. CASE PageLoad
  BY <1>16, PageLoadStep
<1>17. CASE Restart
  BY <1>17, RestartStep
<1> QED
  BY <1>2, <1>3, <1>4, <1>5, <1>6, <1>7, <1>8, <1>9, <1>10, <1>11, <1>12, <1>13, <1>14,
     <1>15, <1>16, <1>17 DEF Next

LEMMA Inductive == Spec => []IInv
<1>1. IInv /\ UNCHANGED vars => IInv'
  BY DEF IInv, TypeOK, vars, SeqAhead, SeenCommitted, GoneCommitted, GoneForGood, ShownIsDurable
<1>2. IInv /\ [Next]_vars => IInv'
  BY <1>1, NextStep
<1> QED
  BY InitIInv, <1>2, PTL DEF Spec

-----------------------------------------------------------------------------
(***************************************************************************)
(* What is committed grows, as what the connection sees does.              *)
(***************************************************************************)
LEMMA StoreGrownTransitive ==
    ASSUME NEW s, NEW mid, NEW new, StoreOK(s), StoreOK(mid), StoreOK(new),
           StoreGrown(s, mid), StoreGrown(mid, new)
    PROVE  StoreGrown(s, new)
<1> SUFFICES ASSUME NEW t \in Tables PROVE GrownFrom(s[t], new[t])
  BY DEF StoreGrown
<1>1. /\ s[t].seq \in Nat /\ mid[t].seq \in Nat /\ new[t].seq \in Nat
      /\ s[t].seq <= mid[t].seq /\ mid[t].seq <= new[t].seq
      /\ \A i \in IdsIn(mid, t) : i \in IdsIn(s, t) \/ i > s[t].seq
      /\ \A i \in IdsIn(new, t) : i \in IdsIn(mid, t) \/ i > mid[t].seq
      /\ \A i \in IdsIn(new, t) : i \in Nat
  BY GrownIds
<1> QED
  BY <1>1 DEF GrownFrom, IdsIn

\* What the connection has not committed yet grew out of what is committed.
DiskBehind == StoreGrown(disk, db)

CommitsAll ==
    \/ UNCHANGED disk
    \/ disk' = db'
    \/ /\ StoreOK(disk') /\ StoreOK(db')
       /\ StoreGrown(db, disk') /\ StoreGrown(disk', db')

\* Where what is committed comes from: a handler either commits all that it leaves to
\* the connection, or it is add_activity, which commits the activity before its keys.
LEMMA CommitsWhat ==
    ASSUME IInv, Next
    PROVE  CommitsAll
<1>1. ASSUME NEW new, Done(new) PROVE CommitsAll
  BY <1>1 DEF Done, Commit, CommitsAll
<1>2. ASSUME NEW new, Refused(new) PROVE CommitsAll
  BY <1>2 DEF Refused, CommitsAll
<1>3. CASE NoSuchRecord
  BY <1>3 DEF NoSuchRecord, CommitsAll
<1>4. CASE AddActivity
  <2> DEFINE added == add_activity_row(db)
  <2>1. ASSUME NEW a \in LastIds(added.activities),
               db' = copy_default_keys(added, a), Commit(added)
        PROVE  CommitsAll
    <3>1. StoreOK(db) /\ KeysOK(db)
      BY DEF IInv, TypeOK
    <3>2. GoodStep(db, added) /\ GoodStep(added, copy_default_keys(added, a))
      BY <3>1, CopyToNewActivity
    <3>3. disk' = added
      BY <2>1 DEF Commit
    <3> QED
      BY <2>1, <3>2, <3>3 DEF GoodStep, CommitsAll
  <2> QED
    BY <1>1, <1>2, <1>4, <2>1 DEF AddActivity
<1>5. ASSUME NEW a \in seen.activities, DeleteActivity(a) PROVE CommitsAll
  BY <1>1, <1>2, <1>5 DEF DeleteActivity
<1>6. CASE AddRemote
  BY <1>1, <1>2, <1>6 DEF AddRemote
<1>7. ASSUME NEW r \in seen.remotes, DeleteRemote(r) PROVE CommitsAll
  BY <1>1, <1>2, <1>3, <1>7 DEF DeleteRemote
<1>8. ASSUME NEW r \in seen.remotes, AddRemoteButton(r) PROVE CommitsAll
  BY <1>1, <1>2, <1>8 DEF AddRemoteButton
<1>9. ASSUME NEW b \in seen.remote_buttons, DeleteRemoteButton(b) PROVE CommitsAll
  BY <1>1, <1>2, <1>3, <1>9 DEF DeleteRemoteButton
<1>10. ASSUME NEW i \in seen.button_binds, DeleteButtonMap(i) PROVE CommitsAll
  BY <1>1, <1>2, <1>3, <1>10 DEF DeleteButtonMap
<1>11. ASSUME NEW row \in ButtonMapRows, InsertButtonMap(row) PROVE CommitsAll
  BY <1>1, <1>2, <1>11 DEF InsertButtonMap
<1>12. ASSUME NEW i \in seen.button_binds, NEW row \in ButtonMapRows, UpdateButtonMap(i, row)
       PROVE  CommitsAll
  BY <1>1, <1>2, <1>12 DEF UpdateButtonMap
<1>13. ASSUME NEW i \in seen.key_binds, DeleteKeyMap(i) PROVE CommitsAll
  BY <1>1, <1>2, <1>13 DEF DeleteKeyMap
<1>14. ASSUME NEW row \in KeyMapRows, SaveKeyMap(row) PROVE CommitsAll
  BY <1>1, <1>2, <1>14 DEF SaveKeyMap
<1>15. ASSUME NEW i \in seen.voice_binds, DeleteVoiceMap(i) PROVE CommitsAll
  BY <1>1, <1>2, <1>15 DEF DeleteVoiceMap
<1>16. ASSUME NEW row \in VoiceMapRows, InsertVoiceMap(row) PROVE CommitsAll
  BY <1>1, <1>2, <1>16 DEF InsertVoiceMap
<1>17. ASSUME NEW i \in seen.voice_binds, NEW row \in VoiceMapRows, UpdateVoiceMap(i, row)
       PROVE  CommitsAll
  BY <1>1, <1>2, <1>17 DEF UpdateVoiceMap
<1>18. CASE PageLoad \/ Restart
  BY <1>18 DEF PageLoad, Restart, CommitsAll
<1> QED
  BY <1>4, <1>5, <1>6, <1>7, <1>8, <1>9, <1>10, <1>11, <1>12, <1>13, <1>14, <1>15, <1>16,
     <1>17, <1>18 DEF Next

LEMMA DiskGrows ==
    ASSUME IInv, DiskBehind, Next
    PROVE  IInv' /\ DiskBehind' /\ StoreGrown(disk, disk')
<1>1. IInv' /\ DbGrows
  BY NextStep
<1>2. StoreOK(db) /\ StoreOK(disk) /\ StoreOK(db') /\ StoreOK(disk')
  BY <1>1 DEF IInv, TypeOK
<1>3. CASE UNCHANGED disk
  <2>1. StoreGrown(disk, disk')
    BY <1>2, <1>3, StoreGrownReflexive
  <2>2. StoreGrown(disk, db')
    BY <1>1, <1>2, StoreGrownReflexive, StoreGrownTransitive DEF DbGrows, DiskBehind
  <2> QED
    BY <1>1, <1>3, <2>1, <2>2 DEF DiskBehind
<1>4. CASE disk' = db'
  <2>1. StoreGrown(disk, db')
    BY <1>1, <1>2, StoreGrownReflexive, StoreGrownTransitive DEF DbGrows, DiskBehind
  <2>2. StoreGrown(disk', db')
    BY <1>2, <1>4, StoreGrownReflexive
  <2> QED
    BY <1>1, <1>4, <2>1, <2>2 DEF DiskBehind
<1>5. CASE StoreGrown(db, disk') /\ StoreGrown(disk', db')
  <2>1. StoreGrown(disk, disk')
    BY <1>2, <1>5, StoreGrownTransitive DEF DiskBehind
  <2> QED
    BY <1>1, <1>5, <2>1 DEF DiskBehind
<1> QED
  BY <1>3, <1>4, <1>5, CommitsWhat DEF CommitsAll

-----------------------------------------------------------------------------
(***************************************************************************)
(* The theorems.                                                           *)
(***************************************************************************)

\* Whatever requests arrive in whatever order, and whenever commits are refused or
\* the server is killed, tables hold rows of their type under ids they gave out.
THEOREM Types == Spec => []TypeOK
<1>1. IInv => TypeOK
  BY DEF IInv
<1> QED
  BY <1>1, Inductive, PTL

\* A key never has two maps in one activity: the default keys of add_activity never
\* meet a map that a late save_key_map left behind, since no activity id comes twice.
THEOREM KeyMapsAreUnique == Spec => []KeyMapUnique
<1>1. IInv => KeyMapUnique
  BY DEF IInv, KeysOK, KeyMapUnique
<1> QED
  BY <1>1, Inductive, PTL

\* A row whose removal was committed never comes back, and its id names no other row.
THEOREM RemovedIdsStayGone == Spec => []GoneForGood
<1>1. IInv => GoneForGood
  BY DEF IInv
<1> QED
  BY <1>1, Inductive, PTL

\* Of every table but key_binds, a page is only ever shown committed rows.
THEOREM RepliesAreDurable == Spec => []ShownIsDurable
<1>1. IInv => ShownIsDurable
  BY DEF IInv
<1> QED
  BY <1>1, Inductive, PTL

\* What a request or a restart makes of the ids that pages were shown.
LEMMA NotRecycledStep ==
    ASSUME IInv, Next
    PROVE  \A t \in DurableTables :
              (IdsIn(db, t)' \ IdsIn(db, t)) \cap seen[t] \subseteq IdsIn(disk, t)
<1>1. DbGrows /\ IInv'
  BY NextStep
<1>2. CASE db' = disk
  BY <1>2
<1>3. CASE StoreGrown(db, db')
  <2> SUFFICES ASSUME NEW t \in DurableTables, NEW i \in IdsIn(db', t),
                      i \notin IdsIn(db, t), i \in seen[t]
               PROVE  FALSE
    OBVIOUS
  <2>1. t \in Tables /\ disk[t].seq \in Nat /\ disk[t].seq <= db[t].seq
    BY DEF DurableTables, IInv, TypeOK, StoreOK, TableOK, SeqAhead
  <2>2. i \in 1..disk[t].seq
    BY DEF IInv, SeenCommitted
  <2>3. i > db[t].seq /\ db[t].seq \in Nat
    BY <1>1, <1>3, <2>1, GrownIds DEF IInv, TypeOK
  <2> QED
    BY <2>1, <2>2, <2>3
<1> QED
  BY <1>1, <1>2, <1>3 DEF DbGrows

\* No step gives an id that a page was shown to a new row.
THEOREM ShownIdsAreNotRecycled == Spec => IdsNotRecycled
<1> DEFINE Step == \A t \in DurableTables :
                      (IdsIn(db, t)' \ IdsIn(db, t)) \cap seen[t] \subseteq IdsIn(disk, t)
<1>1. IInv /\ [Next]_vars => [Step]_vars
  BY NotRecycledStep
<1> QED
  BY <1>1, Inductive, PTL DEF Spec, IdsNotRecycled

-----------------------------------------------------------------------------
(***************************************************************************)
(* Part 2.                                                                 *)
(* Proof that a bind to an existing button names the remote that owns the  *)
(* button (WebRemoteStore!BindsNameTheirRemote).                           *)
(*                                                                         *)
(* A bind's two ids come from a page, which had them from a reply or from  *)
(* a page load, perhaps long ago, or from the installed default keys.  So  *)
(* the argument is about all pairs that are known anywhere: each names a   *)
(* button that was given out, and as long as that button is there, its     *)
(* remote.  No handler changes a button's remote, and ids are not reused.  *)
(***************************************************************************)
PairOf(row) == [button_id |-> row.button_id, remote_id |-> row.remote_id]

TablePairs(tab) == {PairOf(tab.rows[i]) : i \in DOMAIN tab.rows}

Pairs(s) == UNION {TablePairs(s[t]) : t \in BindTables}

Unbound == [button_id |-> Null, remote_id |-> Null]

DefaultPairs == {[button_id |-> b, remote_id |-> BTRemote] : b \in 1..InstalledButtons}

\* What a request may put into a bind.
Known == owners \cup {Unbound} \cup DefaultPairs

GoodPair(s, p) ==
    /\ p.button_id \in 0..s["remote_buttons"].seq
    /\ p.button_id \in IdsIn(s, "remote_buttons") =>
           s["remote_buttons"].rows[p.button_id].remote_id = p.remote_id

\* No row of the table is changed or comes back.
RowsKept(old, new) ==
    /\ old.seq \in Nat /\ new.seq \in Nat /\ old.seq <= new.seq
    /\ \A i \in DOMAIN new.rows :
          \/ i \in DOMAIN old.rows /\ new.rows[i] = old.rows[i]
          \/ i \in Nat /\ i > old.seq

ButtonsKept(s, new) == RowsKept(s["remote_buttons"], new["remote_buttons"])

BindStep(s, new) == ButtonsKept(s, new) /\ Pairs(new) \subseteq Pairs(s) \cup Known

-----------------------------------------------------------------------------
(***************************************************************************)
(* The table operations.                                                   *)
(***************************************************************************)
LEMMA RowsKeptReflexive ==
    ASSUME NEW R, NEW tab, TableOK(tab, R)
    PROVE  RowsKept(tab, tab)
BY DEF RowsKept, TableOK

LEMMA RowsKeptTransitive ==
    ASSUME NEW old, NEW mid, NEW new, RowsKept(old, mid), RowsKept(mid, new)
    PROVE  RowsKept(old, new)
BY DEF RowsKept

LEMMA InsertKept ==
    ASSUME NEW R, NEW tab, TableOK(tab, R), NEW row \in R
    PROVE  /\ RowsKept(tab, Insert(tab, row))
           /\ TablePairs(Insert(tab, row)) = TablePairs(tab) \cup {PairOf(row)}
<1> DEFINE new == Insert(tab, row)
<1>1. /\ new.seq = tab.seq + 1
      /\ DOMAIN new.rows = DOMAIN tab.rows \cup {tab.seq + 1}
      /\ \A i \in DOMAIN tab.rows : new.rows[i] = tab.rows[i]
      /\ new.rows[tab.seq + 1] = row
  BY InsertTable
<1> HIDE DEF new
<1>2. RowsKept(tab, new)
  <2>1. tab.seq \in Nat
    BY DEF TableOK
  <2> QED
    BY <1>1, <2>1 DEF RowsKept
<1>3. TablePairs(new) = TablePairs(tab) \cup {PairOf(row)}
  BY <1>1 DEF TablePairs
<1> QED
  BY <1>2, <1>3 DEF new

LEMMA DeleteKept ==
    ASSUME NEW R, NEW tab, TableOK(tab, R), NEW ids
    PROVE  /\ RowsKept(tab, Delete(tab, ids))
           /\ TablePairs(Delete(tab, ids)) \subseteq TablePairs(tab)
<1> DEFINE new == Delete(tab, ids)
<1>1. /\ new.seq = tab.seq
      /\ DOMAIN new.rows = DOMAIN tab.rows \ ids
      /\ \A i \in DOMAIN tab.rows \ ids : new.rows[i] = tab.rows[i]
  BY DeleteTable
<1>0. tab.seq \in Nat
  BY DEF TableOK
<1> HIDE DEF new
<1>2. RowsKept(tab, new) /\ TablePairs(new) \subseteq TablePairs(tab)
  BY <1>0, <1>1 DEF RowsKept, TablePairs
<1> QED
  BY <1>2 DEF new

LEMMA AssignPairs ==
    ASSUME NEW R, NEW tab, TableOK(tab, R), NEW ids, NEW row \in R
    PROVE  TablePairs(Assign(tab, ids, row)) \subseteq TablePairs(tab) \cup {PairOf(row)}
<1> DEFINE new == Assign(tab, ids, row)
<1>1. /\ DOMAIN new.rows = DOMAIN tab.rows
      /\ \A i \in DOMAIN tab.rows : new.rows[i] = IF i \in ids THEN row ELSE tab.rows[i]
  BY AssignTable
<1> HIDE DEF new
<1>2. TablePairs(new) \subseteq TablePairs(tab) \cup {PairOf(row)}
  BY <1>1 DEF TablePairs
<1> QED
  BY <1>2 DEF new

LEMMA UnbindPairs ==
    ASSUME NEW tab, TableOK(tab, ButtonBindRow), NEW ids
    PROVE  TablePairs(Unbind(tab, ids)) \subseteq TablePairs(tab) \cup {Unbound}
<1> DEFINE new == Unbind(tab, ids)
<1>1. DOMAIN new.rows = DOMAIN tab.rows
  BY DEF Unbind
<1>2. ASSUME NEW i \in DOMAIN tab.rows
      PROVE  PairOf(new.rows[i]) \in TablePairs(tab) \cup {Unbound}
  <2>1. tab.rows[i] \in ButtonBindRow
    BY DEF TableOK
  <2>2. CASE i \in ids
    <3>1. new.rows[i] = [tab.rows[i] EXCEPT !.remote_id = Null, !.button_id = Null]
      BY <2>2 DEF Unbind
    <3>2. new.rows[i].button_id = Null /\ new.rows[i].remote_id = Null
      BY <2>1, <3>1 DEF ButtonBindRow
    <3> QED
      BY <3>2 DEF PairOf, Unbound
  <2>3. CASE i \notin ids
    <3>1. new.rows[i] = tab.rows[i]
      BY <2>3 DEF Unbind
    <3> QED
      BY <3>1 DEF TablePairs
  <2> QED
    BY <2>2, <2>3
<1> QED
  BY <1>1, <1>2 DEF TablePairs

LEMMA MovePairs ==
    ASSUME NEW tab, TableOK(tab, ButtonBindRow), NEW ids, NEW a
    PROVE  TablePairs(MoveTo(tab, ids, a)) \subseteq TablePairs(tab)
<1> DEFINE new == MoveTo(tab, ids, a)
<1>1. DOMAIN new.rows = DOMAIN tab.rows
  BY DEF MoveTo
<1>2. ASSUME NEW i \in DOMAIN tab.rows
      PROVE  PairOf(new.rows[i]) = PairOf(tab.rows[i])
  <2>1. tab.rows[i] \in ButtonBindRow
    BY DEF TableOK
  <2>2. \/ new.rows[i] = [tab.rows[i] EXCEPT !.activity_id = a]
        \/ new.rows[i] = tab.rows[i]
    BY DEF MoveTo
  <2>3. /\ new.rows[i].button_id = tab.rows[i].button_id
        /\ new.rows[i].remote_id = tab.rows[i].remote_id
    BY <2>1, <2>2 DEF ButtonBindRow
  <2> QED
    BY <2>3 DEF PairOf
<1> QED
  BY <1>1, <1>2 DEF TablePairs

-----------------------------------------------------------------------------
(***************************************************************************)
(* The handlers: no bind is made of a pair that was not known.             *)
(***************************************************************************)
LEMMA BindStepByTables ==
    ASSUME NEW s, NEW new, ButtonsKept(s, new),
           \A t \in BindTables : TablePairs(new[t]) \subseteq TablePairs(s[t]) \cup Known
    PROVE  BindStep(s, new)
BY DEF BindStep, Pairs

\* A handler that touches one of the tables of binds, and nothing else.
LEMMA OneBindTable ==
    ASSUME NEW s, StoreOK(s), NEW t \in BindTables, NEW tab,
           TablePairs(tab) \subseteq TablePairs(s[t]) \cup Known
    PROVE  BindStep(s, [s EXCEPT ![t] = tab])
<1> DEFINE new == [s EXCEPT ![t] = tab]
<1>1. /\ t # "remote_buttons" /\ t \in Tables /\ "remote_buttons" \in Tables
      /\ DOMAIN s = Tables /\ BindTables \subseteq Tables
      /\ TableOK(s["remote_buttons"], RowType["remote_buttons"])
  BY DEF StoreOK, BindTables, Tables
<1>2. /\ new["remote_buttons"] = s["remote_buttons"] /\ new[t] = tab
      /\ \A u \in BindTables \ {t} : new[u] = s[u]
  BY <1>1
<1>3. ButtonsKept(s, new)
  BY <1>1, <1>2, RowsKeptReflexive DEF ButtonsKept
<1> HIDE DEF new
<1>4. BindStep(s, new)
  BY <1>2, <1>3, BindStepByTables
<1> QED
  BY <1>4 DEF new

\* A handler that touches none of them, and keeps the buttons.
LEMMA OtherTables ==
    ASSUME NEW s, NEW t \in Tables \ BindTables, NEW tab,
           StoreOK(s), t = "remote_buttons" => RowsKept(s[t], tab)
    PROVE  BindStep(s, [s EXCEPT ![t] = tab])
<1> DEFINE new == [s EXCEPT ![t] = tab]
<1>1. /\ DOMAIN s = Tables /\ BindTables \subseteq Tables /\ "remote_buttons" \in Tables
      /\ TableOK(s["remote_buttons"], RowType["remote_buttons"])
  BY DEF StoreOK, BindTables, Tables
<1>2. /\ \A u \in BindTables : new[u] = s[u]
      /\ new["remote_buttons"] = IF t = "remote_buttons" THEN tab ELSE s["remote_buttons"]
  BY <1>1
<1>3. ButtonsKept(s, new)
  BY <1>1, <1>2, RowsKeptReflexive DEF ButtonsKept
<1> HIDE DEF new
<1>4. BindStep(s, new)
  BY <1>2, <1>3, BindStepByTables
<1> QED
  BY <1>4 DEF new

LEMMA TableTypes ==
    ASSUME NEW s, StoreOK(s)
    PROVE  /\ TableOK(s["remotes"], RowType["remotes"])
           /\ TableOK(s["remote_buttons"], RowType["remote_buttons"])
           /\ TableOK(s["activities"], RowType["activities"])
           /\ TableOK(s["button_binds"], ButtonBindRow)
           /\ TableOK(s["key_binds"], RowType["key_binds"])
           /\ TableOK(s["voice_binds"], RowType["voice_binds"])
           /\ RowType["button_binds"] = ButtonBindRow
<1>1. RowType["button_binds"] = ButtonBindRow
  BY DEF RowType, ButtonBindRow
<1> QED
  BY <1>1 DEF StoreOK, Tables

LEMMA AddRowsBinds ==
    ASSUME NEW s, StoreOK(s), NEW r \in Ids
    PROVE  /\ BindStep(s, add_activity_row(s))
           /\ BindStep(s, add_remote(s))
           /\ BindStep(s, add_remote_button(s, r))
<1>1. {"activities", "remotes", "remote_buttons"} \subseteq Tables \ BindTables
  BY DEF Tables, BindTables
<1>2. BindStep(s, add_activity_row(s))
  BY <1>1, OtherTables DEF add_activity_row
<1>3. BindStep(s, add_remote(s))
  BY <1>1, OtherTables DEF add_remote
<1>4. BindStep(s, add_remote_button(s, r))
  <2>1. [remote_id |-> r] \in RowType["remote_buttons"]
    BY DEF RowType
  <2>2. RowsKept(s["remote_buttons"], Insert(s["remote_buttons"], [remote_id |-> r]))
    BY <2>1, TableTypes, InsertKept
  <2> QED
    BY <1>1, <2>2, OtherTables DEF add_remote_button
<1> QED
  BY <1>2, <1>3, <1>4

LEMMA DeleteMapBinds ==
    ASSUME NEW s, StoreOK(s), NEW i
    PROVE  /\ BindStep(s, delete_button_map(s, i))
           /\ BindStep(s, delete_key_map(s, i))
           /\ BindStep(s, delete_voice_map(s, i))
<1>1. ASSUME NEW t \in BindTables
      PROVE  BindStep(s, [s EXCEPT ![t] = Delete(s[t], {i})])
  <2>1. TablePairs(Delete(s[t], {i})) \subseteq TablePairs(s[t])
    <3>1. t \in Tables
      BY DEF BindTables, Tables
    <3> QED
      BY <3>1, DeleteKept DEF StoreOK
  <2> QED
    BY <2>1, OneBindTable
<1>2. /\ BindStep(s, [s EXCEPT !["button_binds"] = Delete(s["button_binds"], {i})])
      /\ BindStep(s, [s EXCEPT !["key_binds"] = Delete(s["key_binds"], {i})])
      /\ BindStep(s, [s EXCEPT !["voice_binds"] = Delete(s["voice_binds"], {i})])
  BY <1>1 DEF BindTables
<1> QED
  BY <1>2 DEF delete_button_map, delete_key_map, delete_voice_map

LEMMA InsertMapBinds ==
    ASSUME NEW s, StoreOK(s), NEW row, PairOf(row) \in Known
    PROVE  /\ row \in RowType["button_binds"] => BindStep(s, insert_button_map(s, row))
           /\ row \in RowType["voice_binds"] => BindStep(s, insert_voice_map(s, row))
<1>1. ASSUME NEW t \in BindTables, row \in RowType[t]
      PROVE  BindStep(s, [s EXCEPT ![t] = Insert(s[t], row)])
  <2>1. TablePairs(Insert(s[t], row)) = TablePairs(s[t]) \cup {PairOf(row)}
    <3>1. TableOK(s[t], RowType[t])
      BY DEF StoreOK, BindTables, Tables
    <3> QED
      BY <1>1, <3>1, InsertKept
  <2> QED
    BY <2>1, OneBindTable
<1>2. row \in RowType["button_binds"] =>
         BindStep(s, [s EXCEPT !["button_binds"] = Insert(s["button_binds"], row)])
  BY <1>1 DEF BindTables
<1>3. row \in RowType["voice_binds"] =>
         BindStep(s, [s EXCEPT !["voice_binds"] = Insert(s["voice_binds"], row)])
  BY <1>1 DEF BindTables
<1> QED
  BY <1>2, <1>3 DEF insert_button_map, insert_voice_map

LEMMA UpdateMapBinds ==
    ASSUME NEW s, StoreOK(s), NEW row, NEW i, PairOf(row) \in Known
    PROVE  /\ row \in RowType["button_binds"] => BindStep(s, update_button_map(s, i, row))
           /\ row \in RowType["voice_binds"] => BindStep(s, update_voice_map(s, i, row))
<1>1. ASSUME NEW t \in BindTables, row \in RowType[t]
      PROVE  BindStep(s, [s EXCEPT ![t] = Assign(s[t], {i}, row)])
  <2>1. TablePairs(Assign(s[t], {i}, row)) \subseteq TablePairs(s[t]) \cup {PairOf(row)}
    <3>1. TableOK(s[t], RowType[t])
      BY DEF StoreOK, BindTables, Tables
    <3> QED
      BY <1>1, <3>1, AssignPairs
  <2> QED
    BY <2>1, OneBindTable
<1>2. BindStep(s, [s EXCEPT !["button_binds"] = MoveTo(s["button_binds"], {i}, row.activity_id)])
  <2>1. TablePairs(MoveTo(s["button_binds"], {i}, row.activity_id)) \subseteq TablePairs(s["button_binds"])
    BY TableTypes, MovePairs
  <2> QED
    BY <2>1, OneBindTable DEF BindTables
<1>3. row \in RowType["button_binds"] =>
         BindStep(s, [s EXCEPT !["button_binds"] = Assign(s["button_binds"], {i}, row)])
  BY <1>1 DEF BindTables
<1>4. row \in RowType["voice_binds"] =>
         BindStep(s, [s EXCEPT !["voice_binds"] = Assign(s["voice_binds"], {i}, row)])
  BY <1>1 DEF BindTables
<1> QED
  BY <1>2, <1>3, <1>4 DEF update_button_map, update_voice_map

LEMMA SaveKeyMapBinds ==
    ASSUME NEW s, StoreOK(s), NEW row \in RowType["key_binds"], PairOf(row) \in Known
    PROVE  BindStep(s, save_key_map(s, row))
<1> DEFINE found == KeyMapsOf(s, row.key_code, row.activity_id)
           ins   == Insert(s["key_binds"], row)
           upd   == Assign(s["key_binds"], FirstOf(found), row)
<1>1. TablePairs(ins) \subseteq TablePairs(s["key_binds"]) \cup Known
  BY TableTypes, InsertKept
<1>2. TablePairs(upd) \subseteq TablePairs(s["key_binds"]) \cup Known
  BY TableTypes, AssignPairs
<1>3. /\ BindStep(s, [s EXCEPT !["key_binds"] = ins])
      /\ BindStep(s, [s EXCEPT !["key_binds"] = upd])
  BY <1>1, <1>2, OneBindTable DEF BindTables
<1> QED
  BY <1>3 DEF save_key_map

LEMMA DeleteActivityBinds ==
    ASSUME NEW s, StoreOK(s), NEW a
    PROVE  BindStep(s, delete_activity(s, a))
<1> DEFINE new  == delete_activity(s, a)
           maps == Delete(s["button_binds"], Having(s["button_binds"], "activity_id", a))
           keys == Delete(s["key_binds"], Having(s["key_binds"], "activity_id", a))
<1>1. /\ new["button_binds"] = maps /\ new["key_binds"] = keys
      /\ new["voice_binds"] = s["voice_binds"] /\ new["remote_buttons"] = s["remote_buttons"]
  BY DEF delete_activity, StoreOK, Tables
<1>2. TablePairs(maps) \subseteq TablePairs(s["button_binds"])
  BY TableTypes, DeleteKept
<1>3. TablePairs(keys) \subseteq TablePairs(s["key_binds"])
  BY TableTypes, DeleteKept
<1>4. ButtonsKept(s, new)
  BY <1>1, TableTypes, RowsKeptReflexive DEF ButtonsKept
<1> HIDE DEF new, maps, keys
<1>5. BindStep(s, new)
  BY <1>1, <1>2, <1>3, <1>4, BindStepByTables DEF BindTables
<1> QED
  BY <1>5 DEF new

LEMMA DeleteRemoteBinds ==
    ASSUME NEW s, StoreOK(s), NEW r
    PROVE  BindStep(s, delete_remote(s, r))
<1> DEFINE new     == delete_remote(s, r)
           buttons == Delete(s["remote_buttons"], Having(s["remote_buttons"], "remote_id", r))
           maps    == Unbind(s["button_binds"], Having(s["button_binds"], "remote_id", r))
           keys    == Delete(s["key_binds"], Having(s["key_binds"], "remote_id", r))
<1>1. /\ new["button_binds"] = maps /\ new["key_binds"] = keys
      /\ new["voice_binds"] = s["voice_binds"] /\ new["remote_buttons"] = buttons
  BY DEF delete_remote, StoreOK, Tables
<1>2. TablePairs(maps) \subseteq TablePairs(s["button_binds"]) \cup {Unbound}
  BY TableTypes, UnbindPairs
<1>3. TablePairs(keys) \subseteq TablePairs(s["key_binds"])
  BY TableTypes, DeleteKept
<1>4. RowsKept(s["remote_buttons"], buttons)
  BY TableTypes, DeleteKept
<1> HIDE DEF new, maps, keys, buttons
<1>5. Unbound \in Known
  BY DEF Known
<1>6. BindStep(s, new)
  BY <1>1, <1>2, <1>3, <1>4, <1>5, BindStepByTables DEF BindTables, ButtonsKept
<1> QED
  BY <1>6 DEF new

LEMMA DeleteRemoteButtonBinds ==
    ASSUME NEW s, StoreOK(s), NEW b
    PROVE  BindStep(s, delete_remote_button(s, b))
<1> DEFINE new     == delete_remote_button(s, b)
           buttons == Delete(s["remote_buttons"], {b})
           maps    == Unbind(s["button_binds"], Having(s["button_binds"], "button_id", b))
           keys    == Delete(s["key_binds"], Having(s["key_binds"], "button_id", b))
<1>1. /\ new["button_binds"] = maps /\ new["key_binds"] = keys
      /\ new["voice_binds"] = s["voice_binds"] /\ new["remote_buttons"] = buttons
  BY DEF delete_remote_button, StoreOK, Tables
<1>2. TablePairs(maps) \subseteq TablePairs(s["button_binds"]) \cup {Unbound}
  BY TableTypes, UnbindPairs
<1>3. TablePairs(keys) \subseteq TablePairs(s["key_binds"])
  BY TableTypes, DeleteKept
<1>4. RowsKept(s["remote_buttons"], buttons)
  BY TableTypes, DeleteKept
<1> HIDE DEF new, maps, keys, buttons
<1>5. Unbound \in Known
  BY DEF Known
<1>6. BindStep(s, new)
  BY <1>1, <1>2, <1>3, <1>4, <1>5, BindStepByTables DEF BindTables, ButtonsKept
<1> QED
  BY <1>6 DEF new

\* The default keys name buttons of the Bluetooth remote.
LEMMA CopyDefaultKeysBinds ==
    ASSUME NEW s, StoreOK(s), NEW a
    PROVE  BindStep(s, copy_default_keys(s, a))
<1> DEFINE old  == s["key_binds"]
           rows == [n \in 1..Len(DefaultKeys) |->
                        [key_code    |-> DefaultKeys[n].key_code,
                         remote_id   |-> DefaultKeys[n].remote_id,
                         button_id   |-> DefaultKeys[n].button_id,
                         activity_id |-> a]]
           tab  == InsertAll(old, rows)
<1>1. /\ Len(DefaultKeys) \in Nat /\ DOMAIN DefaultKeys = 1..Len(DefaultKeys)
      /\ \A n \in 1..Len(DefaultKeys) : DefaultKeys[n] \in DefaultKeyRow
      /\ Len(rows) = Len(DefaultKeys)
  BY DefaultKeysAssumption
<1>2. old.seq \in Nat
  BY TableTypes DEF TableOK
<1>3. ASSUME NEW n \in 1..Len(DefaultKeys)
      PROVE  PairOf(rows[n]) \in Known
  <2>1. DefaultKeys[n] \in DefaultKeyRow
    BY <1>1
  <2>2. DefaultKeys[n].button_id \in 1..InstalledButtons /\ DefaultKeys[n].remote_id = BTRemote
    BY <2>1 DEF DefaultKeyRow
  <2>3. PairOf(rows[n]) = [button_id |-> DefaultKeys[n].button_id, remote_id |-> BTRemote]
    BY <2>2 DEF PairOf
  <2> QED
    BY <2>2, <2>3 DEF Known, DefaultPairs
<1>4. ASSUME NEW i \in DOMAIN tab.rows
      PROVE  PairOf(tab.rows[i]) \in TablePairs(old) \cup Known
  <2>1. CASE i \in DOMAIN old.rows
    <3>1. tab.rows[i] = old.rows[i]
      BY <2>1 DEF InsertAll
    <3> QED
      BY <2>1, <3>1 DEF TablePairs
  <2>2. CASE i \notin DOMAIN old.rows
    <3>1. i \in (old.seq + 1)..(old.seq + Len(rows)) /\ tab.rows[i] = rows[i - old.seq]
      BY <2>2 DEF InsertAll
    <3>2. i - old.seq \in 1..Len(DefaultKeys)
      BY <1>1, <1>2, <3>1
    <3> QED
      BY <1>3, <3>1, <3>2
  <2> QED
    BY <2>1, <2>2
<1>5. TablePairs(tab) \subseteq TablePairs(old) \cup Known
  BY <1>4 DEF TablePairs
<1>6. BindStep(s, [s EXCEPT !["key_binds"] = tab])
  BY <1>5, OneBindTable DEF BindTables
<1> QED
  BY <1>6 DEF copy_default_keys

-----------------------------------------------------------------------------
(***************************************************************************)
(* The invariant.                                                          *)
(***************************************************************************)
PairsGood(s) == \A p \in Pairs(s) \cup Known : GoodPair(s, p)

BInv ==
    /\ IInv
    /\ ButtonsKept(disk, db)
    /\ PairsGood(db) /\ PairsGood(disk)

LEMMA PairsStayGood ==
    ASSUME NEW s, NEW new, PairsGood(s), BindStep(s, new)
    PROVE  PairsGood(new)
<1> SUFFICES ASSUME NEW p \in Pairs(new) \cup Known PROVE GoodPair(new, p)
  BY DEF PairsGood
<1> DEFINE b   == p.button_id
           old == s["remote_buttons"]
           now == new["remote_buttons"]
<1>1. /\ b \in 0..old.seq
      /\ b \in DOMAIN old.rows => old.rows[b].remote_id = p.remote_id
  BY DEF PairsGood, BindStep, GoodPair, IdsIn
<1>2. RowsKept(old, now)
  BY DEF BindStep, ButtonsKept
<1> HIDE DEF b, old, now
<1>3. /\ b \in 0..now.seq
      /\ b \in DOMAIN now.rows => now.rows[b].remote_id = p.remote_id
  BY <1>1, <1>2 DEF RowsKept
<1> QED
  BY <1>3 DEF b, now, GoodPair, IdsIn

\* The buttons that a reply or a page load shows, each with its remote.
LEMMA ShownOwnersGood ==
    ASSUME NEW s, StoreOK(s), NEW new, ButtonsKept(s, new),
           NEW ids \in SUBSET IdsIn(s, "remote_buttons"),
           NEW p \in OwnersIn(s["remote_buttons"], ids)
    PROVE  GoodPair(new, p)
<1>1. PICK b \in ids : p = [button_id |-> b, remote_id |-> s["remote_buttons"].rows[b].remote_id]
  BY DEF OwnersIn
<1>2. /\ b \in DOMAIN s["remote_buttons"].rows
      /\ b \in 1..s["remote_buttons"].seq
      /\ p.button_id = b /\ p.remote_id = s["remote_buttons"].rows[b].remote_id
  BY <1>1, TableTypes DEF IdsIn, TableOK
<1> QED
  BY <1>2 DEF GoodPair, ButtonsKept, RowsKept, IdsIn

LEMMA ButtonsKeptReflexive ==
    ASSUME NEW s, StoreOK(s)
    PROVE  ButtonsKept(s, s) /\ BindStep(s, s)
BY TableTypes, RowsKeptReflexive DEF ButtonsKept, BindStep

\* Known grows by what is shown of the tables that are committed.
LEMMA KnownGrows ==
    ASSUME NEW new, PairsGood(new),
           \A p \in owners' : p \in owners \/ GoodPair(new, p)
    PROVE  \A p \in Pairs(new) \cup Known' : GoodPair(new, p)
BY DEF Known, PairsGood, DefaultPairs, Unbound

\* A handler that commits mid and goes on to new.
LEMMA CommitBinds ==
    ASSUME BInv, IInv', NEW mid, NEW new, StoreOK(mid),
           BindStep(db, mid), BindStep(mid, new), disk' = mid, db' = new,
           NEW ids \in SUBSET IdsIn(mid, "remote_buttons"),
           owners' \subseteq owners \cup OwnersIn(mid["remote_buttons"], ids)
    PROVE  BInv'
<1>1. PairsGood(mid) /\ PairsGood(new)
  BY PairsStayGood DEF BInv
<1>2. ButtonsKept(mid, mid) /\ ButtonsKept(mid, new)
  BY ButtonsKeptReflexive DEF BindStep
<1>3. \A p \in owners' : p \in owners \/ (GoodPair(mid, p) /\ GoodPair(new, p))
  BY <1>2, ShownOwnersGood
<1>4. \A p \in Pairs(mid) \cup Known' : GoodPair(mid, p)
  BY <1>1, <1>3, KnownGrows
<1>5. \A p \in Pairs(new) \cup Known' : GoodPair(new, p)
  BY <1>1, <1>3, KnownGrows
<1>6. PairsGood(db)' /\ PairsGood(disk)'
  BY <1>4, <1>5 DEF PairsGood
<1>7. ButtonsKept(disk, db)'
  BY <1>2
<1> QED
  BY <1>6, <1>7 DEF BInv

LEMMA DoneBinds ==
    ASSUME BInv, IInv', NEW new, BindStep(db, new), Done(new),
           NEW ids \in SUBSET IdsIn(new, "remote_buttons"),
           owners' \subseteq owners \cup OwnersIn(new["remote_buttons"], ids)
    PROVE  BInv'
<1>1. disk' = new /\ db' = new
  BY DEF Done, Commit
<1>2. StoreOK(new)
  BY <1>1 DEF IInv, TypeOK
<1>3. BindStep(new, new)
  BY <1>2, ButtonsKeptReflexive
<1> QED
  BY <1>1, <1>2, <1>3, CommitBinds

LEMMA RefusedBinds ==
    ASSUME BInv, IInv', NEW new, BindStep(db, new), Refused(new)
    PROVE  BInv'
<1>1. db' = new /\ UNCHANGED disk /\ UNCHANGED owners
  BY DEF Refused
<1>2. PairsGood(new)
  BY PairsStayGood DEF BInv
<1>3. ButtonsKept(disk, new)
  BY RowsKeptTransitive DEF BInv, BindStep, ButtonsKept
<1>4. Known' = Known
  BY <1>1 DEF Known, DefaultPairs, Unbound
<1> QED
  BY <1>1, <1>2, <1>3, <1>4 DEF BInv, PairsGood

\* The two ways to end of a handler that shows no button.
LEMMA EndBinds ==
    ASSUME BInv, IInv', NEW new, BindStep(db, new), (Done(new) /\ UNCHANGED owners) \/ Refused(new)
    PROVE  BInv'
<1>1. {} \subseteq IdsIn(new, "remote_buttons")
  OBVIOUS
<1> QED
  BY <1>1, DoneBinds, RefusedBinds

LEMMA SameBinds ==
    ASSUME BInv, IInv', UNCHANGED db, UNCHANGED disk, UNCHANGED owners
    PROVE  BInv'
BY DEF BInv, PairsGood, Known, DefaultPairs, Unbound, ButtonsKept

\* Requests carry pairs that are known.
LEMMA RequestPairs ==
    ASSUME owners \subseteq [button_id: Ids, remote_id: Ids]
    PROVE  \A row \in ButtonMapRows \cup KeyMapRows \cup VoiceMapRows : PairOf(row) \in Known
<1> SUFFICES ASSUME NEW row \in ButtonMapRows \cup KeyMapRows \cup VoiceMapRows
             PROVE  PairOf(row) \in Known
  OBVIOUS
<1>1. PICK o \in owners \cup {Unbound} :
         row.button_id = o.button_id /\ row.remote_id = o.remote_id
  BY DEF ButtonMapRows, KeyMapRows, VoiceMapRows, Unbound
<1>2. o = [button_id |-> o.button_id, remote_id |-> o.remote_id]
  BY DEF Unbound
<1>3. PairOf(row) = o
  BY <1>1, <1>2 DEF PairOf
<1> QED
  BY <1>3 DEF Known

LEMMA BindsInit == Init => BInv
<1> SUFFICES ASSUME Init PROVE BInv
  OBVIOUS
<1>1. IInv /\ db = disk /\ db = InstalledStore /\ owners = {}
  BY InitIInv DEF Init
<1>2. StoreOK(db)
  BY <1>1 DEF IInv, TypeOK
<1>3. ButtonsKept(disk, db)
  BY <1>1, <1>2, ButtonsKeptReflexive
<1>4. /\ db["remote_buttons"].seq = InstalledButtons
      /\ db["remote_buttons"].rows = [i \in 1..InstalledButtons |-> [remote_id |-> BTRemote]]
  <2>1. InstalledStore["remote_buttons"] =
           [seq |-> InstalledButtons,
            rows |-> [i \in 1..InstalledButtons |-> [remote_id |-> BTRemote]]]
    BY DEF InstalledStore, Tables
  <2> QED
    BY <1>1, <2>1
<1>5. Pairs(db) = {}
  <2>1. \A t \in BindTables : DOMAIN db[t].rows = {}
    BY <1>1 DEF InstalledStore, BindTables, Tables
  <2> QED
    BY <2>1 DEF Pairs, TablePairs
<1>6. ASSUME NEW p \in Known PROVE GoodPair(db, p)
  <2>1. CASE p = Unbound
    BY <1>4, <2>1, InstalledAssumption DEF GoodPair, Unbound, Null, IdsIn
  <2>2. CASE p \in DefaultPairs
    <3>1. PICK b \in 1..InstalledButtons : p = [button_id |-> b, remote_id |-> BTRemote]
      BY <2>2 DEF DefaultPairs
    <3>2. b \in 0..InstalledButtons
      BY InstalledAssumption
    <3> QED
      BY <1>4, <3>1, <3>2 DEF GoodPair, IdsIn
  <2> QED
    BY <1>1, <2>1, <2>2 DEF Known
<1>7. PairsGood(db)
  BY <1>5, <1>6 DEF PairsGood
<1> QED
  BY <1>1, <1>3, <1>7 DEF BInv

LEMMA BindsAddActivity == BInv /\ IInv' /\ AddActivity => BInv'
<1> SUFFICES ASSUME BInv, IInv', AddActivity PROVE BInv'
  OBVIOUS
<1> DEFINE added == add_activity_row(db)
<1>1. StoreOK(db) /\ KeysOK(db)
  BY DEF BInv, IInv, TypeOK
<1>2. 1 \in Ids
  BY DEF Ids, Null
<1>3. BindStep(db, added)
  BY <1>1, <1>2, AddRowsBinds
<1>4. CASE Refused(added) \/ (Done(added) /\ SilentReply)
  BY <1>3, <1>4, EndBinds DEF SilentReply
<1>5. ASSUME NEW a \in LastIds(added.activities),
             db' = copy_default_keys(added, a), Commit(added), UNCHANGED owners
      PROVE  BInv'
  <2>1. StoreOK(added)
    BY <1>1, <1>5, CopyToNewActivity DEF GoodStep
  <2>2. BindStep(added, copy_default_keys(added, a))
    BY <2>1, CopyDefaultKeysBinds
  <2>3. disk' = added
    BY <1>5 DEF Commit
  <2>4. {} \in SUBSET IdsIn(added, "remote_buttons")
    OBVIOUS
  <2> QED
    BY <1>3, <1>5, <2>1, <2>2, <2>3, <2>4, CommitBinds
<1> QED
  BY <1>4, <1>5 DEF AddActivity

LEMMA BindsPageLoad == BInv /\ IInv' /\ PageLoad => BInv'
<1> SUFFICES ASSUME BInv, IInv', PageLoad PROVE BInv'
  OBVIOUS
<1> DEFINE ids == IdsIn(disk, "remote_buttons")
<1>1. /\ UNCHANGED db /\ UNCHANGED disk
      /\ owners' = owners \cup OwnersIn(disk["remote_buttons"], ids)
  BY DEF PageLoad
<1>2. StoreOK(disk) /\ ButtonsKept(disk, db) /\ PairsGood(db) /\ PairsGood(disk)
  BY DEF BInv, IInv, TypeOK
<1>3. ButtonsKept(disk, disk) /\ ids \in SUBSET ids
  BY <1>2, ButtonsKeptReflexive
<1>4. \A p \in owners' : p \in owners \/ (GoodPair(disk, p) /\ GoodPair(db, p))
  BY <1>1, <1>2, <1>3, ShownOwnersGood
<1>5. \A p \in Pairs(disk) \cup Known' : GoodPair(disk, p)
  BY <1>2, <1>4, KnownGrows
<1>6. \A p \in Pairs(db) \cup Known' : GoodPair(db, p)
  BY <1>2, <1>4, KnownGrows
<1>7. PairsGood(db)' /\ PairsGood(disk)'
  BY <1>1, <1>5, <1>6 DEF PairsGood
<1> QED
  BY <1>1, <1>2, <1>7 DEF BInv

LEMMA BindsNext == BInv /\ Next => BInv'
<1> SUFFICES ASSUME BInv, Next PROVE BInv'
  OBVIOUS
<1>1. IInv' /\ IInv
  BY NextStep DEF BInv
<1>2. /\ StoreOK(db) /\ seen \in [Tables -> SUBSET Ids]
      /\ owners \subseteq [button_id: Ids, remote_id: Ids]
  BY <1>1 DEF IInv, TypeOK
<1>3. 1 \in Ids
  BY DEF Ids, Null
<1>4. CASE NoSuchRecord
  BY <1>1, <1>4, SameBinds DEF NoSuchRecord
<1>5. CASE AddActivity
  BY <1>1, <1>5, BindsAddActivity
<1>6. ASSUME NEW a \in seen.activities, DeleteActivity(a) PROVE BInv'
  BY <1>1, <1>2, <1>6, DeleteActivityBinds, EndBinds DEF DeleteActivity, SilentReply
<1>7. CASE AddRemote
  BY <1>1, <1>2, <1>3, <1>7, AddRowsBinds, EndBinds DEF AddRemote
<1>8. ASSUME NEW r \in seen.remotes, DeleteRemote(r) PROVE BInv'
  BY <1>1, <1>2, <1>4, <1>8, DeleteRemoteBinds, EndBinds DEF DeleteRemote, SilentReply
<1>9. ASSUME NEW r \in seen.remotes, AddRemoteButton(r) PROVE BInv'
  <2> DEFINE new  == add_remote_button(db, r)
             last == LastIds(new["remote_buttons"])
  <2>1. r \in Ids
    BY <1>2 DEF Tables
  <2>2. BindStep(db, new)
    BY <1>2, <2>1, AddRowsBinds
  <2>3. \/ Done(new) /\ owners' = owners \cup OwnersIn(new["remote_buttons"], last)
        \/ Refused(new)
    BY <1>9 DEF AddRemoteButton
  <2>4. last \in SUBSET IdsIn(new, "remote_buttons")
    BY DEF LastIds, IdsIn
  <2> QED
    BY <1>1, <2>2, <2>3, <2>4, DoneBinds, RefusedBinds
<1>10. ASSUME NEW b \in seen.remote_buttons, DeleteRemoteButton(b) PROVE BInv'
  BY <1>1, <1>2, <1>4, <1>10, DeleteRemoteButtonBinds, EndBinds DEF DeleteRemoteButton, SilentReply
<1>11. ASSUME NEW i \in seen.button_binds, DeleteButtonMap(i) PROVE BInv'
  BY <1>1, <1>2, <1>4, <1>11, DeleteMapBinds, EndBinds DEF DeleteButtonMap, SilentReply
<1>12. ASSUME NEW row \in ButtonMapRows, InsertButtonMap(row) PROVE BInv'
  <2>1. BindStep(db, insert_button_map(db, row))
    BY <1>1, <1>2, RequestPairs, RequestTypes, InsertMapBinds
  <2> QED
    BY <1>1, <1>12, <2>1, EndBinds DEF InsertButtonMap
<1>13. ASSUME NEW i \in seen.button_binds, NEW row \in ButtonMapRows, UpdateButtonMap(i, row)
       PROVE  BInv'
  <2>1. BindStep(db, update_button_map(db, i, row))
    BY <1>1, <1>2, RequestPairs, RequestTypes, UpdateMapBinds
  <2> QED
    BY <1>1, <1>13, <2>1, EndBinds DEF UpdateButtonMap, SilentReply
<1>14. ASSUME NEW i \in seen.key_binds, DeleteKeyMap(i) PROVE BInv'
  BY <1>1, <1>2, <1>14, DeleteMapBinds, EndBinds DEF DeleteKeyMap, SilentReply
<1>15. ASSUME NEW row \in KeyMapRows, SaveKeyMap(row) PROVE BInv'
  <2>1. BindStep(db, save_key_map(db, row))
    BY <1>1, <1>2, RequestPairs, RequestTypes, SaveKeyMapBinds
  <2> QED
    BY <1>1, <1>15, <2>1, EndBinds DEF SaveKeyMap
<1>16. ASSUME NEW i \in seen.voice_binds, DeleteVoiceMap(i) PROVE BInv'
  BY <1>1, <1>2, <1>16, DeleteMapBinds, EndBinds DEF DeleteVoiceMap, SilentReply
<1>17. ASSUME NEW row \in VoiceMapRows, InsertVoiceMap(row) PROVE BInv'
  <2>1. BindStep(db, insert_voice_map(db, row))
    BY <1>1, <1>2, RequestPairs, RequestTypes, InsertMapBinds
  <2> QED
    BY <1>1, <1>17, <2>1, EndBinds DEF InsertVoiceMap
<1>18. ASSUME NEW i \in seen.voice_binds, NEW row \in VoiceMapRows, UpdateVoiceMap(i, row)
       PROVE  BInv'
  <2>1. BindStep(db, update_voice_map(db, i, row))
    BY <1>1, <1>2, RequestPairs, RequestTypes, UpdateMapBinds
  <2> QED
    BY <1>1, <1>18, <2>1, EndBinds DEF UpdateVoiceMap, SilentReply
<1>19. CASE PageLoad
  BY <1>1, <1>19, BindsPageLoad
<1>20. CASE Restart
  <2>1. db' = disk /\ UNCHANGED disk /\ UNCHANGED owners
    BY <1>20 DEF Restart
  <2>2. StoreOK(disk)
    BY <1>1 DEF IInv, TypeOK
  <2>3. ButtonsKept(disk, db)' /\ Known' = Known
    BY <2>1, <2>2, ButtonsKeptReflexive DEF Known, DefaultPairs, Unbound
  <2> QED
    BY <1>1, <2>1, <2>3 DEF BInv, PairsGood
<1> QED
  BY <1>5, <1>6, <1>7, <1>8, <1>9, <1>10, <1>11, <1>12, <1>13, <1>14, <1>15, <1>16, <1>17,
     <1>18, <1>19, <1>20 DEF Next

LEMMA PairsNameRemotes ==
    ASSUME NEW s, PairsGood(s)
    PROVE  BindPairs(s)
<1> SUFFICES ASSUME NEW t \in BindTables, NEW i \in IdsIn(s, t),
                    s[t].rows[i].button_id \in IdsIn(s, "remote_buttons")
             PROVE  s[t].rows[i].remote_id =
                       s["remote_buttons"].rows[s[t].rows[i].button_id].remote_id
  BY DEF BindPairs
<1> DEFINE p == PairOf(s[t].rows[i])
<1>1. p \in Pairs(s) /\ p.button_id = s[t].rows[i].button_id /\ p.remote_id = s[t].rows[i].remote_id
  BY DEF Pairs, TablePairs, PairOf, IdsIn
<1> HIDE DEF p
<1>2. GoodPair(s, p)
  BY <1>1 DEF PairsGood
<1> QED
  BY <1>1, <1>2 DEF GoodPair

-----------------------------------------------------------------------------
\* However old the page that sent a bind, and whatever was deleted, added or lost in a
\* restart since, the bind's button belongs to the remote that the bind names; so what
\* delete_remote finds by remote_id is all that hangs on the remote's buttons.
THEOREM BindsNameOwners == Spec => []BindsNameTheirRemote
<1>1. BInv /\ UNCHANGED vars => BInv'
  <2> SUFFICES ASSUME BInv, UNCHANGED vars PROVE BInv'
    OBVIOUS
  <2>1. IInv'
    BY DEF BInv, IInv, TypeOK, vars, SeqAhead, SeenCommitted, GoneCommitted, GoneForGood,
           ShownIsDurable
  <2> QED
    BY <2>1, SameBinds DEF vars
<1>2. BInv /\ [Next]_vars => BInv'
  BY <1>1, BindsNext
<1>3. BInv => BindsNameTheirRemote
  BY PairsNameRemotes DEF BInv, BindsNameTheirRemote
<1> QED
  BY BindsInit, <1>2, <1>3, PTL DEF Spec

-----------------------------------------------------------------------------
(***************************************************************************)
(* Part 3.                                                                 *)
(* Proof that deletes take along what refers to a row                      *)
(* (WebRemoteStore!DeletesCascade).                                        *)
(*                                                                         *)
(* For the handlers this is about what their WHERE clauses find:           *)
(* delete_remote finds binds by their remote, so it needs that a bind      *)
(* names its button's remote (part 2).  For a restart, which               *)
(* takes rows away too, it is about where references come from: pages are  *)
(* shown committed rows only, so no row refers to one that was not         *)
(* committed, and what a restart loses was referred to by nothing.         *)
(***************************************************************************)
Targets == {"activities", "remote_buttons", "remotes"}

RefTables == {"button_binds", "key_binds", "remote_buttons"}

\* Rows whose references have been handed out in m.
RefRow(m) ==
    [button_binds   |-> [remote_id: 0..m["remotes"].seq,
                         button_id: 0..m["remote_buttons"].seq,
                         activity_id: 1..m["activities"].seq],
     key_binds      |-> [key_code: KeyCodes,
                         remote_id: 1..m["remotes"].seq,
                         button_id: 1..m["remote_buttons"].seq,
                         activity_id: 1..m["activities"].seq],
     remote_buttons |-> [remote_id: 1..m["remotes"].seq]]

RefsWithin(s, m) == \A t \in RefTables : TableOK(s[t], RefRow(m)[t])

OwnersWithin(owned, m) ==
    owned \subseteq [button_id: 1..m["remote_buttons"].seq, remote_id: 1..m["remotes"].seq]

InstalledWithin(m) ==
    /\ \A t \in Targets : m[t].seq \in Nat
    /\ InstalledButtons <= m["remote_buttons"].seq
    /\ BTRemote <= m["remotes"].seq

\* What DeletesCascade says of a step.
Keeps(s, new) ==
    \A ref \in References :
        \A i \in IdsIn(s, ref.from) \cap IdsIn(new, ref.from) :
            (s[ref.from].rows[i] = new[ref.from].rows[i] /\ Resolves(s, ref, i))
                => Resolves(new, ref, i)

-----------------------------------------------------------------------------
(***************************************************************************)
(* References.                                                             *)
(***************************************************************************)
LEMMA ReferenceCases ==
    ASSUME NEW ref \in References
    PROVE  \/ /\ ref.to = "activities" /\ ref.col = "activity_id"
              /\ ref.from \in {"button_binds", "key_binds"}
           \/ /\ ref.to = "remote_buttons" /\ ref.col = "button_id"
              /\ ref.from \in {"button_binds", "key_binds"}
           \/ /\ ref.to = "remotes" /\ ref.col = "remote_id"
              /\ ref.from \in RefTables
BY DEF References, RefTables

\* Nothing is lost where nothing disappears.
LEMMA KeepsTargets ==
    ASSUME NEW s, NEW new, \A t \in Targets : IdsIn(s, t) \subseteq IdsIn(new, t)
    PROVE  Keeps(s, new)
<1> SUFFICES ASSUME NEW ref \in References,
                    NEW i \in IdsIn(s, ref.from) \cap IdsIn(new, ref.from),
                    s[ref.from].rows[i] = new[ref.from].rows[i], Resolves(s, ref, i)
             PROVE  Resolves(new, ref, i)
  BY DEF Keeps
<1>1. ref.to \in Targets
  BY ReferenceCases DEF Targets
<1> QED
  BY <1>1 DEF Resolves

OnlyLost(s, new, t, x) ==
    \A u \in Targets : IdsIn(s, u) \subseteq IdsIn(new, u) \cup (IF u = t THEN {x} ELSE {})

Unreferred(new, t, x) ==
    \A ref \in References : \A i \in IdsIn(new, ref.from) :
        ref.to = t => new[ref.from].rows[i][ref.col] # x

\* One row disappears, and no row refers to it.
LEMMA KeepsUnreferred ==
    ASSUME NEW s, NEW new, NEW t, NEW x, OnlyLost(s, new, t, x), Unreferred(new, t, x)
    PROVE  Keeps(s, new)
<1> SUFFICES ASSUME NEW ref \in References,
                    NEW i \in IdsIn(s, ref.from) \cap IdsIn(new, ref.from),
                    s[ref.from].rows[i] = new[ref.from].rows[i], Resolves(s, ref, i)
             PROVE  Resolves(new, ref, i)
  BY DEF Keeps
<1>1. ref.to \in Targets
  BY ReferenceCases DEF Targets
<1>2. CASE ref.to = t
  BY <1>1, <1>2 DEF Resolves, OnlyLost, Unreferred
<1>3. CASE ref.to # t
  BY <1>1, <1>3 DEF Resolves, OnlyLost
<1> QED
  BY <1>2, <1>3

-----------------------------------------------------------------------------
(***************************************************************************)
(* The handlers that delete rows which others refer to.                    *)
(***************************************************************************)
LEMMA DeleteActivityKeeps ==
    ASSUME NEW s, StoreOK(s), NEW a
    PROVE  Keeps(s, delete_activity(s, a))
<1> DEFINE new  == delete_activity(s, a)
           acts == Delete(s["activities"], {a})
           maps == Delete(s["button_binds"], Having(s["button_binds"], "activity_id", a))
           keys == Delete(s["key_binds"], Having(s["key_binds"], "activity_id", a))
<1>1. /\ new["activities"] = acts /\ new["button_binds"] = maps /\ new["key_binds"] = keys
      /\ new["remotes"] = s["remotes"] /\ new["remote_buttons"] = s["remote_buttons"]
  BY DEF delete_activity, StoreOK, Tables
<1>2. DOMAIN acts.rows = DOMAIN s["activities"].rows \ {a}
  BY TableTypes, DeleteTable
<1>3. /\ DOMAIN maps.rows = DOMAIN s["button_binds"].rows \ Having(s["button_binds"], "activity_id", a)
      /\ \A i \in DOMAIN maps.rows : maps.rows[i] = s["button_binds"].rows[i]
  BY TableTypes, DeleteTable
<1>4. /\ DOMAIN keys.rows = DOMAIN s["key_binds"].rows \ Having(s["key_binds"], "activity_id", a)
      /\ \A i \in DOMAIN keys.rows : keys.rows[i] = s["key_binds"].rows[i]
  BY TableTypes, DeleteTable
<1> HIDE DEF new, acts, maps, keys
<1>5. /\ \A i \in DOMAIN maps.rows : maps.rows[i]["activity_id"] # a
      /\ \A i \in DOMAIN keys.rows : keys.rows[i]["activity_id"] # a
  BY <1>3, <1>4 DEF Having
<1>6. ASSUME NEW ref \in References, NEW i \in IdsIn(new, ref.from), ref.to = "activities"
      PROVE  new[ref.from].rows[i][ref.col] # a
  <2>1. ref.col = "activity_id" /\ ref.from \in {"button_binds", "key_binds"}
    BY <1>6, ReferenceCases
  <2> QED
    BY <1>1, <1>5, <1>6, <2>1 DEF IdsIn
<1>7. OnlyLost(s, new, "activities", a)
  BY <1>1, <1>2 DEF OnlyLost, IdsIn, Targets
<1>8. Keeps(s, new)
  <2>1. Unreferred(new, "activities", a)
    BY <1>6 DEF Unreferred
  <2> QED
    BY <1>7, <2>1, KeepsUnreferred
<1> QED
  BY <1>8 DEF new

\* Unbinding takes the references out of the rows that it finds.
LEMMA UnbindRows ==
    ASSUME NEW tab, TableOK(tab, ButtonBindRow), NEW ids
    PROVE  /\ DOMAIN Unbind(tab, ids).rows = DOMAIN tab.rows
           /\ \A i \in DOMAIN tab.rows :
                 IF i \in ids
                 THEN /\ Unbind(tab, ids).rows[i]["remote_id"] = Null
                      /\ Unbind(tab, ids).rows[i]["button_id"] = Null
                 ELSE Unbind(tab, ids).rows[i] = tab.rows[i]
<1> DEFINE new == Unbind(tab, ids)
<1>1. DOMAIN new.rows = DOMAIN tab.rows
  BY DEF Unbind
<1>2. ASSUME NEW i \in DOMAIN tab.rows, i \in ids
      PROVE  new.rows[i]["remote_id"] = Null /\ new.rows[i]["button_id"] = Null
  <2>1. tab.rows[i] \in ButtonBindRow
    BY DEF TableOK
  <2>2. new.rows[i] = [tab.rows[i] EXCEPT !.remote_id = Null, !.button_id = Null]
    BY <1>2 DEF Unbind
  <2> QED
    BY <2>1, <2>2 DEF ButtonBindRow
<1>3. ASSUME NEW i \in DOMAIN tab.rows, i \notin ids
      PROVE  new.rows[i] = tab.rows[i]
  BY <1>3 DEF Unbind
<1> QED
  BY <1>1, <1>2, <1>3

LEMMA DeleteRemoteButtonKeeps ==
    ASSUME NEW s, StoreOK(s), NEW b \in Ids
    PROVE  Keeps(s, delete_remote_button(s, b))
<1> DEFINE new     == delete_remote_button(s, b)
           buttons == Delete(s["remote_buttons"], {b})
           maps    == Unbind(s["button_binds"], Having(s["button_binds"], "button_id", b))
           keys    == Delete(s["key_binds"], Having(s["key_binds"], "button_id", b))
<1>1. /\ new["remote_buttons"] = buttons /\ new["button_binds"] = maps /\ new["key_binds"] = keys
      /\ new["remotes"] = s["remotes"] /\ new["activities"] = s["activities"]
  BY DEF delete_remote_button, StoreOK, Tables
<1>2. DOMAIN buttons.rows = DOMAIN s["remote_buttons"].rows \ {b}
  BY TableTypes, DeleteTable
<1>3. /\ DOMAIN maps.rows = DOMAIN s["button_binds"].rows
      /\ \A i \in DOMAIN maps.rows :
            IF i \in Having(s["button_binds"], "button_id", b)
            THEN maps.rows[i]["button_id"] = Null
            ELSE maps.rows[i] = s["button_binds"].rows[i]
  BY TableTypes, UnbindRows
<1>4. /\ DOMAIN keys.rows = DOMAIN s["key_binds"].rows \ Having(s["key_binds"], "button_id", b)
      /\ \A i \in DOMAIN keys.rows : keys.rows[i] = s["key_binds"].rows[i]
  BY TableTypes, DeleteTable
<1>5. b # Null
  BY DEF Ids
<1> HIDE DEF new, buttons, maps, keys
<1>6. /\ \A i \in DOMAIN maps.rows : maps.rows[i]["button_id"] # b
      /\ \A i \in DOMAIN keys.rows : keys.rows[i]["button_id"] # b
  BY <1>3, <1>4, <1>5 DEF Having
<1>7. ASSUME NEW ref \in References, NEW i \in IdsIn(new, ref.from), ref.to = "remote_buttons"
      PROVE  new[ref.from].rows[i][ref.col] # b
  <2>1. ref.col = "button_id" /\ ref.from \in {"button_binds", "key_binds"}
    BY <1>7, ReferenceCases
  <2> QED
    BY <1>1, <1>6, <1>7, <2>1 DEF IdsIn
<1>8. OnlyLost(s, new, "remote_buttons", b)
  BY <1>1, <1>2 DEF OnlyLost, IdsIn, Targets
<1>9. Keeps(s, new)
  <2>1. Unreferred(new, "remote_buttons", b)
    BY <1>7 DEF Unreferred
  <2> QED
    BY <1>8, <2>1, KeepsUnreferred
<1> QED
  BY <1>9 DEF new

\* The binds of the remote's buttons are among those that name the remote.
LEMMA DeleteRemoteKeeps ==
    ASSUME NEW s, StoreOK(s), BindPairs(s), NEW r \in Ids
    PROVE  Keeps(s, delete_remote(s, r))
<1> DEFINE new     == delete_remote(s, r)
           remotes == Delete(s["remotes"], {r})
           buttons == Delete(s["remote_buttons"], Having(s["remote_buttons"], "remote_id", r))
           maps    == Unbind(s["button_binds"], Having(s["button_binds"], "remote_id", r))
           keys    == Delete(s["key_binds"], Having(s["key_binds"], "remote_id", r))
<1>1. /\ new["remotes"] = remotes /\ new["remote_buttons"] = buttons
      /\ new["button_binds"] = maps /\ new["key_binds"] = keys
      /\ new["activities"] = s["activities"]
  BY DEF delete_remote, StoreOK, Tables
<1>2. DOMAIN remotes.rows = DOMAIN s["remotes"].rows \ {r}
  BY TableTypes, DeleteTable
<1>3. /\ DOMAIN buttons.rows = DOMAIN s["remote_buttons"].rows
                                  \ Having(s["remote_buttons"], "remote_id", r)
      /\ \A i \in DOMAIN buttons.rows : buttons.rows[i] = s["remote_buttons"].rows[i]
  BY TableTypes, DeleteTable
<1>4. /\ DOMAIN maps.rows = DOMAIN s["button_binds"].rows
      /\ \A i \in DOMAIN maps.rows :
            IF i \in Having(s["button_binds"], "remote_id", r)
            THEN maps.rows[i]["remote_id"] = Null /\ maps.rows[i]["button_id"] = Null
            ELSE maps.rows[i] = s["button_binds"].rows[i]
  BY TableTypes, UnbindRows
<1>5. /\ DOMAIN keys.rows = DOMAIN s["key_binds"].rows \ Having(s["key_binds"], "remote_id", r)
      /\ \A i \in DOMAIN keys.rows : keys.rows[i] = s["key_binds"].rows[i]
  BY TableTypes, DeleteTable
<1>6. r # Null
  BY DEF Ids
<1> HIDE DEF new, remotes, buttons, maps, keys
<1>7. /\ \A i \in DOMAIN maps.rows : maps.rows[i]["remote_id"] # r
      /\ \A i \in DOMAIN keys.rows : keys.rows[i]["remote_id"] # r
      /\ \A i \in DOMAIN buttons.rows : buttons.rows[i]["remote_id"] # r
  BY <1>3, <1>4, <1>5, <1>6 DEF Having
<1> SUFFICES ASSUME NEW ref \in References,
                    NEW i \in IdsIn(s, ref.from) \cap IdsIn(new, ref.from),
                    s[ref.from].rows[i] = new[ref.from].rows[i], Resolves(s, ref, i)
             PROVE  Resolves(new, ref, i)
  BY DEF Keeps, new
<1>8. CASE ref.to = "activities"
  BY <1>1, <1>8 DEF Resolves, IdsIn
<1>9. CASE ref.to = "remotes"
  <2>1. ref.col = "remote_id" /\ ref.from \in RefTables
    BY <1>9, ReferenceCases
  <2>2. new[ref.from].rows[i]["remote_id"] # r
    BY <1>1, <1>7, <2>1 DEF IdsIn, RefTables
  <2> QED
    BY <1>1, <1>2, <1>9, <2>1, <2>2 DEF Resolves, IdsIn
<1>10. CASE ref.to = "remote_buttons"
  <2> DEFINE bind == s[ref.from].rows[i]
  <2>1. ref.col = "button_id" /\ ref.from \in {"button_binds", "key_binds"}
    BY <1>10, ReferenceCases
  <2>2. new[ref.from].rows[i]["remote_id"] # r
    BY <1>1, <1>7, <2>1 DEF IdsIn
  <2>3. bind["button_id"] \in IdsIn(s, "remote_buttons")
    BY <1>10, <2>1 DEF Resolves
  <2>4. bind["remote_id"] = s["remote_buttons"].rows[bind["button_id"]]["remote_id"]
    BY <2>1, <2>3 DEF BindPairs, BindTables
  <2>5. bind["button_id"] \in IdsIn(new, "remote_buttons")
    BY <1>1, <1>3, <2>2, <2>3, <2>4 DEF IdsIn, Having
  <2> QED
    BY <1>10, <2>1, <2>5 DEF Resolves
<1> QED
  BY <1>8, <1>9, <1>10, ReferenceCases

-----------------------------------------------------------------------------
(***************************************************************************)
(* Where references come from.                                             *)
(***************************************************************************)
LEMMA RefRows ==
    ASSUME NEW m
    PROVE  /\ RefRow(m)["button_binds"] = [remote_id: 0..m["remotes"].seq,
                                           button_id: 0..m["remote_buttons"].seq,
                                           activity_id: 1..m["activities"].seq]
           /\ RefRow(m)["key_binds"] = [key_code: KeyCodes,
                                        remote_id: 1..m["remotes"].seq,
                                        button_id: 1..m["remote_buttons"].seq,
                                        activity_id: 1..m["activities"].seq]
           /\ RefRow(m)["remote_buttons"] = [remote_id: 1..m["remotes"].seq]
BY DEF RefRow

LEMMA RefTableNames ==
    /\ RefTables \subseteq Tables
    /\ "button_binds" \in RefTables /\ "key_binds" \in RefTables /\ "remote_buttons" \in RefTables
BY DEF RefTables, Tables

\* What was handed out in m was handed out in whatever grew from m.
LEMMA RefsStay ==
    ASSUME NEW s, NEW m, NEW n, RefsWithin(s, m), StoreOK(m), StoreOK(n), StoreGrown(m, n)
    PROVE  RefsWithin(s, n)
<1>1. \A t \in Targets : m[t].seq \in Nat /\ n[t].seq \in Nat /\ m[t].seq <= n[t].seq
  BY GrownIds DEF Targets, Tables
<1>2. /\ 0..m["remotes"].seq \subseteq 0..n["remotes"].seq
      /\ 1..m["remotes"].seq \subseteq 1..n["remotes"].seq
      /\ 0..m["remote_buttons"].seq \subseteq 0..n["remote_buttons"].seq
      /\ 1..m["remote_buttons"].seq \subseteq 1..n["remote_buttons"].seq
      /\ 1..m["activities"].seq \subseteq 1..n["activities"].seq
  BY <1>1 DEF Targets
<1>3. ASSUME NEW t \in RefTables, NEW row \in RefRow(m)[t] PROVE row \in RefRow(n)[t]
  <2>1. CASE t = "button_binds"
    <3>1. row \in [remote_id: 0..m["remotes"].seq, button_id: 0..m["remote_buttons"].seq,
                   activity_id: 1..m["activities"].seq]
      BY <2>1, RefRows
    <3>2. row \in [remote_id: 0..n["remotes"].seq, button_id: 0..n["remote_buttons"].seq,
                   activity_id: 1..n["activities"].seq]
      BY <1>2, <3>1
    <3> QED
      BY <2>1, <3>2, RefRows
  <2>2. CASE t = "key_binds"
    <3>1. row \in [key_code: KeyCodes, remote_id: 1..m["remotes"].seq,
                   button_id: 1..m["remote_buttons"].seq, activity_id: 1..m["activities"].seq]
      BY <2>2, RefRows
    <3>2. row \in [key_code: KeyCodes, remote_id: 1..n["remotes"].seq,
                   button_id: 1..n["remote_buttons"].seq, activity_id: 1..n["activities"].seq]
      BY <1>2, <3>1
    <3> QED
      BY <2>2, <3>2, RefRows
  <2>3. CASE t = "remote_buttons"
    <3>1. row \in [remote_id: 1..m["remotes"].seq]
      BY <2>3, RefRows
    <3>2. row \in [remote_id: 1..n["remotes"].seq]
      BY <1>2, <3>1
    <3> QED
      BY <2>3, <3>2, RefRows
  <2> QED
    BY <2>1, <2>2, <2>3 DEF RefTables
<1>4. ASSUME NEW t \in RefTables PROVE TableOK(s[t], RefRow(n)[t])
  <2>1. TableOK(s[t], RefRow(m)[t])
    BY DEF RefsWithin
  <2>2. s[t].rows \in [DOMAIN s[t].rows -> RefRow(n)[t]]
    BY <1>3, <2>1 DEF TableOK
  <2> QED
    BY <2>1, <2>2 DEF TableOK
<1> QED
  BY <1>4 DEF RefsWithin

\* A handler that touches one table.
LEMMA RefsOneTable ==
    ASSUME NEW s, NEW m, NEW t \in Tables, NEW tab, StoreOK(s), RefsWithin(s, m),
           t \in RefTables => TableOK(tab, RefRow(m)[t])
    PROVE  RefsWithin(s, m) /\ RefsWithin([s EXCEPT ![t] = tab], m)
<1>1. DOMAIN s = Tables
  BY DEF StoreOK
<1> QED
  BY <1>1, RefTableNames DEF RefsWithin

\* Unbinding leaves rows within any type that allows null references.
LEMMA UnbindWithin ==
    ASSUME NEW R, NEW B, NEW A, NEW tab, 0 \in R, 0 \in B, NEW ids,
           TableOK(tab, [remote_id: R, button_id: B, activity_id: A])
    PROVE  TableOK(Unbind(tab, ids), [remote_id: R, button_id: B, activity_id: A])
<1> DEFINE Row == [remote_id: R, button_id: B, activity_id: A]
           new == Unbind(tab, ids)
<1>1. /\ new = [seq |-> new.seq, rows |-> new.rows]
      /\ new.seq = tab.seq /\ DOMAIN new.rows = DOMAIN tab.rows
      /\ new.rows = [i \in DOMAIN tab.rows |-> new.rows[i]]
  BY DEF Unbind
<1>2. ASSUME NEW i \in DOMAIN tab.rows PROVE new.rows[i] \in Row
  <2>1. tab.rows[i] \in Row
    BY DEF TableOK
  <2>2. \/ new.rows[i] = [tab.rows[i] EXCEPT !.remote_id = Null, !.button_id = Null]
        \/ new.rows[i] = tab.rows[i]
    BY DEF Unbind
  <2> QED
    BY <2>1, <2>2 DEF Null
<1> QED
  BY <1>1, <1>2 DEF TableOK

LEMMA MoveWithin ==
    ASSUME NEW R, NEW B, NEW A, NEW tab, NEW a \in A, NEW ids,
           TableOK(tab, [remote_id: R, button_id: B, activity_id: A])
    PROVE  TableOK(MoveTo(tab, ids, a), [remote_id: R, button_id: B, activity_id: A])
<1> DEFINE Row == [remote_id: R, button_id: B, activity_id: A]
           new == MoveTo(tab, ids, a)
<1>1. /\ new = [seq |-> new.seq, rows |-> new.rows]
      /\ new.seq = tab.seq /\ DOMAIN new.rows = DOMAIN tab.rows
      /\ new.rows = [i \in DOMAIN tab.rows |-> new.rows[i]]
  BY DEF MoveTo
<1>2. ASSUME NEW i \in DOMAIN tab.rows PROVE new.rows[i] \in Row
  <2>1. tab.rows[i] \in Row
    BY DEF TableOK
  <2>2. \/ new.rows[i] = [tab.rows[i] EXCEPT !.activity_id = a]
        \/ new.rows[i] = tab.rows[i]
    BY DEF MoveTo
  <2> QED
    BY <2>1, <2>2
<1> QED
  BY <1>1, <1>2 DEF TableOK

LEMMA RefsTables ==
    ASSUME NEW s, NEW m, RefsWithin(s, m)
    PROVE  /\ TableOK(s["button_binds"], RefRow(m)["button_binds"])
           /\ TableOK(s["key_binds"], RefRow(m)["key_binds"])
           /\ TableOK(s["remote_buttons"], RefRow(m)["remote_buttons"])
BY RefTableNames DEF RefsWithin

LEMMA UnbindRefs ==
    ASSUME NEW s, NEW m, RefsWithin(s, m), InstalledWithin(m), NEW ids
    PROVE  TableOK(Unbind(s["button_binds"], ids), RefRow(m)["button_binds"])
<1>1. 0 \in 0..m["remotes"].seq /\ 0 \in 0..m["remote_buttons"].seq
  BY DEF InstalledWithin, Targets
<1>2. RefRow(m)["button_binds"] = [remote_id: 0..m["remotes"].seq,
                                   button_id: 0..m["remote_buttons"].seq,
                                   activity_id: 1..m["activities"].seq]
  BY RefRows
<1>3. TableOK(s["button_binds"], [remote_id: 0..m["remotes"].seq,
                                  button_id: 0..m["remote_buttons"].seq,
                                  activity_id: 1..m["activities"].seq])
  BY <1>2, RefsTables
<1>4. TableOK(Unbind(s["button_binds"], ids), [remote_id: 0..m["remotes"].seq,
                                               button_id: 0..m["remote_buttons"].seq,
                                               activity_id: 1..m["activities"].seq])
  BY <1>1, <1>3, UnbindWithin
<1> QED
  BY <1>2, <1>4

LEMMA AddRowsRefs ==
    ASSUME NEW s, NEW m, StoreOK(s), RefsWithin(s, m), NEW r \in 1..m["remotes"].seq
    PROVE  RefsWithin(add_remote_button(s, r), m)
<1> DEFINE tab == Insert(s["remote_buttons"], [remote_id |-> r])
<1>1. [remote_id |-> r] \in RefRow(m)["remote_buttons"]
  BY RefRows
<1>2. TableOK(tab, RefRow(m)["remote_buttons"])
  BY <1>1, RefsTables, InsertTable
<1>3. RefsWithin([s EXCEPT !["remote_buttons"] = tab], m)
  BY <1>2, RefsOneTable, RefTableNames
<1> QED
  BY <1>3 DEF add_remote_button

LEMMA AddTargetsRefs ==
    ASSUME NEW s, NEW m, StoreOK(s), RefsWithin(s, m)
    PROVE  RefsWithin(add_activity_row(s), m) /\ RefsWithin(add_remote(s), m)
<1>1. {"activities", "remotes"} \subseteq Tables \ RefTables
  BY DEF Tables, RefTables
<1> QED
  BY <1>1, RefsOneTable DEF add_activity_row, add_remote

LEMMA DeleteMapRefs ==
    ASSUME NEW s, NEW m, StoreOK(s), RefsWithin(s, m), NEW i
    PROVE  /\ RefsWithin(delete_button_map(s, i), m)
           /\ RefsWithin(delete_key_map(s, i), m)
           /\ RefsWithin(delete_voice_map(s, i), m)
<1>1. ASSUME NEW t \in {"button_binds", "key_binds", "voice_binds"}
      PROVE  RefsWithin([s EXCEPT ![t] = Delete(s[t], {i})], m)
  <2>1. t \in Tables
    BY DEF Tables
  <2>2. ASSUME t \in RefTables PROVE TableOK(Delete(s[t], {i}), RefRow(m)[t])
    BY <2>2, DeleteTable DEF RefsWithin
  <2> QED
    BY <2>1, <2>2, RefsOneTable
<1>2. /\ RefsWithin([s EXCEPT !["button_binds"] = Delete(s["button_binds"], {i})], m)
      /\ RefsWithin([s EXCEPT !["key_binds"] = Delete(s["key_binds"], {i})], m)
      /\ RefsWithin([s EXCEPT !["voice_binds"] = Delete(s["voice_binds"], {i})], m)
  BY <1>1
<1> QED
  BY <1>2 DEF delete_button_map, delete_key_map, delete_voice_map

LEMMA SaveVoiceMapRefs ==
    ASSUME NEW s, NEW m, StoreOK(s), RefsWithin(s, m), NEW i, NEW row
    PROVE  RefsWithin(insert_voice_map(s, row), m) /\ RefsWithin(update_voice_map(s, i, row), m)
<1>1. "voice_binds" \in Tables \ RefTables
  BY DEF Tables, RefTables
<1>2. /\ RefsWithin([s EXCEPT !["voice_binds"] = Insert(s["voice_binds"], row)], m)
      /\ RefsWithin([s EXCEPT !["voice_binds"] = Assign(s["voice_binds"], {i}, row)], m)
  BY <1>1, RefsOneTable
<1> QED
  BY <1>2 DEF insert_voice_map, update_voice_map

LEMMA SaveButtonMapRefs ==
    ASSUME NEW s, NEW m, StoreOK(s), RefsWithin(s, m), NEW i,
           NEW row \in RefRow(m)["button_binds"]
    PROVE  /\ RefsWithin(insert_button_map(s, row), m)
           /\ RefsWithin(update_button_map(s, i, row), m)
<1> DEFINE old  == s["button_binds"]
           move == MoveTo(old, {i}, row.activity_id)
<1>1. "button_binds" \in RefTables /\ "button_binds" \in Tables
  BY RefTableNames
<1>2. TableOK(old, RefRow(m)["button_binds"])
  BY RefsTables
<1>3. TableOK(Insert(old, row), RefRow(m)["button_binds"])
  BY <1>2, InsertTable
<1>4. TableOK(Assign(old, {i}, row), RefRow(m)["button_binds"])
  BY <1>2, AssignTable
<1>5. TableOK(move, RefRow(m)["button_binds"])
  <2>1. RefRow(m)["button_binds"] = [remote_id: 0..m["remotes"].seq,
                                     button_id: 0..m["remote_buttons"].seq,
                                     activity_id: 1..m["activities"].seq]
    BY RefRows
  <2>2. /\ TableOK(old, [remote_id: 0..m["remotes"].seq,
                         button_id: 0..m["remote_buttons"].seq,
                         activity_id: 1..m["activities"].seq])
        /\ row.activity_id \in 1..m["activities"].seq
    BY <1>2, <2>1
  <2>3. TableOK(move, [remote_id: 0..m["remotes"].seq,
                       button_id: 0..m["remote_buttons"].seq,
                       activity_id: 1..m["activities"].seq])
    BY <2>2, MoveWithin
  <2> QED
    BY <2>1, <2>3
<1>6. /\ RefsWithin([s EXCEPT !["button_binds"] = Insert(old, row)], m)
      /\ RefsWithin([s EXCEPT !["button_binds"] = Assign(old, {i}, row)], m)
      /\ RefsWithin([s EXCEPT !["button_binds"] = move], m)
  BY <1>1, <1>3, <1>4, <1>5, RefsOneTable
<1> QED
  BY <1>6 DEF insert_button_map, update_button_map

LEMMA SaveKeyMapRefs ==
    ASSUME NEW s, NEW m, StoreOK(s), RefsWithin(s, m), NEW row \in RefRow(m)["key_binds"]
    PROVE  RefsWithin(save_key_map(s, row), m)
<1> DEFINE old   == s["key_binds"]
           found == KeyMapsOf(s, row.key_code, row.activity_id)
<1>1. "key_binds" \in RefTables /\ "key_binds" \in Tables
  BY RefTableNames
<1>2. TableOK(old, RefRow(m)["key_binds"])
  BY RefsTables
<1>3. TableOK(Insert(old, row), RefRow(m)["key_binds"])
  BY <1>2, InsertTable
<1>4. TableOK(Assign(old, FirstOf(found), row), RefRow(m)["key_binds"])
  BY <1>2, AssignTable
<1>5. /\ RefsWithin([s EXCEPT !["key_binds"] = Insert(old, row)], m)
      /\ RefsWithin([s EXCEPT !["key_binds"] = Assign(old, FirstOf(found), row)], m)
  BY <1>1, <1>3, <1>4, RefsOneTable
<1> QED
  BY <1>5 DEF save_key_map

LEMMA RefsByTables ==
    ASSUME NEW s, NEW m,
           TableOK(s["button_binds"], RefRow(m)["button_binds"]),
           TableOK(s["key_binds"], RefRow(m)["key_binds"]),
           TableOK(s["remote_buttons"], RefRow(m)["remote_buttons"])
    PROVE  RefsWithin(s, m)
BY DEF RefsWithin, RefTables

LEMMA DeleteActivityRefs ==
    ASSUME NEW s, NEW m, StoreOK(s), RefsWithin(s, m), NEW a
    PROVE  RefsWithin(delete_activity(s, a), m)
<1> DEFINE new  == delete_activity(s, a)
           maps == Delete(s["button_binds"], Having(s["button_binds"], "activity_id", a))
           keys == Delete(s["key_binds"], Having(s["key_binds"], "activity_id", a))
<1>1. /\ new["button_binds"] = maps /\ new["key_binds"] = keys
      /\ new["remote_buttons"] = s["remote_buttons"]
  BY DEF delete_activity, StoreOK, Tables
<1>2. TableOK(maps, RefRow(m)["button_binds"])
  BY RefsTables, DeleteTable
<1>3. TableOK(keys, RefRow(m)["key_binds"])
  BY RefsTables, DeleteTable
<1> HIDE DEF new, maps, keys
<1>4. RefsWithin(new, m)
  BY <1>1, <1>2, <1>3, RefsTables, RefsByTables
<1> QED
  BY <1>4 DEF new

LEMMA DeleteRemoteRefs ==
    ASSUME NEW s, NEW m, StoreOK(s), RefsWithin(s, m), InstalledWithin(m), NEW r
    PROVE  RefsWithin(delete_remote(s, r), m)
<1> DEFINE new     == delete_remote(s, r)
           buttons == Delete(s["remote_buttons"], Having(s["remote_buttons"], "remote_id", r))
           maps    == Unbind(s["button_binds"], Having(s["button_binds"], "remote_id", r))
           keys    == Delete(s["key_binds"], Having(s["key_binds"], "remote_id", r))
<1>1. /\ new["button_binds"] = maps /\ new["key_binds"] = keys /\ new["remote_buttons"] = buttons
  BY DEF delete_remote, StoreOK, Tables
<1>2. TableOK(maps, RefRow(m)["button_binds"])
  BY UnbindRefs
<1>3. TableOK(keys, RefRow(m)["key_binds"])
  BY RefsTables, DeleteTable
<1>4. TableOK(buttons, RefRow(m)["remote_buttons"])
  BY RefsTables, DeleteTable
<1> HIDE DEF new, maps, keys, buttons
<1>5. RefsWithin(new, m)
  BY <1>1, <1>2, <1>3, <1>4, RefsByTables
<1> QED
  BY <1>5 DEF new

LEMMA DeleteRemoteButtonRefs ==
    ASSUME NEW s, NEW m, StoreOK(s), RefsWithin(s, m), InstalledWithin(m), NEW b
    PROVE  RefsWithin(delete_remote_button(s, b), m)
<1> DEFINE new     == delete_remote_button(s, b)
           buttons == Delete(s["remote_buttons"], {b})
           maps    == Unbind(s["button_binds"], Having(s["button_binds"], "button_id", b))
           keys    == Delete(s["key_binds"], Having(s["key_binds"], "button_id", b))
<1>1. /\ new["button_binds"] = maps /\ new["key_binds"] = keys /\ new["remote_buttons"] = buttons
  BY DEF delete_remote_button, StoreOK, Tables
<1>2. TableOK(maps, RefRow(m)["button_binds"])
  BY UnbindRefs
<1>3. TableOK(keys, RefRow(m)["key_binds"])
  BY RefsTables, DeleteTable
<1>4. TableOK(buttons, RefRow(m)["remote_buttons"])
  BY RefsTables, DeleteTable
<1> HIDE DEF new, maps, keys, buttons
<1>5. RefsWithin(new, m)
  BY <1>1, <1>2, <1>3, <1>4, RefsByTables
<1> QED
  BY <1>5 DEF new

LEMMA CopyDefaultKeysRefs ==
    ASSUME NEW s, NEW m, StoreOK(s), RefsWithin(s, m), InstalledWithin(m),
           NEW a \in 1..m["activities"].seq
    PROVE  RefsWithin(copy_default_keys(s, a), m)
<1> DEFINE Row(n) == [key_code    |-> DefaultKeys[n].key_code,
                      remote_id   |-> DefaultKeys[n].remote_id,
                      button_id   |-> DefaultKeys[n].button_id,
                      activity_id |-> a]
           rows   == [n \in 1..Len(DefaultKeys) |-> Row(n)]
           tab    == InsertAll(s["key_binds"], rows)
<1>1. Len(DefaultKeys) \in Nat /\ \A n \in 1..Len(DefaultKeys) : DefaultKeys[n] \in DefaultKeyRow
  BY DefaultKeysAssumption
<1>2. ASSUME NEW n \in 1..Len(DefaultKeys) PROVE Row(n) \in RefRow(m)["key_binds"]
  <2>1. DefaultKeys[n] \in DefaultKeyRow
    BY <1>1
  <2>2. /\ DefaultKeys[n].key_code \in KeyCodes /\ DefaultKeys[n].remote_id = 1
        /\ DefaultKeys[n].button_id \in 1..InstalledButtons
    BY <2>1 DEF DefaultKeyRow, BTRemote
  <2>3. /\ DefaultKeys[n].remote_id \in 1..m["remotes"].seq
        /\ DefaultKeys[n].button_id \in 1..m["remote_buttons"].seq
    BY <2>2, InstalledAssumption DEF InstalledWithin, Targets, BTRemote
  <2>4. RefRow(m)["key_binds"] = [key_code: KeyCodes,
                                  remote_id: 1..m["remotes"].seq,
                                  button_id: 1..m["remote_buttons"].seq,
                                  activity_id: 1..m["activities"].seq]
    BY RefRows
  <2> QED
    BY <2>2, <2>3, <2>4
<1>3. rows \in Seq(RefRow(m)["key_binds"])
  BY <1>1, <1>2
<1>4. TableOK(tab, RefRow(m)["key_binds"])
  <2>1. TableOK(s["key_binds"], RefRow(m)["key_binds"])
    BY RefsTables
  <2> HIDE DEF rows
  <2> QED
    BY <1>3, <2>1, InsertAllTable
<1>5. RefsWithin([s EXCEPT !["key_binds"] = tab], m)
  BY <1>4, RefsOneTable, RefTableNames
<1> QED
  BY <1>5 DEF copy_default_keys

-----------------------------------------------------------------------------
(***************************************************************************)
(* The handlers that take no row away which others refer to.               *)
(***************************************************************************)
LEMMA KeepsOneTable ==
    ASSUME NEW s, NEW t \in Tables, NEW tab, StoreOK(s),
           t \in Targets => DOMAIN s[t].rows \subseteq DOMAIN tab.rows
    PROVE  Keeps(s, [s EXCEPT ![t] = tab])
<1> DEFINE new == [s EXCEPT ![t] = tab]
<1>1. DOMAIN s = Tables /\ Targets \subseteq Tables
  BY DEF StoreOK, Targets, Tables
<1>2. \A u \in Targets : IdsIn(s, u) \subseteq IdsIn(new, u)
  BY <1>1 DEF IdsIn
<1> HIDE DEF new
<1>3. Keeps(s, new)
  BY <1>2, KeepsTargets
<1> QED
  BY <1>3 DEF new

LEMMA InsertKeeps ==
    ASSUME NEW s, StoreOK(s), NEW t \in Tables, NEW row
    PROVE  Keeps(s, [s EXCEPT ![t] = Insert(s[t], row)])
<1>1. DOMAIN s[t].rows \subseteq DOMAIN Insert(s[t], row).rows
  BY DEF Insert, InsertAll
<1> QED
  BY <1>1, KeepsOneTable

LEMMA AddKeeps ==
    ASSUME NEW s, StoreOK(s), NEW r
    PROVE  /\ Keeps(s, add_activity_row(s))
           /\ Keeps(s, add_remote(s))
           /\ Keeps(s, add_remote_button(s, r))
<1>1. {"activities", "remotes", "remote_buttons"} \subseteq Tables
  BY DEF Tables
<1>2. Keeps(s, [s EXCEPT !["activities"] = Insert(s["activities"], ActivityRow)])
  BY <1>1, InsertKeeps
<1>3. Keeps(s, [s EXCEPT !["remotes"] = Insert(s["remotes"], [remote_type |-> "IR"])])
  BY <1>1, InsertKeeps
<1>4. Keeps(s, [s EXCEPT !["remote_buttons"] = Insert(s["remote_buttons"], [remote_id |-> r])])
  BY <1>1, InsertKeeps
<1> QED
  BY <1>2, <1>3, <1>4 DEF add_activity_row, add_remote, add_remote_button

\* A handler that writes one of the tables of binds, which nothing refers to.
LEMMA BindTableKeeps ==
    ASSUME NEW s, StoreOK(s), NEW t \in BindTables, NEW tab
    PROVE  Keeps(s, [s EXCEPT ![t] = tab])
<1>1. t \in Tables \ Targets
  BY DEF BindTables, Tables, Targets
<1> QED
  BY <1>1, KeepsOneTable

LEMMA MapsKeep ==
    ASSUME NEW s, StoreOK(s), NEW i, NEW row
    PROVE  /\ Keeps(s, delete_button_map(s, i)) /\ Keeps(s, delete_key_map(s, i))
           /\ Keeps(s, delete_voice_map(s, i))
           /\ Keeps(s, insert_button_map(s, row)) /\ Keeps(s, insert_voice_map(s, row))
           /\ Keeps(s, update_button_map(s, i, row)) /\ Keeps(s, update_voice_map(s, i, row))
           /\ Keeps(s, save_key_map(s, row))
<1>1. /\ \A tab : Keeps(s, [s EXCEPT !["button_binds"] = tab])
      /\ \A tab : Keeps(s, [s EXCEPT !["key_binds"] = tab])
      /\ \A tab : Keeps(s, [s EXCEPT !["voice_binds"] = tab])
  BY BindTableKeeps DEF BindTables
<1>2. /\ Keeps(s, delete_button_map(s, i)) /\ Keeps(s, insert_button_map(s, row))
      /\ Keeps(s, update_button_map(s, i, row))
  BY <1>1 DEF delete_button_map, insert_button_map, update_button_map
<1>3. Keeps(s, delete_key_map(s, i)) /\ Keeps(s, save_key_map(s, row))
  BY <1>1 DEF delete_key_map, save_key_map
<1>4. /\ Keeps(s, delete_voice_map(s, i)) /\ Keeps(s, insert_voice_map(s, row))
      /\ Keeps(s, update_voice_map(s, i, row))
  BY <1>1 DEF delete_voice_map, insert_voice_map, update_voice_map
<1> QED
  BY <1>2, <1>3, <1>4

-----------------------------------------------------------------------------
(***************************************************************************)
(* The invariant.                                                          *)
(***************************************************************************)
CInv ==
    /\ BInv
    /\ DiskBehind
    /\ RefsWithin(db, disk) /\ RefsWithin(disk, disk)
    /\ OwnersWithin(owners, disk)
    /\ InstalledWithin(disk)

\* What is known of every step already.
Grown == BInv' /\ DiskBehind' /\ StoreGrown(disk, disk')

LEMMA CInvStores ==
    ASSUME CInv
    PROVE  /\ IInv /\ StoreOK(db) /\ StoreOK(disk) /\ StoreGrown(disk, db)
           /\ RefsWithin(db, disk) /\ RefsWithin(disk, disk)
           /\ OwnersWithin(owners, disk) /\ InstalledWithin(disk)
BY DEF CInv, BInv, IInv, TypeOK, DiskBehind

LEMMA GrownStores ==
    ASSUME Grown
    PROVE  StoreOK(db') /\ StoreOK(disk') /\ StoreGrown(disk, disk')
BY DEF Grown, BInv, IInv, TypeOK

LEMMA TargetsGrow ==
    ASSUME NEW m, NEW n, StoreOK(m), StoreOK(n), StoreGrown(m, n)
    PROVE  \A t \in Targets : m[t].seq \in Nat /\ n[t].seq \in Nat /\ m[t].seq <= n[t].seq
BY GrownIds DEF Targets, Tables

LEMMA InstalledStay ==
    ASSUME NEW m, NEW n, StoreOK(m), StoreOK(n), StoreGrown(m, n), InstalledWithin(m)
    PROVE  InstalledWithin(n)
<1>1. \A t \in Targets : m[t].seq \in Nat /\ n[t].seq \in Nat /\ m[t].seq <= n[t].seq
  BY TargetsGrow
<1> QED
  BY <1>1, InstalledAssumption DEF InstalledWithin, Targets, BTRemote

LEMMA OwnersStay ==
    ASSUME NEW m, NEW n, StoreOK(m), StoreOK(n), StoreGrown(m, n), NEW owned, OwnersWithin(owned, m)
    PROVE  OwnersWithin(owned, n)
<1>1. \A t \in Targets : m[t].seq \in Nat /\ n[t].seq \in Nat /\ m[t].seq <= n[t].seq
  BY TargetsGrow
<1>2. /\ 1..m["remotes"].seq \subseteq 1..n["remotes"].seq
      /\ 1..m["remote_buttons"].seq \subseteq 1..n["remote_buttons"].seq
  BY <1>1 DEF Targets
<1> QED
  BY <1>2 DEF OwnersWithin

\* A committed button is shown with a remote whose id was handed out.
LEMMA OwnersShown ==
    ASSUME NEW s, RefsWithin(s, s), NEW ids \in SUBSET IdsIn(s, "remote_buttons")
    PROVE  OwnersWithin(OwnersIn(s["remote_buttons"], ids), s)
<1> SUFFICES ASSUME NEW b \in ids
             PROVE  [button_id |-> b, remote_id |-> s["remote_buttons"].rows[b].remote_id]
                       \in [button_id: 1..s["remote_buttons"].seq, remote_id: 1..s["remotes"].seq]
  BY DEF OwnersWithin, OwnersIn
<1>1. TableOK(s["remote_buttons"], [remote_id: 1..s["remotes"].seq])
  <2>1. RefRow(s)["remote_buttons"] = [remote_id: 1..s["remotes"].seq]
    BY RefRows
  <2>2. TableOK(s["remote_buttons"], RefRow(s)["remote_buttons"])
    BY RefsTables
  <2> QED
    BY <2>1, <2>2
<1>2. b \in DOMAIN s["remote_buttons"].rows
  BY DEF IdsIn
<1>3. b \in 1..s["remote_buttons"].seq
  BY <1>1, <1>2 DEF TableOK
<1>4. s["remote_buttons"].rows[b] \in [remote_id: 1..s["remotes"].seq]
  BY <1>1, <1>2 DEF TableOK
<1> QED
  BY <1>3, <1>4

\* How a handler ends.
LEMMA EndKeeps ==
    ASSUME CInv, Grown, NEW new, RefsWithin(new, disk), Keeps(db, new),
           Done(new) \/ Refused(new), owners' = owners \/ OwnersWithin(owners', disk')
    PROVE  CInv' /\ Keeps(db, db')
<1>1. db' = new /\ (disk' = new \/ disk' = disk)
  BY DEF Done, Refused, Commit
<1>2. StoreOK(disk) /\ StoreOK(disk') /\ StoreGrown(disk, disk')
  BY CInvStores, GrownStores
<1>3. RefsWithin(new, disk')
  BY <1>2, RefsStay
<1>4. RefsWithin(disk', disk')
  <2>1. CASE disk' = new
    BY <1>3, <2>1
  <2>2. CASE disk' = disk
    BY <2>2, CInvStores
  <2> QED
    BY <1>1, <2>1, <2>2
<1>5. OwnersWithin(owners', disk')
  BY <1>2, CInvStores, OwnersStay
<1>6. InstalledWithin(disk')
  BY <1>2, CInvStores, InstalledStay
<1>7. CInv'
  BY <1>1, <1>3, <1>4, <1>5, <1>6 DEF CInv, Grown
<1> QED
  BY <1>1, <1>7

LEMMA SameKeeps ==
    ASSUME CInv, UNCHANGED db, UNCHANGED disk, BInv', DiskBehind',
           owners' = owners \/ OwnersWithin(owners', disk)
    PROVE  CInv' /\ Keeps(db, db')
<1>1. Keeps(db, db')
  BY KeepsTargets
<1>2. CInv'
  BY DEF CInv
<1> QED
  BY <1>1, <1>2

\* Requests refer to what has been committed.
LEMMA RequestRefs ==
    ASSUME CInv
    PROVE  /\ \A row \in ButtonMapRows : row \in RefRow(disk)["button_binds"]
           /\ \A row \in KeyMapRows : row \in RefRow(disk)["key_binds"]
<1>1. seen["activities"] \subseteq 1..disk["activities"].seq
  BY CInvStores DEF IInv, SeenCommitted, DurableTables, Tables
<1>2. owners \subseteq [button_id: 1..disk["remote_buttons"].seq, remote_id: 1..disk["remotes"].seq]
  BY CInvStores DEF OwnersWithin
<1>3. disk["remotes"].seq \in Nat /\ disk["remote_buttons"].seq \in Nat
  BY CInvStores DEF InstalledWithin, Targets
<1>4. ASSUME NEW row \in ButtonMapRows PROVE row \in RefRow(disk)["button_binds"]
  <2>1. PICK o \in owners \cup {Unbound}, a \in seen["activities"] :
           row = [remote_id |-> o.remote_id, button_id |-> o.button_id, activity_id |-> a]
    BY DEF ButtonMapRows, Unbound
  <2>2. /\ o.remote_id \in 0..disk["remotes"].seq /\ o.button_id \in 0..disk["remote_buttons"].seq
        /\ a \in 1..disk["activities"].seq
    BY <1>1, <1>2, <1>3 DEF Unbound, Null
  <2>3. row \in [remote_id: 0..disk["remotes"].seq, button_id: 0..disk["remote_buttons"].seq,
                 activity_id: 1..disk["activities"].seq]
    BY <2>1, <2>2
  <2> QED
    BY <2>3, RefRows
<1>5. ASSUME NEW row \in KeyMapRows PROVE row \in RefRow(disk)["key_binds"]
  <2>1. PICK k \in KeyCodes, o \in owners, a \in seen["activities"] :
           row = [key_code |-> k, remote_id |-> o.remote_id, button_id |-> o.button_id,
                  activity_id |-> a]
    BY DEF KeyMapRows
  <2>2. /\ o.remote_id \in 1..disk["remotes"].seq /\ o.button_id \in 1..disk["remote_buttons"].seq
        /\ a \in 1..disk["activities"].seq
    BY <1>1, <1>2
  <2>3. row \in [key_code: KeyCodes, remote_id: 1..disk["remotes"].seq,
                 button_id: 1..disk["remote_buttons"].seq, activity_id: 1..disk["activities"].seq]
    BY <2>1, <2>2
  <2> QED
    BY <2>3, RefRows
<1> QED
  BY <1>4, <1>5

LEMMA CInvInit == Init => CInv
<1> SUFFICES ASSUME Init PROVE CInv
  OBVIOUS
<1>1. BInv
  BY BindsInit
<1>2. db = disk /\ disk = InstalledStore /\ owners = {} /\ StoreOK(disk)
  BY <1>1 DEF Init, BInv, IInv, TypeOK
<1>3. DiskBehind
  BY <1>2, StoreGrownReflexive DEF DiskBehind
<1>4. /\ disk["remotes"] = [seq |-> 1, rows |-> [i \in {BTRemote} |-> [remote_type |-> "BT"]]]
      /\ disk["remote_buttons"] = [seq |-> InstalledButtons,
                                   rows |-> [i \in 1..InstalledButtons |-> [remote_id |-> BTRemote]]]
      /\ disk["activities"] = [seq |-> 0, rows |-> [i \in {} |-> Null]]
      /\ disk["button_binds"] = [seq |-> 0, rows |-> [i \in {} |-> Null]]
      /\ disk["key_binds"] = [seq |-> 0, rows |-> [i \in {} |-> Null]]
  <2>1. disk = InstalledStore
    BY <1>2
  <2> QED
    BY <2>1 DEF InstalledStore, Tables
<1>5. InstalledWithin(disk)
  BY <1>4, InstalledAssumption DEF InstalledWithin, Targets, BTRemote
<1>6. TableOK(disk["remote_buttons"], RefRow(disk)["remote_buttons"])
  <2>1. RefRow(disk)["remote_buttons"] = [remote_id: 1..1]
    <3>1. RefRow(disk)["remote_buttons"] = [remote_id: 1..disk["remotes"].seq]
      BY RefRows
    <3>2. disk["remotes"].seq = 1
      BY <1>4
    <3> QED
      BY <3>1, <3>2
  <2>2. [remote_id |-> BTRemote] \in [remote_id: 1..1]
    BY DEF BTRemote
  <2> QED
    BY <1>4, <2>1, <2>2, InstalledAssumption DEF TableOK
<1>7. TableOK(disk["button_binds"], RefRow(disk)["button_binds"])
  BY <1>4 DEF TableOK
<1>8. TableOK(disk["key_binds"], RefRow(disk)["key_binds"])
  BY <1>4 DEF TableOK
<1>9. RefsWithin(disk, disk)
  BY <1>6, <1>7, <1>8, RefsByTables
<1>10. OwnersWithin(owners, disk)
  BY <1>2 DEF OwnersWithin
<1> QED
  BY <1>1, <1>2, <1>3, <1>5, <1>9, <1>10 DEF CInv

LEMMA AddActivityKeeps ==
    ASSUME CInv, Grown, AddActivity
    PROVE  CInv' /\ Keeps(db, db')
<1> DEFINE added == add_activity_row(db)
<1>1. StoreOK(db) /\ KeysOK(db) /\ RefsWithin(added, disk) /\ Keeps(db, added)
  BY CInvStores, AddTargetsRefs, AddKeeps DEF IInv
<1>2. CASE Refused(added) \/ (Done(added) /\ SilentReply)
  BY <1>1, <1>2, EndKeeps DEF Refused, SilentReply
<1>3. ASSUME NEW a \in LastIds(added.activities),
             db' = copy_default_keys(added, a), Commit(added), UNCHANGED owners
      PROVE  CInv' /\ Keeps(db, db')
  <2> DEFINE copied == copy_default_keys(added, a)
  <2>1. disk' = added
    BY <1>3 DEF Commit
  <2>2. StoreOK(added) /\ a \in IdsIn(added, "activities")
    BY <1>1, CopyToNewActivity DEF GoodStep
  <2>3. StoreOK(disk) /\ StoreGrown(disk, disk')
    BY CInvStores, GrownStores
  <2>4. RefsWithin(added, added) /\ InstalledWithin(added) /\ OwnersWithin(owners, added)
    BY <1>1, <2>1, <2>2, <2>3, CInvStores, RefsStay, InstalledStay, OwnersStay
  <2>5. a \in 1..added["activities"].seq
    BY <2>2, TableTypes DEF TableOK, IdsIn
  <2>6. RefsWithin(copied, added)
    BY <2>2, <2>4, <2>5, CopyDefaultKeysRefs
  <2>7. Keeps(db, copied)
    <3>1. IdsIn(copied, "remotes") = IdsIn(added, "remotes")
          /\ IdsIn(copied, "remote_buttons") = IdsIn(added, "remote_buttons")
          /\ IdsIn(copied, "activities") = IdsIn(added, "activities")
      BY DEF copy_default_keys, IdsIn
    <3>2. \A t \in Targets : IdsIn(db, t) \subseteq IdsIn(added, t)
      <4>1. added["remotes"] = db["remotes"] /\ added["remote_buttons"] = db["remote_buttons"]
            /\ added["activities"] = Insert(db["activities"], ActivityRow)
        BY <1>1 DEF add_activity_row, StoreOK, Tables
      <4>2. DOMAIN db["activities"].rows \subseteq DOMAIN Insert(db["activities"], ActivityRow).rows
        BY DEF Insert, InsertAll
      <4> HIDE DEF added
      <4> QED
        BY <4>1, <4>2 DEF Targets, IdsIn
    <3> HIDE DEF copied, added
    <3>3. \A t \in Targets : IdsIn(db, t) \subseteq IdsIn(copied, t)
      BY <3>1, <3>2 DEF Targets
    <3> QED
      BY <3>3, KeepsTargets
  <2> QED
    BY <1>3, <2>1, <2>4, <2>6, <2>7 DEF CInv, Grown
<1> QED
  BY <1>2, <1>3 DEF AddActivity

\* A restart takes away rows that were not committed, which no committed row refers to.
LEMMA RestartKeeps ==
    ASSUME CInv, Grown, Restart
    PROVE  CInv' /\ Keeps(db, db')
<1>1. db' = disk /\ disk' = disk /\ owners' = owners
  BY DEF Restart
<1>2. /\ StoreOK(disk) /\ StoreOK(db) /\ StoreGrown(disk, db)
      /\ RefsWithin(disk, disk)
  BY CInvStores
<1>3. CInv'
  BY <1>1, <1>2 DEF CInv, Grown
<1>4. Keeps(db, disk)
  <2> SUFFICES ASSUME NEW ref \in References, NEW i \in IdsIn(disk, ref.from),
                      disk[ref.from].rows[i][ref.col] \in IdsIn(db, ref.to)
               PROVE  disk[ref.from].rows[i][ref.col] \in IdsIn(disk, ref.to)
    BY DEF Keeps, Resolves
  <2> DEFINE v == disk[ref.from].rows[i][ref.col]
  <2>1. /\ ref.to \in Targets /\ ref.from \in RefTables
        /\ ref.from = "remote_buttons" => ref.col = "remote_id"
        /\ ref.to = "activities" => ref.col = "activity_id"
        /\ ref.to = "remote_buttons" => ref.col = "button_id"
        /\ ref.to = "remotes" => ref.col = "remote_id"
        /\ ref.from = "remote_buttons" => ref.to = "remotes"
    BY ReferenceCases DEF Targets, RefTables
  <2>2. disk[ref.from].rows[i] \in RefRow(disk)[ref.from]
    BY <1>2, <2>1 DEF RefsWithin, TableOK, IdsIn
  <2>3. \A t \in Targets : disk[t].seq \in Nat
    BY <1>2, TargetsGrow
  <2>4. v \in 0..disk[ref.to].seq
    <3>1. CASE ref.from = "button_binds"
      <4>1. disk[ref.from].rows[i] \in [remote_id: 0..disk["remotes"].seq,
                                        button_id: 0..disk["remote_buttons"].seq,
                                        activity_id: 1..disk["activities"].seq]
        BY <2>2, <3>1, RefRows
      <4> QED
        BY <2>1, <2>3, <4>1 DEF Targets
    <3>2. CASE ref.from = "key_binds"
      <4>1. disk[ref.from].rows[i] \in [key_code: KeyCodes, remote_id: 1..disk["remotes"].seq,
                                        button_id: 1..disk["remote_buttons"].seq,
                                        activity_id: 1..disk["activities"].seq]
        BY <2>2, <3>2, RefRows
      <4> QED
        BY <2>1, <2>3, <4>1 DEF Targets
    <3>3. CASE ref.from = "remote_buttons"
      <4>1. disk[ref.from].rows[i] \in [remote_id: 1..disk["remotes"].seq]
        BY <2>2, <3>3, RefRows
      <4> QED
        BY <2>1, <2>3, <3>3, <4>1 DEF Targets
    <3> QED
      BY <2>1, <3>1, <3>2, <3>3 DEF RefTables
  <2>5. v \in IdsIn(disk, ref.to) \/ v > disk[ref.to].seq
    <3>1. ref.to \in Tables
      BY <2>1 DEF Targets, Tables
    <3> HIDE DEF v
    <3>2. v \in IdsIn(db, ref.to)
      BY DEF v
    <3> QED
      BY <1>2, <3>1, <3>2, GrownIds
  <2> QED
    BY <2>1, <2>3, <2>4, <2>5
<1> QED
  BY <1>1, <1>3, <1>4

LEMMA CascadeNext == CInv /\ Next => CInv' /\ Keeps(db, db')
<1> SUFFICES ASSUME CInv, Next PROVE CInv' /\ Keeps(db, db')
  OBVIOUS
<1>1. Grown
  BY DiskGrows, BindsNext DEF CInv, BInv, Grown
<1>2. /\ StoreOK(db) /\ RefsWithin(db, disk) /\ InstalledWithin(disk)
      /\ \A t \in Tables : seen[t] \subseteq Ids
  BY CInvStores DEF IInv, TypeOK
<1>3. /\ seen.activities \subseteq Ids /\ seen.remotes \subseteq Ids
      /\ seen.remote_buttons \subseteq Ids
  BY <1>2 DEF Tables
<1>4. CASE NoSuchRecord
  BY <1>1, <1>4, SameKeeps DEF NoSuchRecord, Grown
<1>5. CASE AddActivity
  BY <1>1, <1>5, AddActivityKeeps
<1>6. ASSUME NEW a \in seen.activities, DeleteActivity(a) PROVE CInv' /\ Keeps(db, db')
  <2>1. RefsWithin(delete_activity(db, a), disk) /\ Keeps(db, delete_activity(db, a))
    BY <1>2, DeleteActivityRefs, DeleteActivityKeeps
  <2> QED
    BY <1>1, <1>6, <2>1, EndKeeps DEF DeleteActivity, SilentReply, Refused
<1>7. CASE AddRemote
  <2>1. RefsWithin(add_remote(db), disk) /\ Keeps(db, add_remote(db))
    BY <1>2, AddTargetsRefs, AddKeeps
  <2> QED
    BY <1>1, <1>7, <2>1, EndKeeps DEF AddRemote, Refused
<1>8. ASSUME NEW r \in seen.remotes, DeleteRemote(r) PROVE CInv' /\ Keeps(db, db')
  <2>1. BindPairs(db)
    BY PairsNameRemotes DEF CInv, BInv
  <2>2. RefsWithin(delete_remote(db, r), disk) /\ Keeps(db, delete_remote(db, r))
    BY <1>2, <1>3, <2>1, DeleteRemoteRefs, DeleteRemoteKeeps
  <2> QED
    BY <1>1, <1>4, <1>8, <2>2, EndKeeps DEF DeleteRemote, SilentReply, Refused
<1>9. ASSUME NEW r \in seen.remotes, AddRemoteButton(r) PROVE CInv' /\ Keeps(db, db')
  <2> DEFINE new  == add_remote_button(db, r)
             last == LastIds(new["remote_buttons"])
  <2>1. r \in 1..disk["remotes"].seq
    BY CInvStores DEF IInv, SeenCommitted, DurableTables, Tables
  <2>2. RefsWithin(new, disk) /\ Keeps(db, new)
    BY <1>2, <2>1, AddRowsRefs, AddKeeps
  <2>3. \/ Done(new) /\ owners' = owners \cup OwnersIn(new["remote_buttons"], last)
        \/ Refused(new)
    BY <1>9 DEF AddRemoteButton
  <2> HIDE DEF new
  <2>4. CASE Done(new) /\ owners' = owners \cup OwnersIn(new["remote_buttons"], last)
    <3>1. /\ disk' = new /\ StoreOK(disk) /\ StoreOK(new) /\ StoreGrown(disk, new)
      BY <1>1, <2>4, CInvStores, GrownStores DEF Done, Commit
    <3>2. RefsWithin(new, new)
      BY <2>2, <3>1, RefsStay
    <3>3. last \in SUBSET IdsIn(new, "remote_buttons")
      BY DEF LastIds, IdsIn
    <3>4. OwnersWithin(OwnersIn(new["remote_buttons"], last), new)
      BY <3>2, <3>3, OwnersShown
    <3>5. OwnersWithin(owners, new)
      BY <3>1, CInvStores, OwnersStay
    <3>6. OwnersWithin(owners', disk')
      BY <2>4, <3>1, <3>4, <3>5 DEF OwnersWithin
    <3> QED
      BY <1>1, <2>2, <2>4, <3>6, EndKeeps
  <2>5. CASE Refused(new)
    BY <1>1, <2>2, <2>5, EndKeeps DEF Refused
  <2> QED
    BY <2>3, <2>4, <2>5
<1>10. ASSUME NEW b \in seen.remote_buttons, DeleteRemoteButton(b) PROVE CInv' /\ Keeps(db, db')
  <2>1. RefsWithin(delete_remote_button(db, b), disk) /\ Keeps(db, delete_remote_button(db, b))
    BY <1>2, <1>3, DeleteRemoteButtonRefs, DeleteRemoteButtonKeeps
  <2> QED
    BY <1>1, <1>4, <1>10, <2>1, EndKeeps DEF DeleteRemoteButton, SilentReply, Refused
<1>11. ASSUME NEW i \in seen.button_binds, DeleteButtonMap(i) PROVE CInv' /\ Keeps(db, db')
  <2>1. RefsWithin(delete_button_map(db, i), disk) /\ Keeps(db, delete_button_map(db, i))
    BY <1>2, DeleteMapRefs, MapsKeep
  <2> QED
    BY <1>1, <1>4, <1>11, <2>1, EndKeeps DEF DeleteButtonMap, SilentReply, Refused
<1>12. ASSUME NEW row \in ButtonMapRows, InsertButtonMap(row) PROVE CInv' /\ Keeps(db, db')
  <2>1. RefsWithin(insert_button_map(db, row), disk) /\ Keeps(db, insert_button_map(db, row))
    BY <1>2, RequestRefs, SaveButtonMapRefs, MapsKeep
  <2> QED
    BY <1>1, <1>12, <2>1, EndKeeps DEF InsertButtonMap, Refused
<1>13. ASSUME NEW i \in seen.button_binds, NEW row \in ButtonMapRows, UpdateButtonMap(i, row)
       PROVE  CInv' /\ Keeps(db, db')
  <2>1. RefsWithin(update_button_map(db, i, row), disk) /\ Keeps(db, update_button_map(db, i, row))
    BY <1>2, RequestRefs, SaveButtonMapRefs, MapsKeep
  <2> QED
    BY <1>1, <1>13, <2>1, EndKeeps DEF UpdateButtonMap, SilentReply, Refused
<1>14. ASSUME NEW i \in seen.key_binds, DeleteKeyMap(i) PROVE CInv' /\ Keeps(db, db')
  <2>1. RefsWithin(delete_key_map(db, i), disk) /\ Keeps(db, delete_key_map(db, i))
    BY <1>2, DeleteMapRefs, MapsKeep
  <2> QED
    BY <1>1, <1>14, <2>1, EndKeeps DEF DeleteKeyMap, SilentReply, Refused
<1>15. ASSUME NEW row \in KeyMapRows, SaveKeyMap(row) PROVE CInv' /\ Keeps(db, db')
  <2>1. RefsWithin(save_key_map(db, row), disk) /\ Keeps(db, save_key_map(db, row))
    BY <1>2, RequestRefs, SaveKeyMapRefs, MapsKeep
  <2> QED
    BY <1>1, <1>15, <2>1, EndKeeps DEF SaveKeyMap, Refused
<1>16. ASSUME NEW i \in seen.voice_binds, DeleteVoiceMap(i) PROVE CInv' /\ Keeps(db, db')
  <2>1. RefsWithin(delete_voice_map(db, i), disk) /\ Keeps(db, delete_voice_map(db, i))
    BY <1>2, DeleteMapRefs, MapsKeep
  <2> QED
    BY <1>1, <1>16, <2>1, EndKeeps DEF DeleteVoiceMap, SilentReply, Refused
<1>17. ASSUME NEW row \in VoiceMapRows, InsertVoiceMap(row) PROVE CInv' /\ Keeps(db, db')
  <2>1. RefsWithin(insert_voice_map(db, row), disk) /\ Keeps(db, insert_voice_map(db, row))
    BY <1>2, SaveVoiceMapRefs, MapsKeep
  <2> QED
    BY <1>1, <1>17, <2>1, EndKeeps DEF InsertVoiceMap, Refused
<1>18. ASSUME NEW i \in seen.voice_binds, NEW row \in VoiceMapRows, UpdateVoiceMap(i, row)
       PROVE  CInv' /\ Keeps(db, db')
  <2>1. RefsWithin(update_voice_map(db, i, row), disk) /\ Keeps(db, update_voice_map(db, i, row))
    BY <1>2, SaveVoiceMapRefs, MapsKeep
  <2> QED
    BY <1>1, <1>18, <2>1, EndKeeps DEF UpdateVoiceMap, SilentReply, Refused
<1>19. CASE PageLoad
  <2> DEFINE ids == IdsIn(disk, "remote_buttons")
  <2>1. UNCHANGED db /\ UNCHANGED disk /\ owners' = owners \cup OwnersIn(disk["remote_buttons"], ids)
    BY <1>19 DEF PageLoad
  <2>2. OwnersWithin(OwnersIn(disk["remote_buttons"], ids), disk) /\ OwnersWithin(owners, disk)
    BY CInvStores, OwnersShown
  <2>3. OwnersWithin(owners', disk)
    BY <2>1, <2>2 DEF OwnersWithin
  <2> QED
    BY <1>1, <2>1, <2>3, SameKeeps DEF Grown
<1>20. CASE Restart
  BY <1>1, <1>20, RestartKeeps
<1> QED
  BY <1>5, <1>6, <1>7, <1>8, <1>9, <1>10, <1>11, <1>12, <1>13, <1>14, <1>15, <1>16, <1>17,
     <1>18, <1>19, <1>20 DEF Next

-----------------------------------------------------------------------------
\* Each delete takes along, or unbinds, everything that hangs on its row, and a restart
\* loses no row that others refer to, for every number of rows, every table of default
\* keys and every order of late requests and refused commits.
THEOREM DeletesTakeAlong == Spec => DeletesCascade
<1> DEFINE Step == \A ref \in References :
                      \A i \in IdsIn(db, ref.from) \cap IdsIn(db, ref.from)' :
                         (db[ref.from].rows[i] = db'[ref.from].rows[i] /\ Resolves(db, ref, i))
                             => Resolves(db', ref, i)
<1>1. CInv /\ UNCHANGED vars => CInv'
  <2> SUFFICES ASSUME CInv, UNCHANGED vars PROVE CInv'
    OBVIOUS
  <2>1. IInv'
    BY DEF CInv, BInv, IInv, TypeOK, vars, SeqAhead, SeenCommitted, GoneCommitted, GoneForGood,
           ShownIsDurable
  <2>2. BInv'
    BY <2>1, SameBinds DEF CInv, vars
  <2>3. DiskBehind'
    BY DEF CInv, DiskBehind, vars
  <2> QED
    BY <2>2, <2>3 DEF CInv, vars
<1>2. CInv /\ [Next]_vars => CInv'
  BY <1>1, CascadeNext
<1>3. CInv /\ [Next]_vars => [Step]_vars
  BY CascadeNext DEF Keeps, IdsIn
<1> QED
  BY CInvInit, <1>2, <1>3, PTL DEF Spec, DeletesCascade

-----------------------------------------------------------------------------
(***************************************************************************)
(* Part 4.                                                                 *)
(* Proofs about GetTables: whatever the server commits while a page is     *)
(* being read, the page is closed under references, and a page that is     *)
(* read in pieces shows nothing that a page read at once would not.        *)
(*                                                                         *)
(* The argument is that what is committed only grows out of what was       *)
(* committed before: ids that are new lie above the sequence.  So of a     *)
(* table that was read, the rows that are there now were read or are new.  *)
(***************************************************************************)
-----------------------------------------------------------------------------
(***************************************************************************)
(* The invariant of a page being read.                                     *)
(***************************************************************************)
\* What is there of a table that was read has been read, or is new.
ReadUpTo(t) ==
    /\ \A i \in DOMAIN read[t] : read[t][i] \in RowType[t]
    /\ DOMAIN read[t] \subseteq 1..upTo[t]
    /\ upTo[t] \in Nat /\ upTo[t] <= disk[t].seq
    /\ t \in ReadTables => \A i \in IdsIn(disk, t) : i \in DOMAIN read[t] \/ i > upTo[t]
    /\ t \notin ReadTables => DOMAIN read[t] = {}

LoadOK ==
    /\ step \in 0..6
    /\ DOMAIN read = Tables /\ DOMAIN upTo = Tables
    /\ \A t \in Tables : ReadUpTo(t)

LInv == IInv /\ DiskBehind /\ LoadOK /\ LoadedResolves

LEMMA OrderTables ==
    /\ Len(Order) = 6
    /\ \A n \in 1..6 : Order[n] \in Tables
    /\ \A m, n \in 1..6 : Order[m] = Order[n] => m = n
BY DEF Order, Tables

\* Binds are read after all that they refer to, buttons after their remotes.
LEMMA OrderResolves ==
    ASSUME NEW ref \in LoadReferences, NEW m \in 1..6, NEW n \in 1..6,
           Order[m] = ref.from, Order[n] = ref.to
    PROVE  n < m
<1>1. /\ ref.from = "remote_buttons" \/ ref.from \in BindTables
      /\ ref.from = "remote_buttons" => ref.to = "remotes"
      /\ ref.to \in {"activities", "remote_buttons", "remotes"}
  BY DEF LoadReferences, BindTables
<1>2. CASE ref.from = "remote_buttons"
  <2>1. m = 2 /\ n = 1
    BY <1>1, <1>2 DEF Order
  <2> QED
    BY <2>1
<1>3. CASE ref.from \in BindTables
  <2>1. m \in {4, 5, 6} /\ n \in {1, 2, 3}
    BY <1>1, <1>3 DEF Order, BindTables
  <2> QED
    BY <2>1
<1> QED
  BY <1>1, <1>2, <1>3

LEMMA ReferencesInTables ==
    ASSUME NEW ref \in LoadReferences
    PROVE  ref.from \in Tables /\ ref.to \in Tables
BY DEF LoadReferences, BindTables, Tables

LEMMA InitLInv == LoadInit => LInv
<1> SUFFICES ASSUME LoadInit PROVE LInv
  OBVIOUS
<1>1. IInv
  BY InitIInv DEF LoadInit
<1>2. DiskBehind
  <2>1. disk = db /\ StoreOK(db)
    BY <1>1 DEF LoadInit, Init, IInv, TypeOK
  <2> QED
    BY <2>1, StoreGrownReflexive DEF DiskBehind
<1>3. /\ step = 0 /\ ReadTables = {}
      /\ DOMAIN read = Tables /\ DOMAIN upTo = Tables
      /\ \A t \in Tables : DOMAIN read[t] = {} /\ read[t] = <<>> /\ upTo[t] = 0
  BY DEF LoadInit, Nothing, ReadTables
<1>4. \A t \in Tables : disk[t].seq \in Nat
  BY <1>1 DEF IInv, TypeOK, StoreOK, TableOK
<1>5. LoadOK
  <2>1. ASSUME NEW t \in Tables PROVE ReadUpTo(t)
    BY <1>3, <1>4 DEF ReadUpTo
  <2> QED
    BY <1>3, <2>1 DEF LoadOK
<1>6. LoadedResolves
  BY <1>3 DEF LoadedResolves
<1> QED
  BY <1>1, <1>2, <1>5, <1>6 DEF LInv

\* The server handles a request, or another page is loaded.
LEMMA HandlerStep == LInv /\ Next /\ UNCHANGED <<step, read, upTo, astray>> => LInv'
<1> SUFFICES ASSUME LInv, Next, UNCHANGED <<step, read, upTo, astray>> PROVE LInv'
  OBVIOUS
<1>1. IInv' /\ DiskBehind' /\ StoreGrown(disk, disk')
  BY DiskGrows DEF LInv
<1>2. StoreOK(disk) /\ StoreOK(disk')
  BY <1>1 DEF LInv, IInv, TypeOK
<1>3. ReadTables' = ReadTables
  BY DEF ReadTables
<1>4. ASSUME NEW t \in Tables PROVE ReadUpTo(t)'
  <2>1. ReadUpTo(t)
    BY DEF LInv, LoadOK
  <2>2. /\ disk[t].seq \in Nat /\ disk'[t].seq \in Nat /\ disk[t].seq <= disk'[t].seq
        /\ \A i \in IdsIn(disk', t) : i \in Nat /\ (i \in IdsIn(disk, t) \/ i > disk[t].seq)
    BY <1>1, <1>2, GrownIds
  <2>3. upTo[t] <= disk'[t].seq
    BY <2>1, <2>2 DEF ReadUpTo
  <2>4. t \in ReadTables => \A i \in IdsIn(disk', t) : i \in DOMAIN read[t] \/ i > upTo[t]
    BY <2>1, <2>2 DEF ReadUpTo
  <2> QED
    BY <1>3, <2>1, <2>3, <2>4 DEF ReadUpTo
<1>5. LoadOK'
  BY <1>4 DEF LInv, LoadOK
<1>6. LoadedResolves'
  BY <1>3 DEF LInv, LoadedResolves
<1> QED
  BY <1>1, <1>5, <1>6 DEF LInv

LEMMA SelectStep == LInv /\ Select => LInv'
<1> SUFFICES ASSUME LInv, Select PROVE LInv'
  OBVIOUS
<1> DEFINE t == Order[step + 1]
<1>1. /\ step \in 0..5 /\ step' = step + 1 /\ step + 1 \in 1..6
      /\ UNCHANGED vars
      /\ read' = [read EXCEPT ![t] = disk[t].rows]
      /\ upTo' = [upTo EXCEPT ![t] = disk[t].seq]
      /\ astray' = astray \cup LeadNowhere(t)
  BY OrderTables DEF Select, LInv, LoadOK
<1>2. t \in Tables
  BY <1>1, OrderTables
<1>3. UNCHANGED db /\ UNCHANGED disk /\ UNCHANGED txn /\ UNCHANGED seen /\ UNCHANGED owners
      /\ UNCHANGED gone
  BY <1>1 DEF vars
<1>4. IInv' /\ DiskBehind'
  BY <1>3 DEF LInv, DiskBehind, IInv, TypeOK, SeqAhead, SeenCommitted, GoneCommitted, GoneForGood,
              ShownIsDurable
<1>5. ReadTables' = ReadTables \cup {t} /\ t \notin ReadTables
  <2>1. \A u \in Tables : u \in ReadTables' <=> u \in ReadTables \/ u = t
    BY <1>1 DEF ReadTables
  <2>2. ReadTables \subseteq Tables /\ ReadTables' \subseteq Tables
    BY <1>1, OrderTables DEF ReadTables
  <2>3. t \notin ReadTables
    BY <1>1, OrderTables DEF ReadTables
  <2> QED
    BY <1>2, <2>1, <2>2, <2>3
<1>6. /\ DOMAIN read = Tables /\ DOMAIN upTo = Tables
      /\ \A u \in Tables : ReadUpTo(u)
      /\ TableOK(disk[t], RowType[t])
  BY <1>2 DEF LInv, LoadOK, IInv, TypeOK, StoreOK
<1>7. /\ read'[t] = disk[t].rows /\ upTo'[t] = disk[t].seq
      /\ \A u \in Tables \ {t} : read'[u] = read[u] /\ upTo'[u] = upTo[u]
      /\ DOMAIN read' = Tables /\ DOMAIN upTo' = Tables
  BY <1>1, <1>2, <1>6
<1> HIDE DEF t
<1>8. ASSUME NEW u \in Tables PROVE ReadUpTo(u)'
  <2>1. CASE u = t
    BY <1>3, <1>5, <1>6, <1>7, <2>1 DEF ReadUpTo, TableOK, IdsIn
  <2>2. CASE u # t
    BY <1>3, <1>5, <1>6, <1>7, <2>2 DEF ReadUpTo
  <2> QED
    BY <2>1, <2>2
<1>9. LoadOK'
  BY <1>1, <1>7, <1>8 DEF LoadOK
<1>10. LoadedResolves'
  <2> SUFFICES ASSUME NEW ref \in LoadReferences, NEW i \in DOMAIN read'[ref.from],
                      ref.to \in ReadTables'
               PROVE  LET target == read'[ref.from][i][ref.col]
                      IN  \/ target \in DOMAIN read'[ref.to]
                          \/ target > upTo'[ref.to]
                          \/ <<ref, i>> \in astray'
    BY DEF LoadedResolves
  <2>1. ref.from \in Tables /\ ref.to \in Tables
    BY ReferencesInTables
  <2>2. ref.from \in ReadTables'
    BY <1>8, <2>1 DEF ReadUpTo
  <2>3. ref.to # t
    <3>1. PICK m \in 1..step' : Order[m] = ref.from
      BY <2>2 DEF ReadTables
    <3>2. m \in 1..6 /\ m <= step + 1
      BY <1>1, <3>1
    <3> QED
      BY <1>1, <3>1, <3>2, OrderResolves DEF t
  <2>4. ref.to \in ReadTables /\ read'[ref.to] = read[ref.to] /\ upTo'[ref.to] = upTo[ref.to]
    BY <1>5, <1>7, <2>1, <2>3
  <2>5. CASE ref.from # t
    <3>1. read'[ref.from] = read[ref.from]
      BY <1>7, <2>1, <2>5
    <3> QED
      BY <1>1, <2>4, <3>1 DEF LInv, LoadedResolves
  <2>6. CASE ref.from = t
    <3>1. read'[ref.from] = disk[ref.from].rows /\ i \in IdsIn(disk, t)
      BY <1>7, <2>6 DEF IdsIn
    <3>2. CASE Resolves(disk, ref, i)
      <4>1. disk[ref.from].rows[i][ref.col] \in IdsIn(disk, ref.to)
        BY <3>2 DEF Resolves
      <4> QED
        BY <1>6, <2>1, <2>4, <3>1, <4>1 DEF ReadUpTo
    <3>3. CASE ~ Resolves(disk, ref, i)
      <4>1. <<ref, i>> \in LeadNowhere(t)
        BY <2>6, <3>1, <3>3 DEF LeadNowhere
      <4> QED
        BY <1>1, <4>1 DEF t
    <3> QED
      BY <3>2, <3>3
  <2> QED
    BY <2>5, <2>6
<1> QED
  BY <1>4, <1>9, <1>10 DEF LInv

\* The page shows no row that is not committed: what was read was committed, and has
\* not come back since it was deleted.
LEMMA SendPageStep == LInv /\ SendPage => LInv'
<1> SUFFICES ASSUME LInv, SendPage PROVE LInv'
  OBVIOUS
<1>1. /\ seen' = [t \in Tables |-> seen[t] \cup DOMAIN read[t]]
      /\ step' = 0 /\ read' = Nothing /\ upTo' = [t \in Tables |-> 0]
      /\ UNCHANGED db /\ UNCHANGED disk /\ UNCHANGED txn /\ UNCHANGED gone
  BY DEF SendPage
<1>2. ASSUME NEW t \in Tables
      PROVE  /\ \A i \in DOMAIN read[t] : read[t][i] \in RowType[t]
             /\ DOMAIN read[t] \subseteq 1..disk[t].seq
             /\ disk[t].seq \in Nat
             /\ \A i \in IdsIn(db, t) : i \in IdsIn(disk, t) \/ i > disk[t].seq
  <2>1. ReadUpTo(t) /\ StoreOK(disk)
    BY DEF LInv, LoadOK, IInv, TypeOK
  <2>2. disk[t].seq \in Nat
    BY <2>1 DEF StoreOK, TableOK
  <2>3. \A i \in IdsIn(db, t) : i \in IdsIn(disk, t) \/ i > disk[t].seq
    BY DEF LInv, DiskBehind, StoreGrown, GrownFrom, IdsIn
  <2> QED
    BY <2>1, <2>2, <2>3 DEF ReadUpTo
<1>3. seen' \in [Tables -> SUBSET Ids]
  <2>1. \A t \in Tables : seen[t] \subseteq Ids
    BY DEF LInv, IInv, TypeOK
  <2>2. \A t \in Tables : DOMAIN read[t] \subseteq Ids
    BY <1>2 DEF Ids, Null
  <2> QED
    BY <1>1, <2>1, <2>2
<1>4. owners' \subseteq [button_id: Ids, remote_id: Ids]
  <2> DEFINE rows == read["remote_buttons"]
  <2>1. ASSUME NEW b \in DOMAIN rows
        PROVE  [button_id |-> b, remote_id |-> rows[b].remote_id] \in [button_id: Ids, remote_id: Ids]
    <3>1. /\ \A i \in DOMAIN rows : rows[i] \in RowType["remote_buttons"]
          /\ DOMAIN rows \subseteq 1..disk["remote_buttons"].seq
          /\ disk["remote_buttons"].seq \in Nat
      BY <1>2 DEF Tables
    <3>2. rows[b] \in [remote_id: Ids]
      BY <2>1, <3>1 DEF RowType
    <3>3. b \in Ids
      BY <2>1, <3>1 DEF Ids, Null
    <3> QED
      BY <3>2, <3>3
  <2>2. owners' = owners \cup {[button_id |-> b, remote_id |-> rows[b].remote_id] : b \in DOMAIN rows}
    BY DEF SendPage
  <2>3. owners \subseteq [button_id: Ids, remote_id: Ids]
    BY DEF LInv, IInv, TypeOK
  <2> QED
    BY <2>1, <2>2, <2>3
<1>5. TypeOK'
  BY <1>1, <1>3, <1>4 DEF LInv, IInv, TypeOK
<1>6. SeenCommitted'
  BY <1>1, <1>2 DEF LInv, IInv, SeenCommitted, DurableTables
<1>7. ShownIsDurable'
  <2> SUFFICES ASSUME NEW t \in DurableTables, NEW i \in seen'[t], i \in IdsIn(db, t)
               PROVE  i \in IdsIn(disk, t)
    BY <1>1 DEF ShownIsDurable
  <2>1. t \in Tables
    BY DEF DurableTables
  <2>2. CASE i \in seen[t]
    BY <2>2 DEF LInv, IInv, ShownIsDurable
  <2>3. CASE i \in DOMAIN read[t]
    BY <1>2, <2>1, <2>3
  <2> QED
    BY <1>1, <2>1, <2>2, <2>3
<1>8. /\ KeysOK(db') /\ KeysOK(disk') /\ SeqAhead' /\ GoneCommitted' /\ GoneForGood'
      /\ DiskBehind'
  BY <1>1 DEF LInv, IInv, SeqAhead, GoneCommitted, GoneForGood, DiskBehind
<1>9. /\ ReadTables' = {}
      /\ DOMAIN read' = Tables /\ DOMAIN upTo' = Tables
      /\ \A t \in Tables : DOMAIN read'[t] = {} /\ read'[t] = <<>> /\ upTo'[t] = 0
  BY <1>1 DEF Nothing, ReadTables
<1>10. LoadOK'
  <2>1. ASSUME NEW t \in Tables PROVE ReadUpTo(t)'
    BY <1>1, <1>2, <1>9 DEF ReadUpTo
  <2> QED
    BY <1>1, <1>9, <2>1 DEF LoadOK
<1>11. LoadedResolves'
  BY <1>9 DEF LoadedResolves
<1> QED
  BY <1>5, <1>6, <1>7, <1>8, <1>10, <1>11 DEF LInv, IInv

LEMMA LoadInductive == LoadSpec => []LInv
<1>1. LInv /\ UNCHANGED loadVars => LInv'
  <2> SUFFICES ASSUME LInv, UNCHANGED loadVars PROVE LInv'
    OBVIOUS
  <2>1. IInv' /\ DiskBehind'
    BY DEF LInv, loadVars, vars, DiskBehind, IInv, TypeOK, SeqAhead, SeenCommitted, GoneCommitted,
           GoneForGood, ShownIsDurable
  <2>2. LoadOK' /\ LoadedResolves'
    BY DEF LInv, loadVars, vars, LoadOK, ReadUpTo, ReadTables, LoadedResolves
  <2> QED
    BY <2>1, <2>2 DEF LInv
<1>2. LInv /\ [LoadNext]_loadVars => LInv'
  BY <1>1, HandlerStep, SelectStep, SendPageStep DEF LoadNext
<1> QED
  BY InitLInv, <1>2, PTL DEF LoadSpec
-----------------------------------------------------------------------------
(***************************************************************************)
(* The theorems.                                                           *)
(***************************************************************************)

\* Rows that are deleted while a page is being read leave no bind on it without the
\* button, the remote and the activity it names.
THEOREM PagesResolve == LoadSpec => []LoadedResolves
<1>1. LInv => LoadedResolves
  BY DEF LInv
<1> QED
  BY <1>1, LoadInductive, PTL

\* A page that was read in pieces shows committed rows only, although some of them may
\* have been deleted by the time it is sent.
THEOREM PagesAreDurable == LoadSpec => []ShownIsDurable
<1>1. LInv => ShownIsDurable
  BY DEF LInv, IInv
<1> QED
  BY <1>1, LoadInductive, PTL

\* Nor does a page that was read in pieces show an id that is given out again.
THEOREM PagesAreNotRecycled == LoadSpec => IdsNotRecycled
<1> DEFINE Step == \A t \in DurableTables :
                      (IdsIn(db, t)' \ IdsIn(db, t)) \cap seen[t] \subseteq IdsIn(disk, t)
<1>1. LInv /\ [LoadNext]_loadVars => [Step]_vars
  <2> SUFFICES ASSUME LInv, LoadNext PROVE Step \/ UNCHANGED db
    BY DEF loadVars, vars
  <2>1. CASE Next
    BY <2>1, NotRecycledStep DEF LInv
  <2>2. CASE Select \/ SendPage
    BY <2>2 DEF Select, SendPage, vars
  <2> QED
    BY <2>1, <2>2 DEF LoadNext
<1> QED
  BY <1>1, LoadInductive, PTL DEF LoadSpec, IdsNotRecycled
=============================================================================
