-------------------------- MODULE VoiceMaps_proofs --------------------------
(***************************************************************************)
(* Proof that a page that missed nothing lists, of the voice maps it was   *)
(* loaded with, those that still have their row (VoiceMaps!                *)
(* LoadedMapsAgree), for every number of pages, names, buttons and edits.  *)
(*                                                                         *)
(* A page's dict is compared with the table while frames are under way: an *)
(* entry whose row is gone has its deletion on the way to the page, and a  *)
(* deletion that is on its way names a row that is gone for good, since    *)
(* ids are never given out again.                                          *)
(***************************************************************************)
EXTENDS VoiceMaps, Hub_proofs

\* The dict is all that matters of a page; its other fields are there.
PageShape(pg) ==
    /\ pg = [loaded |-> pg.loaded, voice_maps |-> pg.voice_maps,
             list |-> pg.list, temp_id |-> pg.temp_id]
    /\ \A id \in DOMAIN pg.voice_maps : id = <<id[1], id[2]>>

PagesOK ==
    /\ page = [p \in Conns |-> page[p]]
    /\ \A p \in Conns : PageShape(page[p])

TableOK == voice_binds.seq \in Nat /\ DOMAIN voice_binds.rows \subseteq 1..voice_binds.seq

UptoOK ==
    /\ upto = [p \in Conns |-> upto[p]]
    /\ \A p \in Conns : upto[p] \in Nat /\ upto[p] <= voice_binds.seq

\* Frames on the way; a deletion names a row that was there once and is not any more.
IsFrame(f) == f.type \in {"inserted", "updated", "no_map"} \/ \E i : f = MapGone(i)

FramesOK ==
    \A p \in Conns : \A f : IsIn(f, inbox[p]) =>
        /\ IsFrame(f)
        /\ \A i : f = MapGone(i) => i \in 1..voice_binds.seq \ DOMAIN voice_binds.rows

\* An entry has its row, or its deletion is on the way.
Known(p, i) == i \in DOMAIN voice_binds.rows \/ IsIn(MapGone(i), inbox[p])

Agrees(p) ==
    /\ \A i : Row(i) \in DOMAIN page[p].voice_maps => i \in 1..upto[p] /\ Known(p, i)
    /\ \A i \in DOMAIN voice_binds.rows : i <= upto[p] =>
           Row(i) \in DOMAIN page[p].voice_maps

PagesAgree == \A p \in Conns \ missed : Agrees(p)

VInv == HubOK /\ PagesOK /\ TableOK /\ UptoOK /\ FramesOK /\ PagesAgree

-----------------------------------------------------------------------------
(***************************************************************************)
(* A page after an assignment to some of its fields.                       *)
(***************************************************************************)
LEMMA WithList ==
    ASSUME NEW pg, PageShape(pg), NEW list
    PROVE  /\ [pg EXCEPT !.list = list] =
                 [loaded |-> pg.loaded, voice_maps |-> pg.voice_maps,
                  list |-> list, temp_id |-> pg.temp_id]
           /\ PageShape([pg EXCEPT !.list = list])
           /\ [pg EXCEPT !.list = list].voice_maps = pg.voice_maps
<1>1. PICK a, b, c, d : pg = [loaded |-> a, voice_maps |-> b, list |-> c, temp_id |-> d]
  BY DEF PageShape
<1>2. [[loaded |-> a, voice_maps |-> b, list |-> c, temp_id |-> d] EXCEPT !.list = list] =
      [loaded |-> a, voice_maps |-> b, list |-> list, temp_id |-> d]
  OBVIOUS
<1>3. pg.loaded = a /\ pg.voice_maps = b /\ pg.temp_id = d
  BY <1>1
<1>4. [pg EXCEPT !.list = list] =
      [loaded |-> pg.loaded, voice_maps |-> pg.voice_maps, list |-> list, temp_id |-> pg.temp_id]
  BY <1>1, <1>2, <1>3, Zenon
<1> QED
  BY <1>4 DEF PageShape

LEMMA WithDict ==
    ASSUME NEW pg, PageShape(pg), NEW dict
    PROVE  [pg EXCEPT !.voice_maps = dict] =
           [loaded |-> pg.loaded, voice_maps |-> dict, list |-> pg.list, temp_id |-> pg.temp_id]
<1>1. PICK a, b, c, d : pg = [loaded |-> a, voice_maps |-> b, list |-> c, temp_id |-> d]
  BY DEF PageShape
<1>2. [[loaded |-> a, voice_maps |-> b, list |-> c, temp_id |-> d] EXCEPT !.voice_maps = dict] =
      [loaded |-> a, voice_maps |-> dict, list |-> c, temp_id |-> d]
  OBVIOUS
<1>3. pg.loaded = a /\ pg.list = c /\ pg.temp_id = d
  BY <1>1
<1> QED
  BY <1>1, <1>2, <1>3, Zenon

LEMMA WithBoth ==
    ASSUME NEW pg, PageShape(pg), NEW list, NEW dict,
           \A id \in DOMAIN dict : id = <<id[1], id[2]>>
    PROVE  LET new == [loaded |-> pg.loaded, voice_maps |-> dict,
                       list |-> list, temp_id |-> pg.temp_id]
           IN  /\ [pg EXCEPT !.list = list, !.voice_maps = dict] = new
               /\ [pg EXCEPT !.voice_maps = dict, !.list = list] = new
               /\ PageShape(new)
<1> DEFINE new == [loaded |-> pg.loaded, voice_maps |-> dict, list |-> list, temp_id |-> pg.temp_id]
           listed == [loaded |-> pg.loaded, voice_maps |-> pg.voice_maps,
                      list |-> list, temp_id |-> pg.temp_id]
           mapped == [loaded |-> pg.loaded, voice_maps |-> dict,
                      list |-> pg.list, temp_id |-> pg.temp_id]
<1>1. /\ [pg EXCEPT !.list = list] = listed /\ [listed EXCEPT !.voice_maps = dict] = new
      /\ [pg EXCEPT !.voice_maps = dict] = mapped /\ [mapped EXCEPT !.list = list] = new
  <2>1. [listed EXCEPT !.voice_maps = dict] = new /\ [mapped EXCEPT !.list = list] = new
    OBVIOUS
  <2> QED
    BY <2>1, WithList, WithDict
<1>2. PageShape(new)
  BY DEF PageShape
<1> HIDE DEF new, listed, mapped
<1>3. [pg EXCEPT !.list = list, !.voice_maps = dict] = new
  BY <1>1, Zenon
<1>4. [pg EXCEPT !.voice_maps = dict, !.list = list] = new
  BY <1>1, Zenon
<1> QED
  BY <1>2, <1>3, <1>4 DEF new

LEMMA LoadedPage ==
    ASSUME NEW dict
    PROVE  [NoPage EXCEPT !.loaded = TRUE, !.voice_maps = dict] =
           [loaded |-> TRUE, voice_maps |-> dict, list |-> <<>>, temp_id |-> 0]
<1>1. PICK e : e = <<>>
  OBVIOUS
<1>2. PICK no, yes : no = FALSE /\ yes = TRUE
  OBVIOUS
<1>3. [[loaded |-> no, voice_maps |-> e, list |-> e, temp_id |-> 0] EXCEPT !.loaded = yes] =
      [loaded |-> yes, voice_maps |-> e, list |-> e, temp_id |-> 0]
  OBVIOUS
<1>4. [[loaded |-> yes, voice_maps |-> e, list |-> e, temp_id |-> 0] EXCEPT !.voice_maps = dict] =
      [loaded |-> yes, voice_maps |-> dict, list |-> e, temp_id |-> 0]
  OBVIOUS
<1> QED
  BY <1>1, <1>2, <1>3, <1>4, Zenon DEF NoPage

-----------------------------------------------------------------------------
(***************************************************************************)
(* What the callbacks make of a page.                                      *)
(***************************************************************************)
\* No callback enters anything in the dict; a deletion takes its entry out, and it
\* alone.
LEMMA FramePage ==
    ASSUME NEW pg, PageShape(pg), NEW frame, IsFrame(frame)
    PROVE  /\ PageShape(ws_onmessage(pg, frame))
           /\ \A i : Row(i) \in DOMAIN ws_onmessage(pg, frame).voice_maps <=>
                     Row(i) \in DOMAIN pg.voice_maps /\ frame # MapGone(i)
<1> DEFINE new == ws_onmessage(pg, frame)
<1>1. CASE frame.type \in {"inserted", "updated"}
  <2>1. new = save_voice_map_callback(pg, frame)
    BY <1>1 DEF ws_onmessage
  <2>2. PageShape(new) /\ new.voice_maps = pg.voice_maps
    <3>1. CASE frame = Updated
      BY <2>1, <3>1 DEF save_voice_map_callback
    <3>2. CASE frame # Updated
      <4>1. PICK list : new = [pg EXCEPT !.list = list]
        BY <2>1, <3>2 DEF save_voice_map_callback
      <4> HIDE DEF new
      <4>2. /\ PageShape([pg EXCEPT !.list = list])
            /\ [pg EXCEPT !.list = list].voice_maps = pg.voice_maps
        BY WithList
      <4> QED
        BY <4>1, <4>2, Zenon
    <3> QED
      BY <3>1, <3>2
  <2>3. \A i : frame # MapGone(i)
    BY <1>1 DEF MapGone
  <2> QED
    BY <2>2, <2>3
<1>2. CASE frame.type = "no_map"
  <2>1. PICK list : new = [pg EXCEPT !.list = list]
    BY <1>2 DEF ws_onmessage, delete_voice_map_callback
  <2>2. \A i : frame # MapGone(i)
    BY <1>2 DEF MapGone
  <2> HIDE DEF new
  <2>3. PageShape(new) /\ new.voice_maps = pg.voice_maps
    <3>1. /\ PageShape([pg EXCEPT !.list = list])
          /\ [pg EXCEPT !.list = list].voice_maps = pg.voice_maps
      BY WithList
    <3> QED
      BY <2>1, <3>1, Zenon
  <2> QED
    BY <2>2, <2>3 DEF new
<1>3. CASE frame.type \notin {"inserted", "updated", "no_map"}
  <2>1. new = [pg EXCEPT !.voice_maps = Restrict(@, DOMAIN @ \ {frame.id}),
                         !.list = hide(@, frame.id)]
    BY <1>3 DEF ws_onmessage, delete_voice_map_callback
  <2> DEFINE dict == Restrict(pg.voice_maps, DOMAIN pg.voice_maps \ {frame.id})
  <2>2. DOMAIN dict = DOMAIN pg.voice_maps \ {frame.id}
    BY DEF Restrict
  <2> HIDE DEF dict
  <2>3. PageShape(new) /\ new.voice_maps = dict
    <3>1. new = [pg EXCEPT !.voice_maps = dict, !.list = hide(pg.list, frame.id)]
      BY <2>1 DEF dict
    <3>2. \A id \in DOMAIN dict : id = <<id[1], id[2]>>
      BY <2>2 DEF PageShape
    <3>3. LET r == [loaded |-> pg.loaded, voice_maps |-> dict,
                    list |-> hide(pg.list, frame.id), temp_id |-> pg.temp_id]
          IN  new = r /\ PageShape(r)
      <4> HIDE DEF new
      <4> QED
        BY <3>1, <3>2, WithBoth, Zenon
    <3> HIDE DEF new
    <3> QED
      BY <3>3
  <2>4. \A i : frame = MapGone(i) <=> frame.id = Row(i)
    <3>1. PICK k : frame = MapGone(k)
      BY <1>3 DEF IsFrame
    <3>2. frame.id = Row(k)
      BY <3>1 DEF MapGone
    <3>3. \A i : Row(i) = Row(k) => i = k
      BY DEF Row
    <3>4. \A i : MapGone(i) = MapGone(k) => i = k
      <4>1. \A i : MapGone(i).id = Row(i)
        BY DEF MapGone
      <4> QED
        BY <3>3, <4>1
    <3> QED
      BY <3>1, <3>2, <3>3, <3>4
  <2> QED
    BY <2>2, <2>3, <2>4
<1> QED
  BY <1>1, <1>2, <1>3

-----------------------------------------------------------------------------
(***************************************************************************)
(* Steps.                                                                  *)
(***************************************************************************)
\* One page changes, whose dict has no new row.
LEMMA PageStep ==
    ASSUME VInv, NEW p \in Conns, NEW new, PageShape(new),
           page' = [page EXCEPT ![p] = new]
    PROVE  /\ PagesOK'
           /\ page'[p] = new
           /\ \A q \in Conns \ {p} : page'[q] = page[q]
BY DEF VInv, PagesOK

\* A step of the page or of its connection that broadcasts nothing.
LEMMA QuietStep ==
    ASSUME VInv, HubOK', NEW p \in Conns, OthersSame(p),
           UNCHANGED voice_binds, UNCHANGED missed, UNCHANGED upto,
           PagesOK', \A q \in Conns \ {p} : page'[q] = page[q],
           \A f : IsIn(f, inbox'[p]) => IsIn(f, inbox[p]),
           p \notin missed => Agrees(p)'
    PROVE  VInv'
<1>1. TableOK' /\ UptoOK'
  BY DEF VInv, TableOK, UptoOK
<1>2. FramesOK'
  <2> SUFFICES ASSUME NEW q \in Conns, NEW f, IsIn(f, inbox'[q])
               PROVE  /\ IsFrame(f)
                      /\ \A i : f = MapGone(i) =>
                            i \in 1..voice_binds.seq \ DOMAIN voice_binds.rows
    BY DEF FramesOK
  <2>1. IsIn(f, inbox[q])
    BY DEF OthersSame
  <2> QED
    BY <2>1 DEF VInv, FramesOK
<1>3. PagesAgree'
  <2> SUFFICES ASSUME NEW q \in Conns \ missed, q # p PROVE Agrees(q)'
    BY DEF PagesAgree
  <2>1. Agrees(q) /\ page'[q] = page[q] /\ inbox'[q] = inbox[q]
    BY DEF VInv, PagesAgree, OthersSame
  <2> QED
    BY <2>1 DEF Agrees, Known
<1> QED
  BY <1>1, <1>2, <1>3 DEF VInv

LEMMA EditStep ==
    ASSUME VInv, NEW p \in Conns, NEW messages, IsSeq(messages), NEW new, PageShape(new),
           \A i : Row(i) \in DOMAIN new.voice_maps <=> Row(i) \in DOMAIN page[p].voice_maps,
           Edit(p, messages, new)
    PROVE  VInv'
<1>1. /\ Send(p, messages) /\ page' = [page EXCEPT ![p] = new]
      /\ UNCHANGED voice_binds /\ UNCHANGED missed /\ UNCHANGED upto
  BY DEF Edit
<1>2. HubOK' /\ OthersSame(p) /\ UNCHANGED inbox
  BY <1>1, SendHub DEF VInv
<1>3. PagesOK' /\ page'[p] = new /\ \A q \in Conns \ {p} : page'[q] = page[q]
  BY <1>1, PageStep
<1>4. p \notin missed => Agrees(p)'
  BY <1>1, <1>2, <1>3 DEF VInv, PagesAgree, Agrees, Known
<1> QED
  BY <1>1, <1>2, <1>3, <1>4, QuietStep

\* What is broadcast reaches every page that misses nothing: the reply names the row
\* that goes, and a row that comes has an id that was never given out.
LEMMA ReplyStep ==
    ASSUME VInv, NEW p \in Conns, NEW frame, Reply(p, frame), IsFrame(frame),
           TableOK', voice_binds.seq <= voice_binds'.seq,
           \A i \in DOMAIN voice_binds'.rows :
               i \in DOMAIN voice_binds.rows \/ voice_binds.seq < i,
           \A i \in DOMAIN voice_binds.rows :
               i \in DOMAIN voice_binds'.rows \/ frame = MapGone(i),
           \A i : frame = MapGone(i) =>
               i \in DOMAIN voice_binds.rows \ DOMAIN voice_binds'.rows
    PROVE  VInv'
<1>1. /\ OnMessage(p, frame) /\ UNCHANGED page /\ UNCHANGED upto
      /\ missed' = missed \cup {q \in Conns : link[q] # "open"}
  BY DEF Reply
<1>2. /\ HubOK'
      /\ \A q \in Conns :
            inbox'[q] = IF link[q] = "open" THEN Append(inbox[q], frame) ELSE inbox[q]
  BY <1>1, OnMessageHub DEF VInv
<1>3. \A q \in Conns : link[q] = "open" =>
         \A f : IsIn(f, inbox'[q]) <=> IsIn(f, inbox[q]) \/ f = frame
  <2> SUFFICES ASSUME NEW q \in Conns, link[q] = "open"
               PROVE  \A f : IsIn(f, inbox'[q]) <=> IsIn(f, inbox[q]) \/ f = frame
    OBVIOUS
  <2>1. IsSeq(inbox[q]) /\ inbox'[q] = Append(inbox[q], frame)
    BY <1>2 DEF VInv, HubOK, StreamsIn
  <2> QED
    BY <2>1, AppendStream
<1>4. UptoOK'
  <2> SUFFICES ASSUME NEW q \in Conns PROVE upto[q] <= voice_binds'.seq
    BY <1>1 DEF VInv, UptoOK
  <2>1. /\ upto[q] \in Nat /\ upto[q] <= voice_binds.seq
        /\ voice_binds.seq \in Nat /\ voice_binds'.seq \in Nat
    BY DEF VInv, UptoOK, TableOK
  <2> QED
    BY <2>1
<1>5. FramesOK'
  <2> SUFFICES ASSUME NEW q \in Conns, NEW f, IsIn(f, inbox'[q])
               PROVE  /\ IsFrame(f)
                      /\ \A i : f = MapGone(i) =>
                            i \in 1..voice_binds'.seq \ DOMAIN voice_binds'.rows
    BY DEF FramesOK
  <2>1. voice_binds.seq \in Nat /\ voice_binds'.seq \in Nat
    BY DEF VInv, TableOK
  <2>2. CASE f = frame
    BY <2>1, <2>2 DEF VInv, TableOK
  <2>3. CASE f # frame
    <3>1. IsIn(f, inbox[q])
      BY <1>2, <1>3, <2>3
    <3>2. /\ IsFrame(f)
          /\ \A i : f = MapGone(i) => i \in 1..voice_binds.seq \ DOMAIN voice_binds.rows
      BY <3>1 DEF VInv, FramesOK
    <3>3. ASSUME NEW i, i \in 1..voice_binds.seq \ DOMAIN voice_binds.rows
          PROVE  i \in 1..voice_binds'.seq \ DOMAIN voice_binds'.rows
      BY <2>1, <3>3
    <3> QED
      BY <3>2, <3>3
  <2> QED
    BY <2>2, <2>3
<1>6. PagesAgree'
  <2> SUFFICES ASSUME NEW q \in Conns \ missed' PROVE Agrees(q)'
    BY DEF PagesAgree
  <2>1. q \notin missed /\ link[q] = "open" /\ Agrees(q)
    BY <1>1 DEF VInv, PagesAgree
  <2>2. ASSUME NEW i, Row(i) \in DOMAIN page[q].voice_maps
        PROVE  i \in 1..upto[q] /\ Known(q, i)'
    BY <1>3, <2>1, <2>2 DEF Agrees, Known
  <2>3. ASSUME NEW i \in DOMAIN voice_binds'.rows, i <= upto[q]
        PROVE  Row(i) \in DOMAIN page[q].voice_maps
    <3>1. /\ upto[q] \in Nat /\ upto[q] <= voice_binds.seq
          /\ voice_binds.seq \in Nat /\ i \in Nat
      BY DEF VInv, UptoOK, TableOK
    <3>2. i \in DOMAIN voice_binds.rows
      BY <2>3, <3>1
    <3> QED
      BY <2>1, <2>3, <3>2 DEF Agrees
  <2> QED
    BY <1>1, <2>2, <2>3 DEF Agrees
<1>7. PagesOK'
  BY <1>1 DEF VInv, PagesOK
<1> QED
  BY <1>2, <1>4, <1>5, <1>6, <1>7 DEF VInv

LEMMA InitVInv == Init => VInv
<1> SUFFICES ASSUME Init PROVE VInv
  OBVIOUS
<1>1. HubOK
  BY InitHub DEF Init
<1>2. PagesOK
  BY DEF Init, PagesOK, PageShape, NoPage
<1>3. TableOK /\ UptoOK
  <2>1. Len(InstalledMaps) \in Nat /\ DOMAIN InstalledMaps = 1..Len(InstalledMaps)
    BY VoiceAssumption
  <2> QED
    BY <2>1 DEF Init, TableOK, UptoOK
<1>4. FramesOK
  BY EmptyStream DEF Init, HubInit, FramesOK, IsIn
<1>5. PagesAgree
  BY DEF Init, PagesAgree
<1> QED
  BY <1>1, <1>2, <1>3, <1>4, <1>5 DEF VInv

LEMMA LoadPageStep ==
    ASSUME VInv, NEW p \in Conns, LoadPage(p)
    PROVE  VInv'
<1> DEFINE ids == {Row(i) : i \in DOMAIN voice_binds.rows}
           pg == [NoPage EXCEPT !.loaded = TRUE,
                                !.voice_maps = [id \in ids |-> voice_binds.rows[id[2]]]]
<1>1. /\ \E shown \in Shown(pg) : page' = [page EXCEPT ![p] = display_voice_maps(pg, shown)]
      /\ missed' = missed \ {p} /\ upto' = [upto EXCEPT ![p] = voice_binds.seq]
      /\ UNCHANGED hubVars /\ UNCHANGED voice_binds
  BY DEF LoadPage
<1>2. PICK list : page' = [page EXCEPT ![p] = [pg EXCEPT !.list = list]]
  BY <1>1 DEF display_voice_maps
<1>3. PageShape(pg) /\ DOMAIN pg.voice_maps = ids
  <2>1. pg = [loaded |-> TRUE, voice_maps |-> [id \in ids |-> voice_binds.rows[id[2]]],
              list |-> <<>>, temp_id |-> 0]
    <3> HIDE DEF ids
    <3> QED
      BY LoadedPage, Zenon
  <2>2. \A id \in ids : id = <<id[1], id[2]>>
    BY DEF Row
  <2> QED
    BY <2>1, <2>2 DEF PageShape
<1> HIDE DEF pg, ids
<1>4. /\ PageShape([pg EXCEPT !.list = list])
      /\ DOMAIN [pg EXCEPT !.list = list].voice_maps = ids
  BY <1>3, WithList
<1>5. /\ PagesOK' /\ DOMAIN page'[p].voice_maps = ids
      /\ \A q \in Conns \ {p} : page'[q] = page[q]
  BY <1>2, <1>4, PageStep
<1>6. HubOK'
  BY <1>1, SameHub DEF VInv
<1>7. TableOK' /\ FramesOK'
  BY <1>1 DEF VInv, TableOK, FramesOK, hubVars
<1>8. UptoOK' /\ upto'[p] = voice_binds.seq /\ \A q \in Conns \ {p} : upto'[q] = upto[q]
  BY <1>1 DEF VInv, UptoOK, TableOK
<1>9. ASSUME NEW q \in Conns \ missed' PROVE Agrees(q)'
  <2>1. CASE q = p
    <3>1. \A i : Row(i) \in ids <=> i \in DOMAIN voice_binds.rows
      BY DEF ids, Row
    <3>2. DOMAIN voice_binds.rows \subseteq 1..voice_binds.seq
      BY DEF VInv, TableOK
    <3> QED
      BY <1>1, <1>5, <1>8, <2>1, <3>1, <3>2 DEF Agrees, Known
  <2>2. CASE q # p
    <3>1. /\ Agrees(q) /\ page'[q] = page[q] /\ upto'[q] = upto[q]
          /\ inbox' = inbox /\ voice_binds' = voice_binds
      BY <1>1, <1>5, <1>8, <1>9, <2>2 DEF VInv, PagesAgree, hubVars
    <3> QED
      BY <3>1 DEF Agrees, Known
  <2> QED
    BY <2>1, <2>2
<1> QED
  BY <1>5, <1>6, <1>7, <1>8, <1>9 DEF VInv, PagesAgree

LEMMA ConnectionStep ==
    ASSUME VInv, NEW p \in Conns, Connect(p) \/ NoticeClose(p)
    PROVE  VInv'
<1>1. /\ Open(p) \/ OnClose(p)
      /\ UNCHANGED voice_binds /\ UNCHANGED page /\ UNCHANGED missed /\ UNCHANGED upto
  BY DEF Connect, NoticeClose
<1>2. HubOK' /\ OthersSame(p) /\ UNCHANGED inbox
  BY <1>1, OpenHub, OnCloseHub DEF VInv
<1>3. PagesOK'
  BY <1>1 DEF VInv, PagesOK
<1>4. p \notin missed => Agrees(p)'
  BY <1>1, <1>2 DEF VInv, PagesAgree, Agrees, Known
<1> QED
  BY <1>1, <1>2, <1>3, <1>4, QuietStep

\* A page that loses frames has missed something.
LEMMA DisconnectStep ==
    ASSUME VInv, NEW p \in Conns, Disconnect(p)
    PROVE  VInv'
<1>1. /\ Lose(p)
      /\ missed' = IF inbox[p] = <<>> /\ outbox[p] = <<>> THEN missed ELSE missed \cup {p}
      /\ UNCHANGED voice_binds /\ UNCHANGED page /\ UNCHANGED upto
  BY DEF Disconnect
<1>2. HubOK' /\ OthersSame(p) /\ inbox'[p] = <<>>
  BY <1>1, LoseHub DEF VInv
<1>3. ASSUME NEW q \in Conns \ missed' PROVE Agrees(q)'
  <2>1. q \notin missed /\ inbox'[q] = inbox[q]
    BY <1>1, <1>2 DEF OthersSame
  <2> QED
    BY <1>1, <2>1 DEF VInv, PagesAgree, Agrees, Known
<1>4. FramesOK'
  <2>1. \A q \in Conns : \A f : IsIn(f, inbox'[q]) => IsIn(f, inbox[q])
    BY <1>2, EmptyStream DEF OthersSame, IsIn
  <2> QED
    BY <1>1, <2>1 DEF VInv, FramesOK
<1> QED
  BY <1>1, <1>2, <1>3, <1>4 DEF VInv, PagesOK, TableOK, UptoOK, PagesAgree

\* The deletion of an entry's row is still to come, or it was this frame, and the
\* entry has gone.
LEMMA ReceiveStep ==
    ASSUME VInv, NEW p \in Conns, Receive(p)
    PROVE  VInv'
<1> DEFINE frame == Head(inbox[p])
           new == ws_onmessage(page[p], frame)
<1>1. /\ Deliver(p) /\ UNCHANGED voice_binds /\ UNCHANGED missed /\ UNCHANGED upto
      /\ page' = [page EXCEPT ![p] = new]
  BY DEF Receive, VInv, PagesOK
<1>2. /\ HubOK' /\ OthersSame(p) /\ inbox[p] # <<>> /\ inbox'[p] = Tail(inbox[p])
  BY <1>1, DeliverHub DEF VInv
<1>3. \A f : IsIn(f, inbox[p]) <=> f = frame \/ IsIn(f, inbox'[p])
  BY <1>2, TailHolds DEF VInv, HubOK, StreamsIn
<1>4. /\ IsFrame(frame)
      /\ \A i : frame = MapGone(i) => i \notin DOMAIN voice_binds.rows
  BY <1>3 DEF VInv, FramesOK
<1>5. /\ PageShape(new)
      /\ \A i : Row(i) \in DOMAIN new.voice_maps <=>
                Row(i) \in DOMAIN page[p].voice_maps /\ frame # MapGone(i)
  BY <1>4, FramePage DEF VInv, PagesOK
<1> HIDE DEF new, frame
<1>6. PagesOK' /\ page'[p] = new /\ \A q \in Conns \ {p} : page'[q] = page[q]
  BY <1>1, <1>5, PageStep
<1>7. ASSUME p \notin missed PROVE Agrees(p)'
  <2>1. Agrees(p)
    BY <1>7 DEF VInv, PagesAgree
  <2>2. ASSUME NEW i, Row(i) \in DOMAIN new.voice_maps
        PROVE  i \in 1..upto[p] /\ Known(p, i)'
    BY <1>1, <1>3, <1>5, <2>1, <2>2 DEF Agrees, Known
  <2>3. ASSUME NEW i \in DOMAIN voice_binds.rows, i <= upto[p]
        PROVE  Row(i) \in DOMAIN new.voice_maps
    BY <1>4, <1>5, <2>1, <2>3 DEF Agrees
  <2> QED
    BY <1>1, <1>6, <2>2, <2>3 DEF Agrees
<1> QED
  BY <1>1, <1>2, <1>3, <1>6, <1>7, QuietStep

LEMMA ComeBackStep ==
    ASSUME VInv, NEW p \in Conns, ComeBack(p)
    PROVE  VInv'
<1>1. /\ UNCHANGED hubVars /\ UNCHANGED voice_binds /\ UNCHANGED missed /\ UNCHANGED upto
      /\ \E list : page' = [page EXCEPT ![p] = [page[p] EXCEPT !.list = list]]
  BY DEF ComeBack, display_voice_maps, VInv, PagesOK
<1>2. PICK list : page' = [page EXCEPT ![p] = [page[p] EXCEPT !.list = list]]
  BY <1>1
<1>3. /\ PageShape([page[p] EXCEPT !.list = list])
      /\ [page[p] EXCEPT !.list = list].voice_maps = page[p].voice_maps
  BY WithList DEF VInv, PagesOK
<1>4. /\ PagesOK' /\ page'[p].voice_maps = page[p].voice_maps
      /\ \A q \in Conns \ {p} : page'[q] = page[q]
  BY <1>2, <1>3, PageStep
<1>5. HubOK' /\ OthersSame(p) /\ UNCHANGED inbox
  BY <1>1, SameHub DEF VInv, OthersSame, hubVars
<1>6. p \notin missed => Agrees(p)'
  BY <1>1, <1>4, <1>5 DEF VInv, PagesAgree, Agrees, Known
<1> QED
  BY <1>1, <1>4, <1>5, <1>6, QuietStep

LEMMA AddStep ==
    ASSUME VInv, NEW p \in Conns, NEW name, add_voice_map(p, name)
    PROVE  VInv'
<1> DEFINE pg == page[p]
           id == Temp(pg.temp_id)
           dict == [i \in DOMAIN pg.voice_maps \cup {id} |->
                       IF i = id THEN [name |-> Unnamed, button_id |-> Null]
                                 ELSE pg.voice_maps[i]]
           list == Append(pg.list, Item(id, name, Null))
           new == [pg EXCEPT !.list = Append(@, Item(id, name, Null)),
                             !.voice_maps = dict, !.temp_id = @ + 1]
<1>1. PageShape(pg)
  BY DEF VInv, PagesOK
<1>2. Edit(p, <<>>, new)
  BY DEF add_voice_map
<1>3. DOMAIN dict = DOMAIN pg.voice_maps \cup {id}
  OBVIOUS
<1>4. \A i : Row(i) # id
  BY DEF Row, Temp
<1>5. \A i \in DOMAIN dict : i = <<i[1], i[2]>>
  BY <1>1, <1>3 DEF Temp, PageShape
<1>6. new = [[pg EXCEPT !.list = list, !.voice_maps = dict] EXCEPT !.temp_id = @ + 1]
  BY Zenon
<1> HIDE DEF new, dict, id, list
<1>7. new = [loaded |-> pg.loaded, voice_maps |-> dict, list |-> list, temp_id |-> pg.temp_id + 1]
  <2>1. [pg EXCEPT !.list = list, !.voice_maps = dict] =
        [loaded |-> pg.loaded, voice_maps |-> dict, list |-> list, temp_id |-> pg.temp_id]
    BY <1>1, <1>5, WithBoth
  <2> QED
    BY <1>6, <2>1
<1>8. PageShape(new) /\ new.voice_maps = dict
  BY <1>5, <1>7 DEF PageShape
<1> QED
  BY <1>2, <1>3, <1>4, <1>8, EmptyStream, EditStep

LEMMA BindStep ==
    ASSUME VInv, NEW p \in Conns, NEW n, NEW b, map_voice(p, n, b)
    PROVE  VInv'
<1> DEFINE pg == page[p]
           id == pg.list[n].map_id
           item == [pg.list[n] EXCEPT !.button_id = b,
                                      !.pending = @ \/ id \in DOMAIN pg.voice_maps]
           new == [pg EXCEPT !.list[n] = item, !.voice_maps[id].button_id = b]
<1>1. PageShape(pg)
  BY DEF VInv, PagesOK
<1>2. \/ Edit(p, <<SaveMap(item)>>, new)
      \/ Edit(p, <<>>, [pg EXCEPT !.list[n] = item])
  BY DEF map_voice
<1>3. CASE Edit(p, <<SaveMap(item)>>, new)
  <2> DEFINE list == [pg.list EXCEPT ![n] = item]
             dict == [pg.voice_maps EXCEPT ![id].button_id = b]
             listed == [pg EXCEPT !.list = list]
  <2>1. new = [pg EXCEPT !.list = list, !.voice_maps = dict]
    <3>1. [pg EXCEPT !.list[n] = item] = listed
      BY Zenon
    <3>2. listed.voice_maps = pg.voice_maps
      BY <1>1, WithList
    <3>3. [listed EXCEPT !.voice_maps[id].button_id = b] = [listed EXCEPT !.voice_maps = dict]
      <4> HIDE DEF listed
      <4> QED
        BY <3>2, Zenon
    <3> QED
      BY <3>1, <3>3, Zenon
  <2>2. DOMAIN dict = DOMAIN pg.voice_maps
    OBVIOUS
  <2> HIDE DEF new, item, list, dict
  <2>3. PageShape(new) /\ new.voice_maps = dict
    <3>1. \A i \in DOMAIN dict : i = <<i[1], i[2]>>
      BY <1>1, <2>2 DEF PageShape
    <3>2. LET r == [loaded |-> pg.loaded, voice_maps |-> dict,
                    list |-> list, temp_id |-> pg.temp_id]
          IN  new = r /\ PageShape(r)
      BY <1>1, <2>1, <3>1, WithBoth, Zenon
    <3> QED
      BY <3>2
  <2> QED
    BY <1>3, <2>2, <2>3, OneStream, EditStep
<1>4. CASE Edit(p, <<>>, [pg EXCEPT !.list[n] = item])
  <2> DEFINE list == [pg.list EXCEPT ![n] = item]
  <2>1. [pg EXCEPT !.list[n] = item] = [pg EXCEPT !.list = list]
    BY Zenon
  <2> HIDE DEF item, list
  <2>2. /\ PageShape([pg EXCEPT !.list[n] = item])
        /\ [pg EXCEPT !.list[n] = item].voice_maps = pg.voice_maps
    BY <1>1, <2>1, WithList
  <2> QED
    BY <1>4, <2>2, EmptyStream, EditStep
<1> QED
  BY <1>2, <1>3, <1>4

LEMMA TrashStep ==
    ASSUME VInv, NEW p \in Conns, NEW n, TrashMap(p, n)
    PROVE  VInv'
BY OneStream, EditStep DEF TrashMap, VInv, PagesOK

LEMMA HandleSaveStep ==
    ASSUME VInv, NEW p \in Conns, HandleSave(p)
    PROVE  VInv'
<1>1. \/ \E row : voice_binds' = Insert(voice_binds, row) /\ Reply(p, Inserted(voice_binds'.seq))
      \/ \E ids, row : voice_binds' = Assign(voice_binds, ids, row) /\ Reply(p, Updated)
  BY DEF HandleSave
<1>2. TableOK
  BY DEF VInv
<1>3. CASE \E row : voice_binds' = Insert(voice_binds, row) /\ Reply(p, Inserted(voice_binds'.seq))
  <2>1. PICK row : voice_binds' = Insert(voice_binds, row) /\ Reply(p, Inserted(voice_binds'.seq))
    BY <1>3
  <2>2. /\ voice_binds'.seq = voice_binds.seq + 1
        /\ DOMAIN voice_binds'.rows =
              DOMAIN voice_binds.rows \cup (voice_binds.seq + 1)..(voice_binds.seq + 1)
    BY <2>1 DEF Insert, InsertAll
  <2>3. TableOK'
    BY <1>2, <2>2 DEF TableOK
  <2>4. \A i \in DOMAIN voice_binds'.rows :
            i \in DOMAIN voice_binds.rows \/ voice_binds.seq < i
    BY <1>2, <2>2 DEF TableOK
  <2>5. IsFrame(Inserted(voice_binds'.seq)) /\ \A i : Inserted(voice_binds'.seq) # MapGone(i)
    BY DEF IsFrame, Inserted, MapGone
  <2>6. voice_binds.seq <= voice_binds'.seq
    BY <1>2, <2>2 DEF TableOK
  <2> QED
    BY <2>1, <2>2, <2>3, <2>4, <2>5, <2>6, ReplyStep
<1>4. CASE \E ids, row : voice_binds' = Assign(voice_binds, ids, row) /\ Reply(p, Updated)
  <2>1. /\ voice_binds'.seq = voice_binds.seq
        /\ DOMAIN voice_binds'.rows = DOMAIN voice_binds.rows
    BY <1>4 DEF Assign
  <2>2. TableOK' /\ voice_binds.seq <= voice_binds'.seq
    BY <1>2, <2>1 DEF TableOK
  <2>3. IsFrame(Updated) /\ \A i : Updated # MapGone(i)
    BY DEF IsFrame, Updated, MapGone
  <2> QED
    BY <1>4, <2>1, <2>2, <2>3, ReplyStep
<1> QED
  BY <1>1, <1>3, <1>4

LEMMA HandleDeleteStep ==
    ASSUME VInv, NEW p \in Conns, HandleDelete(p)
    PROVE  VInv'
<1> DEFINE id == Head(outbox[p]).id
<1>1. TableOK
  BY DEF VInv
<1>2. CASE id \in {Row(i) : i \in DOMAIN voice_binds.rows}
  <2>1. PICK k \in DOMAIN voice_binds.rows : id = Row(k)
    BY <1>2
  <2>2. voice_binds' = Delete(voice_binds, {k}) /\ Reply(p, MapGone(k))
    BY <1>2, <2>1 DEF HandleDelete, Row
  <2> HIDE DEF id
  <2>3. /\ voice_binds'.seq = voice_binds.seq
        /\ DOMAIN voice_binds'.rows = DOMAIN voice_binds.rows \ {k}
    BY <2>2 DEF Delete, Restrict
  <2>4. TableOK' /\ voice_binds.seq <= voice_binds'.seq
    BY <1>1, <2>3 DEF TableOK
  <2>5. \A i : MapGone(k) = MapGone(i) => i = k
    <3>1. \A i : MapGone(i).id = <<"row", i>>
      BY DEF MapGone, Row
    <3> QED
      BY <3>1
  <2> QED
    BY <2>2, <2>3, <2>4, <2>5, ReplyStep DEF IsFrame
<1>3. CASE id \notin {Row(i) : i \in DOMAIN voice_binds.rows}
  <2>1. Reply(p, NoMap(id)) /\ UNCHANGED voice_binds
    BY <1>3 DEF HandleDelete
  <2>2. IsFrame(NoMap(id)) /\ \A i : NoMap(id) # MapGone(i)
    BY DEF IsFrame, NoMap, MapGone
  <2>3. TableOK' /\ voice_binds.seq <= voice_binds'.seq
    BY <1>1, <2>1 DEF TableOK
  <2> HIDE DEF id
  <2> QED
    BY <2>1, <2>2, <2>3, ReplyStep
<1> QED
  BY <1>2, <1>3

LEMMA VInvStep ==
    ASSUME VInv, [Next]_vars
    PROVE  VInv'
<1>1. CASE UNCHANGED vars
  <2>1. /\ UNCHANGED hubVars /\ UNCHANGED voice_binds /\ UNCHANGED page
        /\ UNCHANGED missed /\ UNCHANGED upto
    BY <1>1 DEF vars
  <2>2. HubOK' /\ UNCHANGED inbox
    BY <2>1, SameHub DEF VInv, hubVars
  <2> QED
    BY <2>1, <2>2 DEF VInv, PagesOK, TableOK, UptoOK, FramesOK, PagesAgree, Agrees, Known
<1>2. CASE Next
  <2>1. PICK p \in Conns :
           \/ LoadPage(p)
           \/ Connect(p)
           \/ Disconnect(p)
           \/ NoticeClose(p)
           \/ Receive(p)
           \/ ComeBack(p)
           \/ \E name \in Names : page[p].loaded /\ add_voice_map(p, name)
           \/ \E n \in Visible(page[p]), b \in Buttons : map_voice(p, n, b)
           \/ \E n \in Visible(page[p]) : TrashMap(p, n)
           \/ HandleSave(p)
           \/ HandleDelete(p)
    BY <1>2 DEF Next
  <2> QED
    BY <2>1, LoadPageStep, ConnectionStep, DisconnectStep, ReceiveStep, ComeBackStep, AddStep,
       BindStep, TrashStep, HandleSaveStep, HandleDeleteStep
<1> QED
  BY <1>1, <1>2

\* Of the voice maps that a page in sync was loaded with, it lists again exactly those
\* that still have their row when its user returns to the activity:
\* save_voice_map_callback may rename an element to another row, but no callback enters
\* anything in the dict, and deletions are told to every page.
THEOREM LoadedMapsStayTrue == Spec => []LoadedMapsAgree
<1>1. VInv => LoadedMapsAgree
  <2> SUFFICES ASSUME VInv, NEW p \in Conns, InSync(p)
               PROVE  {id[2] : id \in {x \in DOMAIN page[p].voice_maps : x[1] = "row"}} =
                          DOMAIN voice_binds.rows \cap 1..upto[p]
    BY DEF LoadedMapsAgree
  <2> DEFINE dict == page[p].voice_maps
  <2>1. Agrees(p) /\ inbox[p] = <<>>
    BY DEF VInv, PagesAgree, InSync
  <2>2. \A i : ~ IsIn(MapGone(i), inbox[p])
    BY <2>1, EmptyStream DEF IsIn
  <2>3. \A i : Row(i) \in DOMAIN dict => i \in DOMAIN voice_binds.rows \cap 1..upto[p]
    BY <2>1, <2>2 DEF Agrees, Known
  <2>4. ASSUME NEW i \in DOMAIN voice_binds.rows \cap 1..upto[p] PROVE Row(i) \in DOMAIN dict
    BY <2>1, <2>4 DEF Agrees
  <2>5. \A x \in DOMAIN dict : x[1] = "row" => x = Row(x[2])
    BY DEF VInv, PagesOK, PageShape, Row
  <2>6. \A i : Row(i)[1] = "row" /\ Row(i)[2] = i
    BY DEF Row
  <2> HIDE DEF dict
  <2> QED
    BY <2>3, <2>4, <2>5, <2>6 DEF dict
<1> QED
  BY <1>1, InitVInv, VInvStep, PTL DEF Spec
=============================================================================
