-------------------------- MODULE Realtime_proofs --------------------------
(***************************************************************************)
(* Proofs about the websocket server, for every set of connections and of  *)
(* replies: the list of listeners holds each connection once, and the      *)
(* server implements BroadcastLog as far as safety goes.  That everything  *)
(* is heard in the end is checked by TLC only.                             *)
(*                                                                         *)
(* The argument is that what is on its way to an open connection is always *)
(* the end of the log of broadcasts; what it was delivered came before.    *)
(***************************************************************************)
EXTENDS RealtimeHistory, Hub_proofs

-----------------------------------------------------------------------------
(***************************************************************************)
(* The invariant.                                                          *)
(***************************************************************************)
StreamsOK ==
    /\ link \in [Conns -> {"closed", "open", "lost"}]
    /\ inbox \in [Conns -> Seq(Replies)]
    /\ outbox \in [Conns -> Seq({Request})]
    /\ \A c \in Conns : Len(inbox[c]) <= MaxInFlight /\ Len(outbox[c]) <= MaxInFlight
    /\ \A c \in Conns : link[c] # "open" => inbox[c] = <<>>
    /\ \A c \in Conns : link[c] = "closed" => outbox[c] = <<>>

HistoryOK ==
    /\ log \in Seq(Replies)
    /\ heard \in [Conns -> Seq(Replies)]
    /\ \A c \in Conns : link[c] # "open" => heard[c] = <<>>

\* The end of the log is what is on its way.
EndOf(frames) ==
    /\ Len(frames) <= Len(log)
    /\ \A k \in 1..Len(frames) : frames[k] = log[Len(log) - Len(frames) + k]

Pending == \A c \in Conns : link[c] = "open" => EndOf(inbox[c])

HInv == ListOK /\ StreamsOK /\ HistoryOK /\ Pending

LEMMA InitHInv == Init => HInv
<1> SUFFICES ASSUME Init PROVE HInv
  OBVIOUS
<1>1. /\ link = [c \in Conns |-> "closed"] /\ listeners = <<>>
      /\ inbox = [c \in Conns |-> <<>>] /\ outbox = [c \in Conns |-> <<>>]
      /\ log = <<>> /\ heard = [c \in Conns |-> <<>>]
  BY DEF Init, HubInit
<1>2. ListOK
  BY <1>1, EmptySeq DEF ListOK, NoneTwice, IsIn
<1>3. StreamsOK
  BY <1>1, EmptySeq, MaxInFlightAssumption DEF StreamsOK
<1>4. HistoryOK
  BY <1>1, EmptySeq DEF HistoryOK
<1>5. Pending
  BY <1>1 DEF Pending
<1> QED
  BY <1>2, <1>3, <1>4, <1>5 DEF HInv

LEMMA ConnectStep ==
    ASSUME HInv, NEW c \in Conns, Connect(c)
    PROVE  HInv'
<1>1. /\ link[c] = "closed" /\ link' = [link EXCEPT ![c] = "open"]
      /\ listeners' = Append(listeners, c)
      /\ UNCHANGED inbox /\ UNCHANGED outbox /\ UNCHANGED log /\ UNCHANGED heard
  BY DEF Connect, Open
<1>2. link \in [Conns -> {"closed", "open", "lost"}] /\ inbox[c] = <<>>
  BY <1>1 DEF HInv, StreamsOK
<1>3. ListOK'
  <2>1. ~ IsIn(c, listeners) /\ listeners \in Seq(Conns) /\ NoneTwice(listeners)
    BY <1>1 DEF HInv, ListOK
  <2>2. /\ listeners' \in Seq(Conns) /\ NoneTwice(listeners')
        /\ \A d : IsIn(d, listeners') <=> IsIn(d, listeners) \/ d = c
    BY <1>1, <2>1, AddNew
  <2>3. \A d \in Conns : IsIn(d, listeners') <=> link'[d] # "closed"
    BY <1>1, <1>2, <2>2 DEF HInv, ListOK
  <2> QED
    BY <2>2, <2>3 DEF ListOK
<1>4. StreamsOK'
  BY <1>1, <1>2 DEF HInv, StreamsOK
<1>5. HistoryOK'
  BY <1>1, <1>2 DEF HInv, HistoryOK
<1>6. Pending'
  <2> SUFFICES ASSUME NEW d \in Conns, link'[d] = "open" PROVE EndOf(inbox[d])'
    BY <1>1 DEF Pending
  <2>1. CASE d = c
    <3>1. inbox'[d] = <<>> /\ Len(log') \in Nat
      BY <1>1, <1>2, <2>1, LenProperties DEF HInv, HistoryOK
    <3> QED
      BY <3>1 DEF EndOf
  <2>2. CASE d # c
    BY <1>1, <1>2, <2>2 DEF HInv, Pending, EndOf
  <2> QED
    BY <2>1, <2>2
<1> QED
  BY <1>3, <1>4, <1>5, <1>6 DEF HInv

LEMMA AskStep ==
    ASSUME HInv, NEW c \in Conns, Ask(c)
    PROVE  HInv'
<1>1. /\ link[c] = "open" /\ Len(outbox[c]) + Len(<<Request>>) <= MaxInFlight
      /\ outbox' = [outbox EXCEPT ![c] = @ \o <<Request>>]
      /\ UNCHANGED link /\ UNCHANGED listeners /\ UNCHANGED inbox /\ UNCHANGED log
      /\ UNCHANGED heard
  BY DEF Ask, Send
<1>2. outbox[c] \in Seq({Request}) /\ <<Request>> \in Seq({Request})
  BY DEF HInv, StreamsOK
<1>3. /\ outbox[c] \o <<Request>> \in Seq({Request})
      /\ Len(outbox[c] \o <<Request>>) = Len(outbox[c]) + Len(<<Request>>)
  BY <1>2, ConcatProperties
<1>4. StreamsOK'
  BY <1>1, <1>3 DEF HInv, StreamsOK
<1> QED
  BY <1>1, <1>4 DEF HInv, ListOK, HistoryOK, Pending, EndOf

\* A frame more for every open connection, and a reply more on the log.
LEMMA AnswerInbox ==
    ASSUME HInv, NEW c \in Conns, NEW reply \in Replies, Answer(c, reply), NEW d \in Conns
    PROVE  inbox'[d] = IF link[d] = "open" THEN Append(inbox[d], reply) ELSE inbox[d]
<1>1. inbox'[d] = IF link[d] = "open" THEN inbox[d] \o [n \in 1..Turns(d) |-> reply] ELSE inbox[d]
  BY DEF Answer, OnMessage, Broadcast
<1>2. link[d] = "open" => Turns(d) = 1
  BY TurnsOnce DEF HInv
<1>3. [n \in 1..1 |-> reply] = <<reply>>
  OBVIOUS
<1>4. inbox[d] \in Seq(Replies)
  BY DEF HInv, StreamsOK
<1>5. Append(inbox[d], reply) = inbox[d] \o <<reply>>
  BY <1>4, AppendIsConcat
<1> QED
  BY <1>1, <1>2, <1>3, <1>5

LEMMA AnswerStep ==
    ASSUME HInv, NEW c \in Conns, NEW reply \in Replies, Answer(c, reply)
    PROVE  HInv'
<1>1. /\ link[c] # "closed" /\ outbox[c] # <<>>
      /\ outbox' = [outbox EXCEPT ![c] = Tail(@)]
      /\ log' = Append(log, reply)
      /\ \A d \in Conns : Len(inbox[d]) < MaxInFlight
      /\ UNCHANGED link /\ UNCHANGED listeners /\ UNCHANGED heard
  BY DEF Answer, OnMessage, HasMessage
<1>2. DOMAIN inbox' = Conns
  BY DEF Answer, OnMessage, Broadcast
<1>3. ASSUME NEW d \in Conns
      PROVE  /\ inbox'[d] \in Seq(Replies) /\ Len(inbox'[d]) <= MaxInFlight
             /\ link[d] # "open" => inbox'[d] = <<>>
  <2>1. inbox[d] \in Seq(Replies) /\ (link[d] # "open" => inbox[d] = <<>>) /\ Len(inbox[d]) \in Nat
    BY LenProperties DEF HInv, StreamsOK
  <2>2. Append(inbox[d], reply) \in Seq(Replies) /\ Len(Append(inbox[d], reply)) = Len(inbox[d]) + 1
    BY <2>1, AppendProperties
  <2>3. inbox'[d] = IF link[d] = "open" THEN Append(inbox[d], reply) ELSE inbox[d]
    BY AnswerInbox
  <2>4. Len(inbox[d]) < MaxInFlight
    BY <1>1
  <2> QED
    BY <2>1, <2>2, <2>3, <2>4, MaxInFlightAssumption
<1>4. inbox' \in [Conns -> Seq(Replies)]
  <2>1. inbox' = [d \in Conns |-> inbox'[d]]
    BY DEF Answer, OnMessage, Broadcast
  <2> QED
    BY <1>3, <2>1
<1>5. Tail(outbox[c]) \in Seq({Request}) /\ Len(Tail(outbox[c])) = Len(outbox[c]) - 1
  BY <1>1, HeadTailProperties DEF HInv, StreamsOK
<1>6. Len(outbox[c]) \in Nat
  BY LenProperties DEF HInv, StreamsOK
<1>7. /\ outbox' \in [Conns -> Seq({Request})]
      /\ \A d \in Conns : Len(outbox'[d]) <= MaxInFlight
      /\ \A d \in Conns : link'[d] = "closed" => outbox'[d] = <<>>
  BY <1>1, <1>5, <1>6, MaxInFlightAssumption DEF HInv, StreamsOK
<1>8. StreamsOK'
  BY <1>1, <1>3, <1>4, <1>7 DEF HInv, StreamsOK
<1>9. /\ log' \in Seq(Replies) /\ Len(log') = Len(log) + 1 /\ Len(log) \in Nat
      /\ \A k \in 1..Len(log) : log'[k] = log[k]
      /\ log'[Len(log) + 1] = reply
  BY <1>1, AppendProperties, LenProperties DEF HInv, HistoryOK
<1>10. HistoryOK'
  BY <1>1, <1>9 DEF HInv, HistoryOK
<1>11. Pending'
  <2> SUFFICES ASSUME NEW d \in Conns, link[d] = "open" PROVE EndOf(inbox[d])'
    BY <1>1 DEF Pending
  <2> DEFINE old == inbox[d]
             new == inbox'[d]
  <2>1. old \in Seq(Replies) /\ Len(old) \in Nat /\ EndOf(old)
    BY LenProperties DEF HInv, StreamsOK, Pending
  <2>2. /\ new = Append(old, reply) /\ Len(new) = Len(old) + 1
        /\ \A k \in 1..Len(old) : new[k] = old[k]
        /\ new[Len(old) + 1] = reply
    <3>1. inbox'[d] = Append(inbox[d], reply)
      BY AnswerInbox
    <3>2. new = Append(old, reply)
      BY <3>1
    <3> HIDE DEF old, new
    <3> QED
      BY <2>1, <3>2, AppendProperties
  <2> HIDE DEF old, new
  <2>3. ASSUME NEW k \in 1..Len(new) PROVE new[k] = log'[Len(log') - Len(new) + k]
    <3>1. CASE k \in 1..Len(old)
      <4>1. Len(log) - Len(old) + k \in 1..Len(log) /\ Len(log') - Len(new) + k = Len(log) - Len(old) + k
        BY <1>9, <2>1, <2>2, <3>1 DEF EndOf
      <4> QED
        BY <1>9, <2>1, <2>2, <3>1, <4>1 DEF EndOf
    <3>2. CASE k \notin 1..Len(old)
      <4> DEFINE o == Len(old)
                 l == Len(log)
      <4>0. o \in Nat /\ l \in Nat /\ Len(new) = o + 1 /\ Len(log') = l + 1
        BY <1>9, <2>1, <2>2
      <4>1. k = Len(old) + 1 /\ Len(log') - Len(new) + k = Len(log) + 1
        <5>1. k \in 1..(o + 1) /\ k \notin 1..o
          BY <3>2, <4>0
        <5> HIDE DEF o, l
        <5>2. k = o + 1 /\ (l + 1) - (o + 1) + k = l + 1
          BY <4>0, <5>1
        <5> QED
          BY <4>0, <5>2 DEF o, l
      <4> QED
        BY <1>9, <2>2, <4>1
    <3> QED
      BY <3>1, <3>2
  <2>4. Len(new) <= Len(log')
    BY <1>9, <2>1, <2>2 DEF EndOf
  <2> QED
    BY <2>3, <2>4 DEF EndOf, new
<1>12. ListOK'
  BY <1>1 DEF HInv, ListOK
<1> QED
  BY <1>8, <1>10, <1>11, <1>12 DEF HInv

LEMMA DropRequestStep ==
    ASSUME HInv, NEW c \in Conns, DropRequest(c)
    PROVE  HInv'
<1>1. /\ outbox[c] # <<>> /\ outbox' = [outbox EXCEPT ![c] = Tail(@)]
      /\ UNCHANGED link /\ UNCHANGED listeners /\ UNCHANGED inbox /\ UNCHANGED log
      /\ UNCHANGED heard
  BY DEF DropRequest, OnMessageDropped, HasMessage
<1>2. /\ Tail(outbox[c]) \in Seq({Request}) /\ Len(Tail(outbox[c])) = Len(outbox[c]) - 1
      /\ Len(outbox[c]) \in Nat
  BY <1>1, HeadTailProperties, LenProperties DEF HInv, StreamsOK
<1>3. StreamsOK'
  BY <1>1, <1>2, MaxInFlightAssumption DEF HInv, StreamsOK
<1> QED
  BY <1>1, <1>3 DEF HInv, ListOK, HistoryOK, Pending, EndOf

\* A connection that goes takes along what was on its way to it.
LEMMA LeaveStep ==
    ASSUME HInv, NEW c \in Conns, link[c] # "closed",
           link' = [link EXCEPT ![c] = "lost"],
           inbox' = [inbox EXCEPT ![c] = <<>>],
           NEW rest \in Seq({Request}), Len(rest) <= MaxInFlight,
           outbox' = [outbox EXCEPT ![c] = rest],
           Forget(c), UNCHANGED listeners, UNCHANGED log
    PROVE  HInv'
<1>1. heard' = [heard EXCEPT ![c] = <<>>]
  BY DEF Forget
<1>2. StreamsOK'
  BY EmptySeq, MaxInFlightAssumption DEF HInv, StreamsOK
<1>3. HistoryOK'
  BY <1>1, EmptySeq DEF HInv, HistoryOK, StreamsOK
<1>4. ListOK'
  BY DEF HInv, ListOK, StreamsOK
<1>5. Pending'
  BY DEF HInv, Pending, EndOf, StreamsOK
<1> QED
  BY <1>2, <1>3, <1>4, <1>5 DEF HInv

LEMMA ReceiveStep ==
    ASSUME HInv, NEW c \in Conns, Receive(c)
    PROVE  HInv'
<1>1. /\ link[c] = "open" /\ inbox[c] # <<>>
      /\ inbox' = [inbox EXCEPT ![c] = Tail(@)]
      /\ heard' = [heard EXCEPT ![c] = Append(@, Head(inbox[c]))]
      /\ UNCHANGED link /\ UNCHANGED listeners /\ UNCHANGED outbox /\ UNCHANGED log
  BY DEF Receive, Deliver
<1> DEFINE old == inbox[c]
           new == Tail(old)
<1>2. /\ old \in Seq(Replies) /\ Head(old) \in Replies /\ new \in Seq(Replies)
      /\ Len(new) = Len(old) - 1 /\ Len(old) \in Nat /\ Len(new) \in Nat
      /\ \A k \in 1..Len(new) : new[k] = old[k + 1]
  BY <1>1, HeadTailProperties, LenProperties DEF HInv, StreamsOK
<1>3. StreamsOK'
  BY <1>1, <1>2, MaxInFlightAssumption DEF HInv, StreamsOK
<1>4. Append(heard[c], Head(old)) \in Seq(Replies)
  BY <1>2, AppendProperties DEF HInv, HistoryOK
<1>5. HistoryOK'
  BY <1>1, <1>4 DEF HInv, HistoryOK
<1>6. EndOf(new)
  <2> HIDE DEF new
  <2>1. EndOf(old)
    BY <1>1 DEF HInv, Pending
  <2> HIDE DEF old
  <2>2. Len(log) \in Nat
    BY LenProperties DEF HInv, HistoryOK
  <2>3. ASSUME NEW k \in 1..Len(new) PROVE new[k] = log[Len(log) - Len(new) + k]
    <3>1. k + 1 \in 1..Len(old) /\ Len(log) - Len(old) + (k + 1) = Len(log) - Len(new) + k
      BY <1>2, <2>2
    <3>2. old[k + 1] = log[Len(log) - Len(old) + (k + 1)]
      BY <2>1, <3>1 DEF EndOf
    <3> QED
      BY <1>2, <3>1, <3>2
  <2> QED
    BY <1>2, <2>1, <2>2, <2>3 DEF EndOf
<1>7. Pending'
  BY <1>1, <1>6 DEF HInv, Pending, EndOf, StreamsOK
<1> QED
  BY <1>1, <1>3, <1>5, <1>7 DEF HInv, ListOK

LEMMA NoticeCloseStep ==
    ASSUME HInv, NEW c \in Conns, NoticeClose(c)
    PROVE  HInv'
<1>1. /\ link[c] = "lost" /\ outbox[c] = <<>> /\ link' = [link EXCEPT ![c] = "closed"]
      /\ listeners' = RemoveFirst(listeners, c)
      /\ UNCHANGED inbox /\ UNCHANGED outbox /\ UNCHANGED log /\ UNCHANGED heard
  BY DEF NoticeClose, OnClose
<1>2. StreamsOK' /\ HistoryOK' /\ Pending'
  BY <1>1 DEF HInv, StreamsOK, HistoryOK, Pending, EndOf
<1>3. ListOK'
  <2>1. /\ listeners' \in Seq(Conns) /\ NoneTwice(listeners')
        /\ \A d : IsIn(d, listeners') <=> IsIn(d, listeners) /\ d # c
    BY <1>1, RemoveOnly DEF HInv, ListOK
  <2>2. \A d \in Conns : IsIn(d, listeners') <=> link'[d] # "closed"
    BY <1>1, <2>1 DEF HInv, ListOK, StreamsOK
  <2> QED
    BY <2>1, <2>2 DEF ListOK
<1> QED
  BY <1>2, <1>3 DEF HInv

LEMMA AbortSenderStep ==
    ASSUME HInv, NEW c \in Conns, AbortSender(c)
    PROVE  HInv'
<1>1. <<>> \in Seq({Request}) /\ Len(<<>>) <= MaxInFlight
  BY EmptySeq, MaxInFlightAssumption
<1>2. /\ link[c] # "closed" /\ link' = [link EXCEPT ![c] = "lost"]
      /\ inbox' = [inbox EXCEPT ![c] = <<>>] /\ outbox' = [outbox EXCEPT ![c] = <<>>]
      /\ Forget(c) /\ UNCHANGED listeners /\ UNCHANGED log
  BY DEF AbortSender, OnMessageAborted, HasMessage
<1> QED
  BY <1>1, <1>2, LeaveStep

LEMMA DisconnectStep ==
    ASSUME HInv, NEW c \in Conns, Disconnect(c)
    PROVE  HInv'
<1>1. /\ link[c] = "open" /\ link' = [link EXCEPT ![c] = "lost"]
      /\ inbox' = [inbox EXCEPT ![c] = <<>>]
      /\ Forget(c) /\ UNCHANGED listeners /\ UNCHANGED log
  BY DEF Disconnect, Lose
<1>2. PICK n \in 0..Len(outbox[c]) : outbox' = [outbox EXCEPT ![c] = SubSeq(@, 1, n)]
  BY DEF Disconnect, Lose
<1>3. /\ outbox[c] \in Seq({Request}) /\ Len(outbox[c]) \in Nat /\ Len(outbox[c]) <= MaxInFlight
  BY LenProperties DEF HInv, StreamsOK
<1>4. \A i \in 1..n : outbox[c][i] \in {Request}
  BY <1>3, ElementOfSeq
<1>5. SubSeq(outbox[c], 1, n) \in Seq({Request}) /\ Len(SubSeq(outbox[c], 1, n)) <= MaxInFlight
  <2>1. /\ SubSeq(outbox[c], 1, n) \in Seq({Request})
        /\ Len(SubSeq(outbox[c], 1, n)) = IF 1 <= n THEN n - 1 + 1 ELSE 0
    BY <1>3, <1>4, SubSeqProperties
  <2> QED
    BY <1>3, <2>1, MaxInFlightAssumption
<1> QED
  BY <1>1, <1>2, <1>5, LeaveStep

LEMMA HNext == HInv /\ [Next]_vars => HInv'
<1> SUFFICES ASSUME HInv, [Next]_vars PROVE HInv'
  OBVIOUS
<1>1. CASE UNCHANGED vars
  BY <1>1 DEF vars, HInv, ListOK, StreamsOK, HistoryOK, Pending, EndOf
<1>2. ASSUME NEW c \in Conns,
             \/ Connect(c)
             \/ Ask(c)
             \/ \E reply \in Replies : Answer(c, reply)
             \/ DropRequest(c)
             \/ AbortSender(c)
             \/ Receive(c)
             \/ Disconnect(c)
             \/ NoticeClose(c)
      PROVE  HInv'
  BY <1>2, ConnectStep, AskStep, AnswerStep, DropRequestStep, AbortSenderStep, ReceiveStep,
     DisconnectStep, NoticeCloseStep
<1> QED
  BY <1>1, <1>2 DEF Next

\* It holds in every state that connections, handlers and losses lead to.
THEOREM Invariant == Spec => []HInv
BY InitHInv, HNext, PTL DEF Spec

\* The list of listeners holds a connection once from its opening until the server
\* has seen it close (open, on_close of websocket_messaging.py), and not at all
\* after that: whoever listens is sent each broadcast exactly once.
THEOREM ListenersOnce == Spec => []ListedOnce
<1>1. HInv => ListedOnce
  BY TurnsOnce DEF HInv, ListedOnce
<1> QED
  BY <1>1, Invariant, PTL

\* The streams hold frames only, within their bound, and nothing is on its way to
\* a connection that has gone.
THEOREM StreamTypes == Spec => []TypeOK
<1>1. HInv => TypeOK
  <2> SUFFICES ASSUME HInv PROVE TypeOK
    OBVIOUS
  <2> DEFINE Frames == Replies \cup {Request}
  <2>1. Seq(Replies) \subseteq Seq(Frames) /\ Seq({Request}) \subseteq Seq(Frames)
    BY SeqMonotonic
  <2>2. /\ inbox \in [Conns -> Seq(Replies)] /\ outbox \in [Conns -> Seq({Request})]
        /\ log \in Seq(Replies) /\ heard \in [Conns -> Seq(Replies)]
        /\ link \in [Conns -> {"closed", "open", "lost"}] /\ listeners \in Seq(Conns)
    BY DEF HInv, StreamsOK, HistoryOK, ListOK
  <2> HIDE DEF Frames
  <2>3. inbox \in [Conns -> Seq(Frames)] /\ outbox \in [Conns -> Seq(Frames)]
    BY <2>1, <2>2
  <2>4. HubTypeOK(Frames)
    BY <2>2, <2>3 DEF HubTypeOK, HInv, StreamsOK
  <2> QED
    BY <2>2, <2>4 DEF TypeOK, Frames
<1> QED
  BY <1>1, Invariant, PTL

-----------------------------------------------------------------------------
(***************************************************************************)
(* The server implements BroadcastLog.  Opening is joining, answering is   *)
(* announcing, delivering is hearing, and closing or aborting an open      *)
(* connection is leaving; the abstract state does not see the rest.        *)
(***************************************************************************)
Cursor == [c \in Conns |-> IF c \in Live THEN Len(log) - Len(inbox[c]) ELSE 0]

LEMMA RefinesInit == Init => Abstract!Init
BY DEF Init, HubInit, Abstract!Init, Live

LEMMA RefinesConnect ==
    ASSUME HInv, NEW c \in Conns, Connect(c)
    PROVE  Abstract!Join(c)
<1>1. /\ link[c] = "closed" /\ link' = [link EXCEPT ![c] = "open"]
      /\ link \in [Conns -> {"closed", "open", "lost"}]
      /\ UNCHANGED inbox /\ UNCHANGED log /\ UNCHANGED heard
      /\ inbox[c] = <<>> /\ heard[c] = <<>> /\ heard \in [Conns -> Seq(Replies)]
  BY DEF Connect, Open, HInv, StreamsOK, HistoryOK
<1>2. c \notin Live /\ Live' = Live \cup {c}
  BY <1>1 DEF Live
<1>3. Len(log) \in Nat /\ Len(inbox[c]) = 0
  BY <1>1, LenProperties DEF HInv, HistoryOK
<1>4. Cursor' = [Cursor EXCEPT ![c] = Len(log)]
  <2>1. ASSUME NEW d \in Conns, d # c PROVE Cursor'[d] = Cursor[d]
    BY <1>1, <1>2, <2>1 DEF Cursor
  <2>2. Cursor'[c] = Len(log)
    BY <1>1, <1>2, <1>3 DEF Cursor
  <2> QED
    BY <2>1, <2>2 DEF Cursor
<1>5. heard' = [heard EXCEPT ![c] = <<>>]
  BY <1>1
<1> QED
  BY <1>1, <1>2, <1>4, <1>5 DEF Abstract!Join, Cursor

LEMMA RefinesAnswer ==
    ASSUME HInv, NEW c \in Conns, NEW reply \in Replies, Answer(c, reply)
    PROVE  Abstract!Announce(reply)
<1>1. log' = Append(log, reply) /\ UNCHANGED link /\ UNCHANGED heard
  BY DEF Answer, OnMessage
<1>2. UNCHANGED Live
  BY <1>1 DEF Live
<1>3. Len(log') = Len(log) + 1 /\ Len(log) \in Nat
  BY <1>1, AppendProperties, LenProperties DEF HInv, HistoryOK
<1>4. ASSUME NEW d \in Conns, d \in Live PROVE Len(log') - Len(inbox'[d]) = Len(log) - Len(inbox[d])
  <2>1. inbox'[d] = Append(inbox[d], reply)
    BY <1>4, AnswerInbox DEF Live
  <2>2. inbox[d] \in Seq(Replies) /\ Len(inbox[d]) \in Nat
    BY LenProperties DEF HInv, StreamsOK
  <2>3. Len(inbox'[d]) = Len(inbox[d]) + 1
    BY <2>1, <2>2, AppendProperties
  <2> QED
    BY <1>3, <2>2, <2>3
<1>5. UNCHANGED Cursor
  BY <1>2, <1>4 DEF Cursor
<1> QED
  BY <1>1, <1>2, <1>5 DEF Abstract!Announce, Cursor

LEMMA RefinesReceive ==
    ASSUME HInv, NEW c \in Conns, Receive(c)
    PROVE  Abstract!Hear(c)
<1>1. /\ link[c] = "open" /\ inbox[c] # <<>>
      /\ inbox' = [inbox EXCEPT ![c] = Tail(@)]
      /\ heard' = [heard EXCEPT ![c] = Append(@, Head(inbox[c]))]
      /\ UNCHANGED link /\ UNCHANGED log
      /\ inbox \in [Conns -> Seq(Replies)]
  BY DEF Receive, Deliver, HInv, StreamsOK
<1>2. c \in Live /\ UNCHANGED Live
  BY <1>1 DEF Live
<1>3. EndOf(inbox[c]) /\ Len(log) \in Nat
  BY <1>1, LenProperties DEF HInv, Pending, HistoryOK
<1>4. /\ Len(inbox[c]) \in Nat \ {0} /\ Len(inbox'[c]) = Len(inbox[c]) - 1
      /\ Head(inbox[c]) = inbox[c][1]
  <2>1. inbox[c] \in Seq(Replies)
    BY <1>1
  <2>2. /\ Len(inbox[c]) \in Nat /\ Len(inbox[c]) # 0
        /\ Len(Tail(inbox[c])) = Len(inbox[c]) - 1
        /\ Head(inbox[c]) = inbox[c][1]
    BY <1>1, <2>1, HeadTailProperties, LenProperties, EmptySeq
  <2> QED
    BY <1>1, <2>2
<1>5. /\ Cursor[c] = Len(log) - Len(inbox[c]) /\ Cursor[c] < Len(log)
      /\ Head(inbox[c]) = log[Cursor[c] + 1]
  <2>1. Cursor[c] = Len(log) - Len(inbox[c])
    BY <1>2 DEF Cursor
  <2>2. 1 \in 1..Len(inbox[c])
    BY <1>4
  <2>3. inbox[c][1] = log[Len(log) - Len(inbox[c]) + 1]
    BY <1>3, <2>2 DEF EndOf
  <2>4. Cursor[c] < Len(log)
    BY <1>3, <1>4, <2>1
  <2> QED
    BY <1>4, <2>1, <2>3, <2>4
<1>6. Cursor' = [Cursor EXCEPT ![c] = @ + 1]
  <2>1. ASSUME NEW d \in Conns, d # c PROVE inbox'[d] = inbox[d]
    BY <1>1, <2>1
  <2>2. Len(log) - Len(inbox'[c]) = Cursor[c] + 1
    BY <1>3, <1>4, <1>5
  <2> QED
    BY <1>1, <1>2, <2>1, <2>2 DEF Cursor
<1>7. heard' = [heard EXCEPT ![c] = Append(@, log[Cursor[c] + 1])]
  BY <1>1, <1>5
<1> QED
  BY <1>1, <1>2, <1>5, <1>6, <1>7 DEF Abstract!Hear, Cursor

\* A connection that goes is left, once: when it was open.
LEMMA RefinesLeave ==
    ASSUME HInv, NEW c \in Conns,
           link' = [link EXCEPT ![c] = "lost"],
           inbox' = [inbox EXCEPT ![c] = <<>>],
           Forget(c), UNCHANGED log
    PROVE  [Abstract!Next]_(Abstract!vars)
<1>1. /\ link \in [Conns -> {"closed", "open", "lost"}]
      /\ inbox \in [Conns -> Seq(Replies)]
      /\ heard' = [heard EXCEPT ![c] = <<>>] /\ heard \in [Conns -> Seq(Replies)]
      /\ link[c] # "open" => heard[c] = <<>>
  BY DEF Forget, HInv, StreamsOK, HistoryOK
<1>2. Live' = Live \ {c}
  BY <1>1 DEF Live
<1>3. Cursor' = [Cursor EXCEPT ![c] = 0]
  BY <1>1, <1>2 DEF Cursor
<1>4. CASE c \in Live
  <2>1. Abstract!Leave(c)
    BY <1>1, <1>2, <1>3, <1>4 DEF Abstract!Leave, Cursor
  <2> QED
    BY <2>1 DEF Abstract!Next
<1>5. CASE c \notin Live
  <2>1. UNCHANGED Live /\ UNCHANGED heard
    BY <1>1, <1>2, <1>5 DEF Live
  <2>2. UNCHANGED Cursor
    BY <1>3, <1>5 DEF Cursor
  <2> QED
    BY <2>1, <2>2 DEF Abstract!vars, Cursor
<1> QED
  BY <1>4, <1>5

\* Requests come and go and the server sees a connection closed: no subscriber
\* notices any of it.
LEMMA RefinesQuiet ==
    ASSUME UNCHANGED Live, UNCHANGED inbox, UNCHANGED log, UNCHANGED heard
    PROVE  UNCHANGED Abstract!vars
BY DEF Abstract!vars

LEMMA RefinesNext == HInv /\ [Next]_vars => [Abstract!Next]_(Abstract!vars)
<1> SUFFICES ASSUME HInv, [Next]_vars PROVE [Abstract!Next]_(Abstract!vars)
  OBVIOUS
<1>1. CASE UNCHANGED vars
  BY <1>1, RefinesQuiet DEF vars, Live
<1>2. ASSUME NEW c \in Conns, Connect(c) PROVE Abstract!Next
  BY <1>2, RefinesConnect DEF Abstract!Next
<1>3. ASSUME NEW c \in Conns, NEW reply \in Replies, Answer(c, reply) PROVE Abstract!Next
  BY <1>3, RefinesAnswer DEF Abstract!Next
<1>4. ASSUME NEW c \in Conns, Receive(c) PROVE Abstract!Next
  BY <1>4, RefinesReceive DEF Abstract!Next
<1>5. ASSUME NEW c \in Conns, AbortSender(c) \/ Disconnect(c)
      PROVE  [Abstract!Next]_(Abstract!vars)
  <2>1. /\ link' = [link EXCEPT ![c] = "lost"]
        /\ inbox' = [inbox EXCEPT ![c] = <<>>]
        /\ Forget(c) /\ UNCHANGED log
    BY <1>5 DEF AbortSender, OnMessageAborted, Disconnect, Lose
  <2> QED
    BY <2>1, RefinesLeave
<1>6. ASSUME NEW c \in Conns, Ask(c) \/ DropRequest(c) \/ NoticeClose(c)
      PROVE  UNCHANGED Abstract!vars
  <2>1. UNCHANGED inbox /\ UNCHANGED log /\ UNCHANGED heard
    BY <1>6 DEF Ask, Send, DropRequest, OnMessageDropped, NoticeClose, OnClose
  <2>2. UNCHANGED link \/ (link[c] = "lost" /\ link' = [link EXCEPT ![c] = "closed"])
    BY <1>6 DEF Ask, Send, DropRequest, OnMessageDropped, NoticeClose, OnClose
  <2>3. UNCHANGED Live
    BY <2>2 DEF Live, HInv, StreamsOK
  <2> QED
    BY <2>1, <2>3, RefinesQuiet
<1> QED
  BY <1>1, <1>2, <1>3, <1>4, <1>5, <1>6 DEF Next

\* The safety part of ImplementsBroadcastLog: what on_message, open and on_close do
\* is what BroadcastLog allows, so a page hears the replies in the order of the
\* handlers, none skipped and none twice, from its opening until it goes.
THEOREM ImplementsLogSafely == Spec => Abstract!Init /\ [][Abstract!Next]_(Abstract!vars)
BY RefinesInit, RefinesNext, Invariant, PTL DEF Spec
=============================================================================
