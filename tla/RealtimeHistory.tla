-------------------------- MODULE RealtimeHistory --------------------------
(***************************************************************************)
(* The websocket server with messages whose handlers may reply anything,   *)
(* and a record of what was broadcast and what each page was delivered:    *)
(* the server implements BroadcastLog.                                     *)
(***************************************************************************)
EXTENDS Realtime

CONSTANTS
    Replies,  \* what handlers reply
    MaxLog    \* bound of the model: the number of broadcasts

VARIABLES
    log,      \* history: the replies in the order they were broadcast
    heard     \* history: what an open connection was delivered

vars == <<link, listeners, inbox, outbox, log, heard>>

Request == "request"  \* what pages send; the handlers are not modelled here

Init ==
    /\ HubInit
    /\ log = <<>>
    /\ heard = [c \in Conns |-> <<>>]

Connect(c) == Open(c) /\ UNCHANGED <<log, heard>>

Ask(c) == Send(c, <<Request>>) /\ UNCHANGED <<log, heard>>

Answer(c, reply) ==
    /\ Len(log) < MaxLog
    /\ OnMessage(c, reply)
    /\ log' = Append(log, reply)
    /\ UNCHANGED heard

DropRequest(c) == OnMessageDropped(c) /\ UNCHANGED <<log, heard>>

Forget(c) == heard' = [heard EXCEPT ![c] = <<>>]

AbortSender(c) == OnMessageAborted(c) /\ Forget(c) /\ UNCHANGED log

Receive(c) ==
    /\ Deliver(c)
    /\ heard' = [heard EXCEPT ![c] = Append(@, Head(inbox[c]))]
    /\ UNCHANGED log

Disconnect(c) == Lose(c) /\ Forget(c) /\ UNCHANGED log

NoticeClose(c) == OnClose(c) /\ UNCHANGED <<log, heard>>

Next ==
    \E c \in Conns :
        \/ Connect(c)
        \/ Ask(c)
        \/ \E reply \in Replies : Answer(c, reply)
        \/ DropRequest(c)
        \/ AbortSender(c)
        \/ Receive(c)
        \/ Disconnect(c)
        \/ NoticeClose(c)

\* A browser that is alive handles the frames that have reached it.
Fairness == \A c \in Conns : WF_vars(Receive(c))

Spec == Init /\ [][Next]_vars /\ Fairness

-----------------------------------------------------------------------------
\* Only replies are broadcast and heard, and no frame outlives its connection.
TypeOK ==
    /\ HubTypeOK(Replies \cup {Request})
    /\ log \in Seq(Replies)
    /\ heard \in [Conns -> Seq(Replies)]

Live == {c \in Conns : link[c] = "open"}

\* The server implements BroadcastLog: a page that stays connected is delivered
\* every reply broadcast since its connection opened, in the order of the handlers,
\* whatever other connections open, close or are lost in between.
Abstract ==
    INSTANCE BroadcastLog WITH
        Subscribers   <- Conns,
        Announcements <- Replies,
        member        <- Live,
        cursor        <- [c \in Conns |-> IF c \in Live THEN Len(log) - Len(inbox[c]) ELSE 0]

ImplementsBroadcastLog == Abstract!Spec

=============================================================================
