------------------------------ MODULE Realtime ------------------------------
(***************************************************************************)
(* The websocket server of modules/websocket_messaging.py, apart from what *)
(* its handlers do: connections that open, send, are answered by broadcast *)
(* and disappear, and the list of listeners that the broadcasts go to.     *)
(*                                                                         *)
(* Every page joins the one group 'default' and the server runs without    *)
(* tokens, so there is one list.  The dict "names" is left out: it is      *)
(* written in step with the list and read by nobody.                       *)
(*                                                                         *)
(* A websocket is two FIFO streams.  A page that goes away takes what was  *)
(* on its way to it along; of what it had sent, a prefix still arrives.    *)
(* The server notices a lost connection only after it has read that prefix *)
(* (on_close), and until then the connection is still a listener.          *)
(***************************************************************************)
EXTENDS Naturals, Sequences, FiniteSets, SequencesExt

CONSTANTS
    Conns,        \* connections; one that was closed may be opened anew
    MaxInFlight   \* bound of the model: frames on their way in one stream

ASSUME MaxInFlightAssumption == MaxInFlight \in Nat

VARIABLES
    link,       \* "closed", "open", or "lost": gone, but not yet noticed
    listeners,  \* listeners['default']
    inbox,      \* frames on their way from the server to the page
    outbox      \* frames on their way from the page to the server

hubVars == <<link, listeners, inbox, outbox>>

HubInit ==
    /\ link = [c \in Conns |-> "closed"]
    /\ listeners = <<>>
    /\ inbox = [c \in Conns |-> <<>>]
    /\ outbox = [c \in Conns |-> <<>>]

Open(c) ==
    /\ link[c] = "closed"
    /\ link' = [link EXCEPT ![c] = "open"]
    /\ listeners' = Append(listeners, c)
    /\ UNCHANGED <<inbox, outbox>>

\* One event handler of the page may send several messages.
Send(c, messages) ==
    /\ link[c] = "open"
    /\ Len(outbox[c]) + Len(messages) <= MaxInFlight
    /\ outbox' = [outbox EXCEPT ![c] = @ \o messages]
    /\ UNCHANGED <<link, listeners, inbox>>

\* How often the loop over the listeners comes by connection c.
Turns(c) == Cardinality({n \in DOMAIN listeners : listeners[n] = c})

Broadcast_Latest(c, reply) ==              \* mutant: a newer frame overtakes
    inbox' = [d \in Conns |->
                IF link[d] = "open" THEN [n \in 1..Turns(d) |-> reply] \o inbox[d]
                                    ELSE inbox[d]]

Broadcast_AlsoLost(c, reply) ==            \* mutant: queued for who comes back
    inbox' = [d \in Conns |-> inbox[d] \o [n \in 1..Turns(d) |-> reply]]

\* A frame written to a lost connection goes nowhere.
Broadcast(c, reply) ==
    inbox' = [d \in Conns |->
                IF link[d] = "open" THEN inbox[d] \o [n \in 1..Turns(d) |-> reply]
                                    ELSE inbox[d]]

HasMessage(c) == link[c] # "closed" /\ outbox[c] # <<>>

\* The handler of the message returned a reply: every listener is sent it.
OnMessage(c, reply) ==
    /\ HasMessage(c)
    /\ \A d \in Conns : Len(inbox[d]) < MaxInFlight
    /\ outbox' = [outbox EXCEPT ![c] = Tail(@)]
    /\ Broadcast(c, reply)
    /\ UNCHANGED <<link, listeners>>

\* The handler raised inside on_message's try: no page hears of it.
OnMessageDropped(c) ==
    /\ HasMessage(c)
    /\ outbox' = [outbox EXCEPT ![c] = Tail(@)]
    /\ UNCHANGED <<link, listeners, inbox>>

\* The handler raised outside of it: Tornado aborts the sender's connection.
OnMessageAborted(c) ==
    /\ HasMessage(c)
    /\ link' = [link EXCEPT ![c] = "lost"]
    /\ inbox' = [inbox EXCEPT ![c] = <<>>]
    /\ outbox' = [outbox EXCEPT ![c] = <<>>]
    /\ UNCHANGED listeners

Deliver(c) ==
    /\ link[c] = "open"
    /\ inbox[c] # <<>>
    /\ inbox' = [inbox EXCEPT ![c] = Tail(@)]
    /\ UNCHANGED <<link, listeners, outbox>>

\* The page is closed or reloaded, or the network fails.
Lose(c) ==
    /\ link[c] = "open"
    /\ link' = [link EXCEPT ![c] = "lost"]
    /\ inbox' = [inbox EXCEPT ![c] = <<>>]
    /\ \E n \in 0..Len(outbox[c]) : outbox' = [outbox EXCEPT ![c] = SubSeq(@, 1, n)]
    /\ UNCHANGED listeners

OnClose_KeepListener(c) ==                 \* mutant: a closed listener stays
    /\ link[c] = "lost"
    /\ outbox[c] = <<>>
    /\ link' = [link EXCEPT ![c] = "closed"]
    /\ UNCHANGED <<listeners, inbox, outbox>>

\* listeners.remove(self) takes the first occurrence.
OnClose(c) ==
    /\ link[c] = "lost"
    /\ outbox[c] = <<>>
    /\ link' = [link EXCEPT ![c] = "closed"]
    /\ listeners' = RemoveFirst(listeners, c)
    /\ UNCHANGED <<inbox, outbox>>

-----------------------------------------------------------------------------
\* Streams hold frames within their bound, and none outlives its connection.
HubTypeOK(Frames) ==
    /\ link \in [Conns -> {"closed", "open", "lost"}]
    /\ listeners \in Seq(Conns)
    /\ inbox \in [Conns -> Seq(Frames)]
    /\ outbox \in [Conns -> Seq(Frames)]
    /\ \A c \in Conns : Len(inbox[c]) <= MaxInFlight /\ Len(outbox[c]) <= MaxInFlight
    /\ \A c \in Conns : link[c] # "open" => inbox[c] = <<>>
    /\ \A c \in Conns : link[c] = "closed" => outbox[c] = <<>>

\* A connection that the server holds open is on the list exactly once, and one
\* that it has seen closed is not on it: no page hears a change twice, none is
\* skipped, and the list does not grow with every reload of a page.
ListedOnce == \A c \in Conns : Turns(c) = IF link[c] = "closed" THEN 0 ELSE 1
=============================================================================
