---------------------------- MODULE BroadcastLog ----------------------------
(***************************************************************************)
(* What the websocket server promises its pages: the changes are announced *)
(* in one order, and a subscriber hears them in that order, without a gap  *)
(* or a repetition, from the announcement after it joined until it leaves. *)
(***************************************************************************)
EXTENDS Naturals, Sequences

CONSTANTS
    Subscribers,
    Announcements

VARIABLES
    log,     \* all announcements so far
    member,  \* the subscribers that have joined
    cursor,  \* for each subscriber, how much of log lies behind it
    heard    \* for each subscriber, what it heard since it joined

vars == <<log, member, cursor, heard>>

Init ==
    /\ log = <<>>
    /\ member = {}
    /\ cursor = [s \in Subscribers |-> 0]
    /\ heard = [s \in Subscribers |-> <<>>]

Announce(a) ==
    /\ log' = Append(log, a)
    /\ UNCHANGED <<member, cursor, heard>>

Join(s) ==
    /\ s \notin member
    /\ member' = member \cup {s}
    /\ cursor' = [cursor EXCEPT ![s] = Len(log)]
    /\ heard' = [heard EXCEPT ![s] = <<>>]
    /\ UNCHANGED log

Hear(s) ==
    /\ s \in member
    /\ cursor[s] < Len(log)
    /\ heard' = [heard EXCEPT ![s] = Append(@, log[cursor[s] + 1])]
    /\ cursor' = [cursor EXCEPT ![s] = @ + 1]
    /\ UNCHANGED <<log, member>>

Leave(s) ==
    /\ s \in member
    /\ member' = member \ {s}
    /\ cursor' = [cursor EXCEPT ![s] = 0]
    /\ heard' = [heard EXCEPT ![s] = <<>>]
    /\ UNCHANGED log

Next ==
    \/ \E a \in Announcements : Announce(a)
    \/ \E s \in Subscribers : Join(s) \/ Hear(s) \/ Leave(s)

\* A subscriber that stays hears everything in the end.
Fairness == \A s \in Subscribers : WF_vars(Hear(s))

Spec == Init /\ [][Next]_vars /\ Fairness
=============================================================================
