----------------------------- MODULE MCRealtime -----------------------------
(***************************************************************************)
(* Two connections, two different replies.                                 *)
(***************************************************************************)
EXTENDS RealtimeHistory

CONSTANTS c1, c2, r1, r2

TwoConns == {c1, c2}

TwoReplies == {r1, r2}
=============================================================================
