----------------------------- MODULE MCKeyMaps -----------------------------
(***************************************************************************)
(* Two pages that map keys of the same activities.                         *)
(***************************************************************************)
EXTENDS KeyMaps, TLC

CONSTANTS p1, p2, b1, b2

TwoPages == {p1, p2}
PageSymmetry == Permutations(TwoPages)

Bind(a, k, b) == [activity_id |-> a, key_code |-> k, button_id |-> b]

\* Both activities have got the same default key.
SharedKey == <<Bind("a1", "Enter", b1), Bind("a2", "Enter", b1)>>
=============================================================================
