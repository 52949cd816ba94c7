----------------------------- MODULE MCKeyInput -----------------------------
(***************************************************************************)
(* Buttons of every kind; few keys that are mapped to them.                *)
(***************************************************************************)
EXTENDS KeyInput, TLC

CONSTANTS p1, p2

Still == [x \in Axes |-> 0]

Catalogue ==
    "A"     :> [kind |-> "key", code |-> <<"usage", 4>>]
 @@ "B"     :> [kind |-> "key", code |-> <<"usage", 5>>]
 @@ "C"     :> [kind |-> "key", code |-> <<"usage", 6>>]
 @@ "Left"  :> [kind |-> "mouse", move |-> [Still EXCEPT !["x"] = 235]]
 @@ "Play"  :> [kind |-> "consumer", code |-> <<"consumer", 176>>]
 @@ "New"   :> [kind |-> "learnt"]

OnePage == {p1}
TwoKeys == {"k1", "k2"}

\* Two keys, which users map to further buttons: both to one button, and to mouse
\* moves, consumer controls and learnt buttons.  With the other activity's button of a
\* key that is still down there are three codes for two places.
MixedMaps ==
    "a1" :> ("k1" :> "A" @@ "k2" :> "B")
 @@ "a2" :> ("k1" :> "C" @@ "k2" :> NoButton)

\* Two pages with a key each.
TwoPages == {p1, p2}
OneKey == {"k1"}
SharedMaps == "a1" :> ("k1" :> "A")
=============================================================================
