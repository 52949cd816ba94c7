---------------------------- MODULE MCVoiceMaps ----------------------------
(***************************************************************************)
(* Pages that map what their users say.                                    *)
(***************************************************************************)
EXTENDS VoiceMaps, TLC

CONSTANTS p1, p2, b1

TwoPages == {p1, p2}
OnePage  == {p1}
PageSymmetry == Permutations(TwoPages)

OneMap == <<[name |-> "tv", button_id |-> b1]>>
=============================================================================
