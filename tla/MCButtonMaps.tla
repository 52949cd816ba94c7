---------------------------- MODULE MCButtonMaps ----------------------------
(***************************************************************************)
(* Two pages that edit the same maps.                                      *)
(***************************************************************************)
EXTENDS ButtonMaps, TLC

CONSTANTS p1, p2

TwoPages == {p1, p2}

PageSymmetry == Permutations(TwoPages)
=============================================================================
