----------------------------- MODULE MCIRduino -----------------------------
(***************************************************************************)
(* Two codes, the longer one of which has the byte 116 in the middle: what *)
(* follows from there has the length of a code.                            *)
(***************************************************************************)
EXTENDS IRduino

TwoCodes == {<<116, 0, 1, 7, 8>>, <<116, 0, 3, 9, 116, 7, 1, 6, 6>>}
=============================================================================
