------------------------- MODULE MCWebRemoteStore -------------------------
(***************************************************************************)
(* One remote and one button besides the installed ones, and one of each   *)
(* other row at a time: enough for every row to go while others refer to   *)
(* it, and for what remains to meet a new row.                             *)
(***************************************************************************)
EXTENDS WebRemoteStore, TLC

CONSTANT k1

OneDefault == <<[key_code |-> k1, remote_id |-> 1, button_id |-> 1]>>

Sizes == [remotes |-> 2, remote_buttons |-> 2, activities |-> 2,
          button_binds |-> 1, key_binds |-> 2, voice_binds |-> 1]
=============================================================================
