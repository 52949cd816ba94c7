---------------------------- MODULE MCGetTables ----------------------------
(***************************************************************************)
(* A page is loaded while remotes, buttons, an activity and maps come and  *)
(* go.                                                                     *)
(***************************************************************************)
EXTENDS GetTables, TLC

NoDefaults == <<>>

Sizes == [remotes |-> 2, remote_buttons |-> 2, activities |-> 1,
          button_binds |-> 1, key_binds |-> 1, voice_binds |-> 1]
=============================================================================
