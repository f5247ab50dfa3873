---------------------------- MODULE MCNodeCommands ----------------------------
(* Small instances: two configurations, or one command of every other kind. *)
EXTENDS NodeCommands
=============================================================================
