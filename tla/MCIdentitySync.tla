---------------------------- MODULE MCIdentitySync ----------------------------
(* Two users on pages of one, two streams, three epochs. *)
EXTENDS IdentitySyncProofs
=============================================================================
