--------------------------- MODULE MCIdentityOutbox ---------------------------
(* Three users, one content besides absence, two changes, two epochs,
   one lost reply. *)
EXTENDS IdentityOutbox
=============================================================================
