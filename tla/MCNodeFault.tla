------------------------------ MODULE MCNodeFault ------------------------------
(* One client with one port; the configurations differ in requests and faults. *)
EXTENDS NodeFault
=============================================================================
