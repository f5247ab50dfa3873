---------------------------- MODULE MCEdgeGate ----------------------------
(* EdgeGate for TLC: its constants are numbers given in the configuration. *)
EXTENDS EdgeGate
=============================================================================
