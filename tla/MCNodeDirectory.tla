-------------------------- MODULE MCNodeDirectory --------------------------
(* The instance of NodeDirectory that TLC checks. *)
EXTENDS NodeDirectory

CONSTANTS r1, r2, t1, t2
=============================================================================
