----------------------------- MODULE MCAdmission -----------------------------
(* Two control connections, each with up to two proxies, and two leases of *)
(* the same client. *)
EXTENDS Admission, TLC

CONSTANTS l1, l2, c1

MCClientOf == l1 :> c1 @@ l2 :> c1
=============================================================================
