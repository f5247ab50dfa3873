-------------------------- MODULE MCClientSessions --------------------------
(* The instance of ClientSessions that TLC checks. *)
EXTENDS ClientSessions, TLC

CONSTANTS c1, c2, r1, r2, k1, k2

\* Port 1 is a listener of the node, port 4 is outside its range.
Enabled == [enabled |-> TRUE, max |-> 1, ports |-> 1..4, grants |-> {}]
MCOnePolicy == {Enabled}
MCPolicies == {Enabled, [Enabled EXCEPT !.enabled = FALSE]}
MCSymmetry == Permutations(Clients) \cup Permutations(Requests)
MCCommandOf == [k \in Commands |-> c1]
=============================================================================
