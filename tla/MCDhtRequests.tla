--------------------------- MODULE MCDhtRequests ----------------------------
(* An instance: two calls, of which only the second knows a peer further away. *)
EXTENDS DhtRequests

CONSTANTS near, far, c1, c2

MCPeer == {near, far}
MCCaller == {c1, c2}
MCClosest == [c \in MCCaller |-> IF c = c1 THEN <<near>> ELSE <<near, far>>]
=============================================================================
