---------------------------- MODULE MCGossipBus -----------------------------
(* An instance: three subscriptions, one with the filter only, one with filter *)
(* and store, one with the store only; m3 has a sender of its own.             *)
EXTENDS GossipBus

CONSTANTS f, p, s, n1, n2, m1, m2, m3

MCMsgId == {m1, m2, m3}
MCNode == {n1, n2}
MCFromOf == [m \in MCMsgId |-> IF m = m3 THEN n2 ELSE n1]
MCSub == {f, p, s}
MCKind == [x \in MCSub |-> IF x = f THEN "filter" ELSE IF x = p THEN "persist" ELSE "store"]
Symmetry == Permutations({m1, m2})
=============================================================================
