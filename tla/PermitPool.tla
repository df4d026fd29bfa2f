----------------------------- MODULE PermitPool -----------------------------
(***************************************************************************)
(* What the resource limiter promises its callers: at any moment at most   *)
(* GlobalLimit permits exist, and at most PerKeyLimit for any one key      *)
(* ("a fixed slice of the global pool", resource.rs), unless somebody calls *)
(* reap_key for it; a permit is granted and dropped in one step, whatever  *)
(* happens inside.                                                         *)
(***************************************************************************)
EXTENDS Integers, FiniteSets

CONSTANTS Task, Key, ReapKey, GlobalLimit, PerKeyLimit

VARIABLE owner    \* the key for which each task owns a permit, or {} if none

Owners == {t \in Task : owner[t] # {}}
OwnersOf(k) == {t \in Task : owner[t] = {k}}

Init == owner = [t \in Task |-> {}]

Grant(t, k) ==
    /\ owner[t] = {}
    /\ Cardinality(Owners) < GlobalLimit
    /\ \/ PerKeyLimit = 0 \/ k \in ReapKey
       \/ Cardinality(OwnersOf(k)) < PerKeyLimit
    /\ owner' = [owner EXCEPT ![t] = {k}]

Drop(t) ==
    /\ owner[t] # {}
    /\ owner' = [owner EXCEPT ![t] = {}]

Next == \E t \in Task : Drop(t) \/ \E k \in Key : Grant(t, k)

Spec == Init /\ [][Next]_owner
=============================================================================
