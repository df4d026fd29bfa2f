-------------------------- MODULE StoreAndForward --------------------------
(***************************************************************************)
(* What the mailbox promises its users: an at-least-once store of          *)
(* envelopes.  An envelope leaves it only after it was handed over or after *)
(* it expired, and may be stored again later.                              *)
(***************************************************************************)
CONSTANT Envelope

VARIABLES held,       \* envelopes in the store
          seen,       \* envelopes handed to their recipients
          confirmed,  \* envelopes their senders know to be stored
          expired     \* envelopes that expired in the store

vars == <<held, seen, confirmed, expired>>

Init == held = {} /\ seen = {} /\ confirmed = {} /\ expired = {}

Store(k) ==
    /\ k \notin held
    /\ held' = held \cup {k}
    /\ UNCHANGED <<seen, confirmed, expired>>

Confirm(k) ==
    /\ k \in held \cup seen \cup expired
    /\ confirmed' = confirmed \cup {k}
    /\ UNCHANGED <<held, seen, expired>>

HandOver(S) ==
    /\ S \subseteq held \cup expired
    /\ seen' = seen \cup S
    /\ UNCHANGED <<held, confirmed, expired>>

Acknowledge(S) ==
    /\ S \subseteq seen
    /\ held' = held \ S
    /\ UNCHANGED <<seen, confirmed, expired>>

Expire(S) ==
    /\ S \subseteq held
    /\ held' = held \ S
    /\ expired' = expired \cup S
    /\ UNCHANGED <<seen, confirmed>>

Next ==
    \/ \E k \in Envelope : Store(k) \/ Confirm(k)
    \/ \E S \in SUBSET Envelope : HandOver(S) \/ Acknowledge(S) \/ Expire(S)

Spec == Init /\ [][Next]_vars
=============================================================================
