----------------------------- MODULE MCMailbox -----------------------------
(***************************************************************************)
(* Instances of Mailbox for TLC.                                           *)
(***************************************************************************)
EXTENDS Mailbox, TLC

\* Two senders and one recipient; message ids are unique, as documented.
TwoMessages == {<<"alice", "carol", "m1">>, <<"bob", "carol", "m2">>}

ThreeMessages == TwoMessages \cup {<<"alice", "carol", "m3">>}

\* Two inboxes in the one database, for envelopes with the same message id.
TwoInboxes == {<<"alice", "carol", "m1">>, <<"alice", "dave", "m1">>}

Symmetry == Permutations(Request)
=============================================================================
