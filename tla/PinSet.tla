------------------------------- MODULE PinSet -------------------------------
(***************************************************************************)
(* The pin index of the blob store (pin_set.rs): a map from content hashes *)
(* to pin records, here a function whose domain is the set of entries.     *)
(* Every operator is one method of PinSet; timestamps are left out.        *)
(***************************************************************************)
CONSTANT Hash          \* content hashes, of blobs and of their chunks

PinRecord == [kind : {"root", "chunk"}, recursive : BOOLEAN, descendants : SUBSET Hash]

Empty == [h \in {} |-> [kind |-> "root", recursive |-> FALSE, descendants |-> {}]]

Without(pins, hashes) == [h \in DOMAIN pins \ hashes |-> pins[h]]

\* Both ways to add leave an existing entry untouched, whatever its kind.
Insert(pins, hashes, rec) ==
    [h \in DOMAIN pins \cup hashes |-> IF h \in DOMAIN pins THEN pins[h] ELSE rec]

Add(pins, h, recursive, descendants) ==
    Insert(pins, {h}, [kind |-> "root", recursive |-> recursive, descendants |-> descendants])

AddChunks(pins, hashes) ==
    Insert(pins, hashes, [kind |-> "chunk", recursive |-> FALSE, descendants |-> {}])

\* Takes the recorded descendants along, also those another root still lists.
Remove(pins, h) == Without(pins, {h} \cup pins[h].descendants)

\* A mutant: the sweep forgets to spare the roots.
SweepOrphans(pins) ==
    Without(pins, {c \in DOMAIN pins :
        ~\E r \in DOMAIN pins : pins[r].recursive /\ c \in pins[r].descendants})

\* Chunk entries that no recursive root lists.
OrphanChunks(pins) ==
    {c \in DOMAIN pins :
        /\ pins[c].kind = "chunk"
        /\ ~\E r \in DOMAIN pins :
              pins[r].kind = "root" /\ pins[r].recursive /\ c \in pins[r].descendants}

SweepOrphanChunks(pins) == Without(pins, OrphanChunks(pins))

IsPinSet(pins) == DOMAIN pins \subseteq Hash /\ \A h \in DOMAIN pins : pins[h] \in PinRecord
=============================================================================
