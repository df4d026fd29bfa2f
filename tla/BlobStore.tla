----------------------------- MODULE BlobStore ------------------------------
(***************************************************************************)
(* The on-disk blob store (store.rs): one directory per blob that holds    *)
(* its chunk files, meta.json and, written last, the sentinel "complete".  *)
(* put_bytes_sync writes straight into the final directory, remove empties *)
(* it file by file (remove_dir_all, in the directory's own order), and     *)
(* nothing locks a directory, so both interleave file by file.  A chunk    *)
(* file is named by its hash here, and chunks are written in any order.    *)
(***************************************************************************)
EXTENDS PinSet

CONSTANTS Blob,       \* hashes of the contents stored
          ChunksOf,   \* the chunk hashes of each; a one-chunk blob is its own chunk,
                      \* and so is a stored chunk: CHUNK_SIZE cuts it into one piece
          Putter,     \* threads that may run put_bytes_sync at once
          NoBlob

ASSUME BlobStoreAssumption ==
    /\ Blob \subseteq Hash
    /\ ChunksOf \in [Blob -> SUBSET Hash]
    /\ \A b \in Blob : \A c \in ChunksOf[b] \cap Blob : ChunksOf[c] = {c}
    /\ NoBlob \notin Blob

VARIABLES dir,        \* the files in each blob's directory; "dir" is the directory itself
          putting,    \* the blob each put_bytes_sync writes
          left,       \* the files it has still to write
          contended   \* history: blobs on which a put met another put or a removal

store == <<dir, putting, left, contended>>

\* The files of a directory that the properties tell apart: one per distinct chunk, with
\* its .sha file, and the sentinel.  meta.json, written between them, is not one of them.
Part(b) == ChunksOf[b] \cup {"complete"}

Files == Hash \cup {"dir", "complete"}

StoreTypeOK ==
    /\ dir \in [Blob -> SUBSET Files]
    /\ putting \in [Putter -> Blob \cup {NoBlob}]
    /\ left \in [Putter -> SUBSET Files]
    /\ contended \subseteq Blob

\* A store in use: the blobs are there (a first sweep may take them), no call is running.
StoreInit ==
    /\ dir = [b \in Blob |-> Part(b) \cup {"dir"}]
    /\ putting = [p \in Putter |-> NoBlob]
    /\ left = [p \in Putter |-> {}]
    /\ contended = {}

Complete(b) == "complete" \in dir[b]

\* A mutant: only intact blobs are listed.
ListIntact == {b \in Blob : Part(b) \subseteq dir[b]}

ListComplete == {b \in Blob : Complete(b)}

\* A mutant: the sentinel may come before a chunk.
WritableAny(p) == left[p]

\* What put_bytes_sync writes next: the chunks, then the sentinel.
Writable(p) == IF left[p] = {"complete"} THEN left[p] ELSE left[p] \ {"complete"}

\* A complete blob is left alone.  removing: the blobs that are being removed.
PutBegin(p, b, removing) ==
    /\ putting[p] = NoBlob
    /\ ~Complete(b)
    /\ dir' = [dir EXCEPT ![b] = @ \cup {"dir"}]
    /\ putting' = [putting EXCEPT ![p] = b]
    /\ left' = [left EXCEPT ![p] = Part(b)]
    /\ contended' = IF b \in removing \/ \E q \in Putter : putting[q] = b
                    THEN contended \cup {b} ELSE contended

PutEnds(p) ==
    /\ putting' = [putting EXCEPT ![p] = NoBlob]
    /\ left' = [left EXCEPT ![p] = {}]

\* One fs::write.
PutWrite(p) ==
    LET b == putting[p] IN
    /\ b # NoBlob
    /\ "dir" \in dir[b]
    /\ \E f \in Writable(p) :
        /\ dir' = [dir EXCEPT ![b] = @ \cup {f}]
        /\ IF f = "complete" THEN PutEnds(p)
           ELSE left' = [left EXCEPT ![p] = @ \ {f}] /\ UNCHANGED putting
    /\ UNCHANGED contended

\* A write fails (a full disk, a directory that is gone): what was written stays.
PutFail(p) ==
    /\ putting[p] # NoBlob
    /\ PutEnds(p)
    /\ UNCHANGED <<dir, contended>>

\* unlink of one file by remove_dir_all.
UnlinkFile(b, f) ==
    /\ dir' = [dir EXCEPT ![b] = @ \ {f}]
    /\ UNCHANGED <<putting, left, contended>>

\* The rmdir that ends remove_dir_all; files that came meanwhile make it fail.
RemoveDir(b, others) ==
    LET empty == dir[b] \subseteq {"dir"}
        alone == b \notin others /\ \A p \in Putter : putting[p] # b
    IN  /\ dir' = IF empty THEN [dir EXCEPT ![b] = {}] ELSE dir
        /\ contended' = IF empty /\ alone THEN contended \ {b} ELSE contended
        /\ UNCHANGED <<putting, left>>

(* The sentinel is written last: as long as no other put and no removal ran  *)
(* on the same directory, a blob that has_complete reports has all its       *)
(* chunks, whenever the process was killed.                                 *)
PutsCrashSafe ==
    \A b \in Blob \ contended : Complete(b) => Part(b) \subseteq dir[b]
=============================================================================
