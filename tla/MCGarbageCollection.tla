------------------------ MODULE MCGarbageCollection -------------------------
(* An instance: a blob of one chunk, which is its own chunk, and a blob that *)
(* repeats the same chunk.                                                   *)
EXTENDS GarbageCollection

CONSTANTS once, twice

MCHash == {once, twice}
MCChunksOf == [h \in MCHash |-> {once}]
=============================================================================
