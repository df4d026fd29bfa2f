---------------------- MODULE GarbageCollectionProofs ----------------------
(***************************************************************************)
(* Proofs about GarbageCollection and the modules it is built from, for     *)
(* every set of blobs and chunks, of operators, pruners and putters.       *)
(***************************************************************************)
EXTENDS GarbageCollection, TLAPS

-----------------------------------------------------------------------------
(* Pin sets.                                                               *)

PinMap == UNION {[D -> PinRecord] : D \in SUBSET Hash}

\* Only a root has descendants, and they are chunks of its blob.
Sound(pins) ==
    /\ pins \in PinMap
    /\ \A h \in DOMAIN pins :
        IF pins[h].kind = "root" THEN h \in Blob /\ pins[h].descendants \subseteq ChunksOf[h]
        ELSE pins[h].descendants = {}

\* The entries that pin gc leaves.
Kept(pins) == DOMAIN pins \ OrphanChunks(pins)

\* A map from hashes to pin records is a pin set.
LEMMA PinMapType ==
    ASSUME NEW pins \in PinMap
    PROVE  /\ DOMAIN pins \subseteq Hash
           /\ \A h \in DOMAIN pins : pins[h] \in PinRecord
           /\ IsPinSet(pins)
BY DEF PinMap, IsPinSet

\* PinSet::default, or an empty pin.json.
LEMMA EmptySound == Sound(Empty) /\ DOMAIN Empty = {}
<1>1. DOMAIN Empty = {}  BY DEF Empty
<1>2. Empty \in [{} -> PinRecord]  BY DEF Empty
<1>3. Empty \in PinMap  BY <1>2 DEF PinMap
<1> QED  BY <1>1, <1>3 DEF Sound

\* BTreeMap::remove of some entries.
LEMMA WithoutSound ==
    ASSUME NEW pins, Sound(pins), NEW S
    PROVE  /\ Sound(Without(pins, S))
           /\ DOMAIN Without(pins, S) = DOMAIN pins \ S
           /\ \A h \in DOMAIN pins \ S : Without(pins, S)[h] = pins[h]
<1> DEFINE q == Without(pins, S)
<1>1. DOMAIN q = DOMAIN pins \ S /\ \A h \in DOMAIN pins \ S : q[h] = pins[h]  BY DEF Without
<1>2. q \in [DOMAIN pins \ S -> PinRecord]  BY PinMapType DEF Without, Sound
<1>3. DOMAIN pins \ S \in SUBSET Hash  BY PinMapType DEF Sound
<1>4. q \in PinMap  BY <1>2, <1>3 DEF PinMap
<1> HIDE DEF q
<1>5. Sound(q)  BY <1>1, <1>4 DEF Sound
<1> QED  BY <1>1, <1>5 DEF q

\* An insertion leaves the entries there are.
LEMMA InsertSound ==
    ASSUME NEW pins, Sound(pins), NEW S \in SUBSET Hash, NEW rec \in PinRecord,
           rec.kind = "root" => \A h \in S : h \in Blob /\ rec.descendants \subseteq ChunksOf[h],
           rec.kind # "root" => rec.descendants = {}
    PROVE  /\ Sound(Insert(pins, S, rec))
           /\ DOMAIN Insert(pins, S, rec) = DOMAIN pins \cup S
           /\ \A h \in DOMAIN pins : Insert(pins, S, rec)[h] = pins[h]
           /\ \A h \in S \ DOMAIN pins : Insert(pins, S, rec)[h] = rec
<1> DEFINE q == Insert(pins, S, rec)
<1>1. /\ DOMAIN q = DOMAIN pins \cup S
      /\ \A h \in DOMAIN pins : q[h] = pins[h]
      /\ \A h \in S \ DOMAIN pins : q[h] = rec
  BY DEF Insert
<1>2. q \in [DOMAIN pins \cup S -> PinRecord]  BY PinMapType DEF Insert, Sound
<1>3. DOMAIN pins \cup S \in SUBSET Hash  BY PinMapType DEF Sound
<1>4. q \in PinMap  BY <1>2, <1>3 DEF PinMap
<1> HIDE DEF q
<1>5. Sound(q)
  <2>1. \A h \in DOMAIN q : \/ h \in DOMAIN pins /\ q[h] = pins[h]
                            \/ h \in S /\ q[h] = rec
    BY <1>1
  <2> QED  BY <1>4, <2>1 DEF Sound
<1> QED  BY <1>1, <1>5 DEF q

\* PinSet::add_chunk for some chunks leaves the entries there are.
LEMMA AddChunksSound ==
    ASSUME NEW pins, Sound(pins), NEW S \in SUBSET Hash
    PROVE  /\ Sound(AddChunks(pins, S))
           /\ DOMAIN AddChunks(pins, S) = DOMAIN pins \cup S
           /\ \A h \in DOMAIN pins : AddChunks(pins, S)[h] = pins[h]
<1> DEFINE rec == [kind |-> "chunk", recursive |-> FALSE, descendants |-> {}]
<1>1. rec \in PinRecord /\ rec.kind = "chunk" /\ rec.descendants = {}  BY DEF PinRecord
<1>2. AddChunks(pins, S) = Insert(pins, S, rec)  BY DEF AddChunks
<1> HIDE DEF rec
<1>3. rec.kind # "root" /\ rec.descendants = {}  BY <1>1
<1>4. /\ Sound(Insert(pins, S, rec))
      /\ DOMAIN Insert(pins, S, rec) = DOMAIN pins \cup S
      /\ \A h \in DOMAIN pins : Insert(pins, S, rec)[h] = pins[h]
      /\ \A h \in S \ DOMAIN pins : Insert(pins, S, rec)[h] = rec
  <2>1. rec.kind = "root" => \A h \in S : h \in Blob /\ rec.descendants \subseteq ChunksOf[h]
    BY <1>3
  <2>2. rec.kind # "root" => rec.descendants = {}  BY <1>3
  <2>3. rec \in PinRecord  BY <1>1
  <2> QED  BY <2>1, <2>2, <2>3, InsertSound
<1> QED  BY <1>2, <1>4

\* An insertion makes no entry an orphan.
LEMMA InsertKeeps ==
    ASSUME NEW pins, NEW q, DOMAIN pins \subseteq DOMAIN q, \A h \in DOMAIN pins : q[h] = pins[h]
    PROVE  Kept(pins) \subseteq Kept(q)
BY DEF Kept, OrphanChunks

\* pin add: what was kept is kept, and the pinned blob too unless its entry is,
\* or becomes, a chunk of no root.
LEMMA AddKeeps ==
    ASSUME NEW pins, Sound(pins), NEW h \in Blob, NEW recursive \in BOOLEAN,
           NEW children \in SUBSET ChunksOf[h]
    PROVE  LET q == Add(AddChunks(pins, children), h, recursive, children)
           IN  /\ Sound(q)
               /\ Kept(pins) \subseteq Kept(q)
               /\ h \notin children \cup OrphanChunks(pins) => h \in Kept(q)
<1> DEFINE chunk == [kind |-> "chunk", recursive |-> FALSE, descendants |-> {}]
           root == [kind |-> "root", recursive |-> recursive, descendants |-> children]
           mid == Insert(pins, children, chunk)
           q == Insert(mid, {h}, root)
<1>1. ChunksOf[h] \in SUBSET Hash /\ h \in Hash /\ children \in SUBSET Hash
  BY BlobStoreAssumption
<1>2. chunk \in PinRecord /\ root \in PinRecord /\ chunk.kind = "chunk" /\ root.kind = "root"
      /\ chunk.descendants = {} /\ root.descendants = children
  BY <1>1 DEF PinRecord
<1> HIDE DEF chunk, root
<1>3. /\ Sound(mid)
      /\ DOMAIN mid = DOMAIN pins \cup children
      /\ \A x \in DOMAIN pins : mid[x] = pins[x]
  BY <1>1, AddChunksSound DEF AddChunks, chunk
<1> HIDE DEF mid
<1>4. /\ Sound(q)
      /\ DOMAIN q = DOMAIN mid \cup {h}
      /\ \A x \in DOMAIN mid : q[x] = mid[x]
      /\ \A x \in {h} \ DOMAIN mid : q[x] = root
  <2>1. root.kind = "root" /\ \A x \in {h} : x \in Blob /\ root.descendants \subseteq ChunksOf[x]
    BY <1>2
  <2>2. {h} \in SUBSET Hash  BY <1>1
  <2> QED  BY <1>2, <1>3, <2>1, <2>2, InsertSound
<1>5. q = Add(AddChunks(pins, children), h, recursive, children)
  BY DEF Add, AddChunks, mid, chunk, root
<1> HIDE DEF q
<1>6. DOMAIN pins \subseteq DOMAIN q /\ \A x \in DOMAIN pins : q[x] = pins[x]
  BY <1>3, <1>4
<1>7. Kept(pins) \subseteq Kept(q)  BY <1>6, InsertKeeps
<1>8. ASSUME h \notin children \cup OrphanChunks(pins)  PROVE h \in Kept(q)
  <2>1. CASE h \in DOMAIN pins  BY <1>7, <1>8, <2>1 DEF Kept
  <2>2. CASE h \notin DOMAIN pins
    <3>1. h \in DOMAIN q /\ q[h] = root  BY <1>3, <1>4, <1>8, <2>2
    <3> QED  BY <1>2, <3>1 DEF Kept, OrphanChunks
  <2> QED  BY <2>1, <2>2
<1> QED  BY <1>4, <1>5, <1>7, <1>8

\* pin rm: what was kept stays, but for the blob and the chunks it lists.
LEMMA RemoveKeeps ==
    ASSUME NEW pins, Sound(pins), NEW h \in DOMAIN pins,
           NEW S, S \subseteq Kept(pins), S \cap pins[h].descendants = {}
    PROVE  /\ Sound(Remove(pins, h))
           /\ S \ {h} \subseteq Kept(Remove(pins, h))
<1> DEFINE gone == {h} \cup pins[h].descendants
           q == Remove(pins, h)
<1>1. /\ Sound(q) /\ DOMAIN q = DOMAIN pins \ gone
      /\ \A x \in DOMAIN pins \ gone : q[x] = pins[x]
  BY WithoutSound DEF Remove
<1> HIDE DEF q
<1>2. ASSUME NEW x \in S, x # h  PROVE x \in Kept(q)
  <2>1. x \in DOMAIN q /\ q[x] = pins[x] /\ x \in Kept(pins)  BY <1>1, <1>2 DEF Kept
  <2>2. CASE pins[x].kind = "root"  BY <2>1, <2>2 DEF Kept, OrphanChunks
  <2>3. CASE pins[x].kind # "root"
    <3>0. pins[x].kind = "chunk"
      <4>1. pins[x] \in PinRecord  BY <2>1, PinMapType DEF Sound, Kept
      <4> QED  BY <2>3, <4>1 DEF PinRecord
    <3>1. PICK r \in DOMAIN pins :
              pins[r].kind = "root" /\ pins[r].recursive /\ x \in pins[r].descendants
      BY <2>1, <3>0 DEF Kept, OrphanChunks
    <3>2. r # h  BY <1>2, <3>1
    <3>3. r \notin pins[h].descendants
      <4> SUFFICES ASSUME r \in pins[h].descendants PROVE FALSE  OBVIOUS
      <4>1. pins[h].kind = "root"  BY DEF Sound
      <4>2. h \in Blob /\ r \in Blob /\ r \in ChunksOf[h] /\ x \in ChunksOf[r]
        BY <3>1, <4>1 DEF Sound
      <4>3. ChunksOf[r] = {r}  BY <4>2, BlobStoreAssumption
      <4> QED  BY <1>2, <4>2, <4>3
    <3>4. r \in DOMAIN q /\ q[r] = pins[r]  BY <1>1, <3>1, <3>2, <3>3
    <3> QED  BY <2>1, <3>1, <3>4 DEF Kept, OrphanChunks
  <2> QED  BY <2>2, <2>3
<1> QED  BY <1>1, <1>2 DEF q

\* pin gc takes nothing but orphans, and makes none.
LEMMA GcKeeps ==
    ASSUME NEW pins, Sound(pins)
    PROVE  /\ Sound(SweepOrphanChunks(pins))
           /\ Kept(pins) \subseteq Kept(SweepOrphanChunks(pins))
<1> DEFINE q == SweepOrphanChunks(pins)
<1>1. /\ Sound(q) /\ DOMAIN q = Kept(pins)
      /\ \A x \in Kept(pins) : q[x] = pins[x]
  BY WithoutSound DEF SweepOrphanChunks, Kept
<1> HIDE DEF q
<1>2. ASSUME NEW x \in Kept(pins)  PROVE x \in Kept(q)
  <2>1. x \in DOMAIN q /\ q[x] = pins[x] /\ x \in DOMAIN pins  BY <1>1, <1>2 DEF Kept
  <2>2. CASE pins[x].kind # "chunk"  BY <2>1, <2>2 DEF Kept, OrphanChunks
  <2>3. CASE pins[x].kind = "chunk"
    <3>1. PICK r \in DOMAIN pins :
              pins[r].kind = "root" /\ pins[r].recursive /\ x \in pins[r].descendants
      BY <1>2, <2>3 DEF Kept, OrphanChunks
    <3>2. r \in Kept(pins)  BY <3>1 DEF Kept, OrphanChunks
    <3>3. r \in DOMAIN q /\ q[r] = pins[r]  BY <1>1, <3>2
    <3> QED  BY <2>1, <3>1, <3>3 DEF Kept, OrphanChunks
  <2> QED  BY <2>2, <2>3
<1> QED  BY <1>1, <1>2 DEF q

-----------------------------------------------------------------------------
(* The inductive invariant.                                                *)

Commands == [pc : {"idle", "open", "write"}, op : {"add", "rm", "gc"},
             hash : Hash \cup {NoBlob}, pins : PinMap]

Sweeps == [pc : {"idle", "load", "list", "remove"}, pins : SUBSET Hash, victims : SUBSET Blob,
           blob : Blob \cup {NoBlob}, todo : SUBSET Files, shield : SUBSET Hash]

\* What TypeOK leaves open: the shape of the commands and of what they carry.
CommandsOK ==
    /\ cmd \in [Operator -> Commands]
    /\ Sound(file.pins)
    /\ \A o \in Operator : Sound(cmd[o].pins) /\ (cmd[o].op = "add" => cmd[o].hash \in Blob)
    /\ held \subseteq Blob

TypeInv == TypeOK /\ CommandsOK

\* A collector at rest, and one that begins.
LEMMA NoSweepType == NoSweep \in Sweeps /\ [NoSweep EXCEPT !.pc = "load"] \in Sweeps
BY DEF NoSweep, Sweeps

\* An operator at rest.
LEMMA NoCommandType == NoCommand \in Commands /\ NoCommand.pc = "idle" /\ NoCommand.op = "gc"
                       /\ NoCommand.pins = Empty
BY EmptySound DEF NoCommand, Commands, Sound

\* PinSet::load gives a sound pin set, whatever a save has left in the file.
LEMMA LoadedSound == TypeInv => \A io \in Io : Sound(Loaded(io))
BY EmptySound DEF Loaded, TypeInv, CommandsOK

\* TypeOK after a step, from its parts, the pins of commands and file included.
LEMMA TypeFrom ==
    ASSUME StoreTypeOK', CommandsOK', file'.state \in {"whole", "empty", "partial"},
           col' \in [Collector -> Sweeps],
           phase' \in {"starting", "refused", "sleep", "sweep", "exited"},
           errs' \in 0..MaxConsecutiveErrors, interval' \in Interval..MaxInterval, stop' \in BOOLEAN,
           closer' \in [Closer -> {"idle", "join", "joined", "skipped"}],
           calm' \in BOOLEAN, events' \in 0..MaxEvents
    PROVE  TypeInv'
<1>1. IsPinSet(file'.pins)  BY PinMapType DEF CommandsOK, Sound
<1>2. ASSUME NEW o \in Operator
      PROVE  /\ cmd'[o].pc \in {"idle", "open", "write"} /\ cmd'[o].op \in {"add", "rm", "gc"}
             /\ cmd'[o].hash \in Hash \cup {NoBlob} /\ IsPinSet(cmd'[o].pins)
  <2>1. cmd'[o] \in Commands  BY <1>2 DEF CommandsOK
  <2>2. cmd'[o].pins \in PinMap  BY <2>1 DEF Commands
  <2> QED  BY <2>1, <2>2, PinMapType DEF Commands
<1>3. held' \subseteq Hash  BY BlobStoreAssumption DEF CommandsOK
<1>4. TypeOK'  BY <1>1, <1>2, <1>3 DEF TypeOK, Sweeps
<1> QED  BY <1>4 DEF TypeInv

\* Types hold when the node starts.
LEMMA InitTypes == Init => TypeInv
<1> SUFFICES ASSUME Init PROVE TypeInv  OBVIOUS
<1>1. StoreTypeOK
  <2>1. \A b \in Blob : Part(b) \cup {"dir"} \in SUBSET Files
    BY BlobStoreAssumption DEF Part, Files
  <2> QED  BY <2>1 DEF Init, StoreInit, StoreTypeOK
<1>2. CommandsOK
  <2>1. cmd \in [Operator -> Commands]  BY NoCommandType DEF Init
  <2>2. file.pins = Empty  BY DEF Init, Whole
  <2>3. \A o \in Operator : cmd[o] = NoCommand  BY DEF Init
  <2>4. held = {}  BY DEF Init
  <2> QED  BY <2>1, <2>2, <2>3, <2>4, NoCommandType, EmptySound DEF CommandsOK
<1>3. file.state = "whole"  BY DEF Init, Whole
<1>4. col \in [Collector -> Sweeps]  BY NoSweepType DEF Init
<1>5. 0 \in 0..MaxConsecutiveErrors /\ Interval \in Interval..MaxInterval /\ 0 \in 0..MaxEvents
  BY GarbageCollectionAssumption
<1>6. IsPinSet(file.pins)  BY EmptySound, PinMapType DEF Init, Whole, Sound
<1>7. \A o \in Operator : IsPinSet(cmd[o].pins) /\ cmd[o].hash = NoBlob
  BY EmptySound, PinMapType DEF Init, NoCommand, Sound
<1>8. TypeOK
  BY <1>1, <1>3, <1>4, <1>5, <1>6, <1>7, NoCommandType DEF TypeOK, Sweeps, Init
<1> QED  BY <1>2, <1>8 DEF TypeInv

-----------------------------------------------------------------------------
(* Types.                                                                  *)

\* What a step that is not a pin command leaves of the pins.
LEMMA CommandsStay ==
    ASSUME CommandsOK, UNCHANGED <<file, cmd, held>>
    PROVE  CommandsOK'
BY DEF CommandsOK

\* The events are counted up to their bound.
LEMMA Counted ==
    ASSUME TypeInv, NEW n \in Nat, Happens(n)
    PROVE  events' \in 0..MaxEvents
BY GarbageCollectionAssumption DEF Happens, TypeInv, TypeOK

\* Reading a file counts as an event when it fails.
LEMMA ErrorCount == \A io \in Io : Errors(io) \in Nat
BY DEF Errors

\* A command that has loaded and changed its copy of the pins keeps the types.
LEMMA PrepareTypes ==
    ASSUME TypeInv, NEW o \in Operator, NEW op \in {"add", "rm", "gc"}, NEW h \in Hash \cup {NoBlob},
           NEW pins, Sound(pins), op = "add" => h \in Blob, NEW careful, NEW io \in Io, Prepare(o, io, op, h, pins, careful),
           events' \in 0..MaxEvents
    PROVE  TypeInv'
<1> DEFINE c == [pc |-> "open", op |-> op, hash |-> h, pins |-> pins]
<1>1. c \in Commands /\ c.pins = pins /\ c.op = op /\ c.hash = h  BY DEF Commands, Sound
<1>2. cmd' = [cmd EXCEPT ![o] = c]  BY DEF Prepare
<1> HIDE DEF c
<1>3. cmd' \in [Operator -> Commands]  BY <1>1, <1>2 DEF TypeInv, CommandsOK
<1>4. \A q \in Operator : cmd'[q] = c \/ cmd'[q] = cmd[q]  BY <1>2 DEF TypeInv, CommandsOK
<1>5. held' \subseteq held /\ UNCHANGED <<file, store, col, loop>>  BY DEF Prepare
<1>6. CommandsOK'  BY <1>1, <1>3, <1>4, <1>5 DEF TypeInv, CommandsOK
<1>7. calm' \in BOOLEAN  BY DEF Prepare
<1>8. StoreTypeOK'  BY <1>5 DEF TypeInv, TypeOK, StoreTypeOK, store
<1> QED  BY <1>5, <1>6, <1>7, <1>8, TypeFrom DEF TypeInv, TypeOK, Sweeps, loop

\* So do pin add, pin rm and pin gc.
LEMMA PinTypes ==
    ASSUME TypeInv, NEW o \in Operator, PinCommand(o)
    PROVE  TypeInv'
<1> SUFFICES ASSUME NEW io \in Io,
                    \/ \E h \in Blob, recursive \in BOOLEAN, meta \in Io \ {"unseen"} :
                           PinAdd(o, io, h, recursive, meta)
                    \/ \E h \in Hash : PinRm(o, io, h)
                    \/ PinGc(o, io)
             PROVE  TypeInv'
  BY DEF PinCommand
<1>0. Sound(Loaded(io))  BY LoadedSound
<1>1. ASSUME NEW h \in Blob, NEW recursive \in BOOLEAN, NEW meta \in Io,
             PinAdd(o, io, h, recursive, meta)
      PROVE  TypeInv'
  <2> DEFINE children == Descendants(h, recursive, meta)
             pins == Add(AddChunks(Loaded(io), children), h, recursive, children)
  <2>1. children \in SUBSET ChunksOf[h]  BY DEF Descendants
  <2>2. PICK careful : Prepare(o, io, "add", h, pins, careful)  BY <1>1 DEF PinAdd
  <2>3. Sound(pins)
    <3> HIDE DEF children
    <3> QED  BY <1>0, <2>1, AddKeeps
  <2>4. h \in Hash \cup {NoBlob}  BY BlobStoreAssumption
  <2>5. events' \in 0..MaxEvents  BY <1>1, ErrorCount, Counted DEF PinAdd
  <2> HIDE DEF pins
  <2> QED  BY <2>2, <2>3, <2>4, <2>5, PrepareTypes
<1>2. ASSUME NEW h \in Hash, PinRm(o, io, h)  PROVE TypeInv'
  <2> DEFINE pins == Remove(Loaded(io), h)
  <2>1. Sound(pins)  BY <1>0, WithoutSound DEF Remove
  <2>2. PICK careful : Prepare(o, io, "rm", h, pins, careful)  BY <1>2 DEF PinRm
  <2>3. events' \in 0..MaxEvents  BY <1>2, ErrorCount, Counted DEF PinRm
  <2> HIDE DEF pins
  <2> QED  BY <2>1, <2>2, <2>3, PrepareTypes
<1>3. ASSUME PinGc(o, io)  PROVE TypeInv'
  <2> DEFINE pins == SweepOrphanChunks(Loaded(io))
  <2>1. Sound(pins)  BY <1>0, GcKeeps
  <2>2. Prepare(o, io, "gc", NoBlob, pins, TRUE)  BY <1>3 DEF PinGc
  <2>3. events' \in 0..MaxEvents  BY <1>3, ErrorCount, Counted DEF PinGc
  <2> HIDE DEF pins
  <2> QED  BY <2>1, <2>2, <2>3, PrepareTypes
<1> QED  BY <1>1, <1>2, <1>3

\* So do the steps of PinSet::save, and a kill in the middle of it.
LEMMA SaveTypes ==
    ASSUME TypeInv, NEW o \in Operator, SaveOpen(o) \/ SaveSome(o) \/ SaveRest(o) \/ Kill(o)
    PROVE  TypeInv'
<1>0. CommandsOK /\ cmd \in [Operator -> Commands] /\ cmd[o] \in Commands
  BY DEF TypeInv, CommandsOK
<1>1. UNCHANGED <<store, col, loop>>
  BY DEF SaveOpen, SaveSome, SaveRest, Kill
<1>2. StoreTypeOK'  BY <1>1 DEF TypeInv, TypeOK, StoreTypeOK, store
<1>3. events' \in 0..MaxEvents /\ calm' \in BOOLEAN
  <2>1. events' = events \/ Happens(1)
    BY DEF SaveOpen, SaveSome, SaveRest, Kill, Event
  <2>2. events' \in 0..MaxEvents
    BY <2>1, Counted DEF TypeInv, TypeOK
  <2>3. calm' = calm \/ calm' = (calm /\ cmd[o].pc # "write")
    BY DEF SaveOpen, SaveSome, SaveRest, Kill, ghosts
  <2>4. calm' \in BOOLEAN  BY <2>3 DEF TypeInv, TypeOK
  <2> QED  BY <2>2, <2>4
<1>4. /\ file'.state \in {"whole", "empty", "partial"}
      /\ file'.pins \in {file.pins, Empty, cmd[o].pins}
  BY DEF SaveOpen, SaveSome, SaveRest, Kill, Whole, Truncated, Partial, TypeInv, TypeOK
<1>5. Sound(file'.pins)  BY <1>0, <1>4, EmptySound DEF CommandsOK
<1>6. /\ cmd' \in [Operator -> Commands]
      /\ \A q \in Operator : \/ cmd'[q] = NoCommand
                             \/ /\ cmd'[q].pins = cmd[q].pins /\ cmd'[q].op = cmd[q].op
                                /\ cmd'[q].hash = cmd[q].hash
  <2>1. CASE SaveOpen(o)
    <3>1. cmd' = [cmd EXCEPT ![o].pc = "write"]  BY <2>1 DEF SaveOpen
    <3>2. [cmd[o] EXCEPT !.pc = "write"] \in Commands  BY <1>0 DEF Commands
    <3> QED  BY <1>0, <3>1, <3>2 DEF Commands
  <2>2. CASE SaveSome(o)  BY <1>0, <2>2 DEF SaveSome
  <2>3. CASE SaveRest(o) \/ Kill(o)
    <3>1. cmd' = [cmd EXCEPT ![o] = NoCommand]  BY <2>3 DEF SaveRest, Kill
    <3>2. cmd' \in [Operator -> Commands]  BY <1>0, <3>1, NoCommandType
    <3>3. \A q \in Operator : cmd'[q] = NoCommand \/ cmd'[q] = cmd[q]  BY <1>0, <3>1
    <3> QED  BY <3>2, <3>3
  <2> QED  BY <2>1, <2>2, <2>3
<1>7. held' \subseteq Blob
  BY <1>0 DEF SaveOpen, SaveSome, SaveRest, Kill, CommandsOK, ghosts
<1>8. CommandsOK'
  BY <1>0, <1>5, <1>6, <1>7, EmptySound, NoCommandType DEF CommandsOK
<1> QED  BY <1>1, <1>2, <1>3, <1>4, <1>8, TypeFrom DEF TypeInv, TypeOK, Sweeps, loop

\* The backed-off interval is never below the one before.
LEMMA Longer ==
    ASSUME NEW m \in Nat, NEW n \in Nat \ {0}
    PROVE  m * n \in Nat /\ m * n >= m
<1>1. PICK k \in Nat : n = k + 1
  <2>1. n - 1 \in Nat /\ n = (n - 1) + 1  OBVIOUS
  <2> QED  BY <2>1
<1>2. m * k \in Nat  BY <1>1
<1>3. m * (k + 1) = m * k + m  BY <1>1
<1> QED  BY <1>1, <1>2, <1>3

\* The end of a turn of run_loop keeps errors and interval within their limits.
LEMMA ReportTypes ==
    ASSUME TypeInv, NEW failed \in BOOLEAN, Report(failed)
    PROVE  /\ phase' \in {"refused", "sleep", "exited"}
           /\ errs' \in 0..MaxConsecutiveErrors
           /\ interval' \in Interval..MaxInterval
           /\ UNCHANGED <<stop, closer>>
<1> DEFINE count == IF failed THEN (IF errs < MaxConsecutiveErrors THEN errs + 1 ELSE errs) ELSE 0
           longer == interval * BackoffFactor
<1>0. /\ errs \in 0..MaxConsecutiveErrors /\ interval \in Interval..MaxInterval
      /\ MaxConsecutiveErrors \in Nat /\ Interval \in Nat /\ MaxInterval \in Nat
      /\ BackoffFactor \in Nat \ {0}
  BY GarbageCollectionAssumption DEF TypeInv, TypeOK
<1>1. count \in 0..MaxConsecutiveErrors  BY <1>0
<1>2. longer \in Nat /\ longer >= interval
  <2>1. interval \in Nat  BY <1>0
  <2> QED  BY <1>0, <2>1, Longer
<1>3. CASE phase = "starting"  BY <1>0, <1>3 DEF Report
<1>4. CASE phase # "starting"
  <2>1. /\ phase' \in {"sleep", "exited"} /\ errs' = count /\ UNCHANGED <<stop, closer>>
        /\ interval' = interval \/ interval' = (IF longer < MaxInterval THEN longer ELSE MaxInterval)
    BY <1>4 DEF Report
  <2> HIDE DEF count, longer
  <2>2. interval' \in Interval..MaxInterval  BY <1>0, <1>2, <2>1
  <2> QED  BY <1>1, <2>1, <2>2
<1> QED  BY <1>3, <1>4

\* A sweep ends: the collector is idle again, and the loop has its next state.
LEMMA SweepEndTypes ==
    ASSUME TypeInv, NEW c \in Collector, NEW failed \in BOOLEAN, SweepEnds(c, failed)
    PROVE  /\ col' \in [Collector -> Sweeps] /\ col'[c] = NoSweep
           /\ \A d \in Collector \ {c} : col'[d] = col[d]
           /\ phase' = phase \/ (c = "node" /\ phase' \in {"refused", "sleep", "exited"})
           /\ phase' \in {"starting", "refused", "sleep", "sweep", "exited"}
           /\ errs' \in 0..MaxConsecutiveErrors
           /\ interval' \in Interval..MaxInterval
           /\ UNCHANGED <<stop, closer>>
<1>0. col \in [Collector -> Sweeps]  BY DEF TypeInv, TypeOK, Sweeps
<1>1. col' = [col EXCEPT ![c] = NoSweep]  BY DEF SweepEnds
<1>2. /\ col' \in [Collector -> Sweeps] /\ col'[c] = NoSweep
      /\ \A d \in Collector \ {c} : col'[d] = col[d]
  BY <1>0, <1>1, NoSweepType
<1>3. CASE c = "node"
  <2>1. Report(failed)  BY <1>3 DEF SweepEnds
  <2> QED  BY <1>2, <1>3, <2>1, ReportTypes
<1>4. CASE c # "node"
  <2>1. UNCHANGED loop  BY <1>4 DEF SweepEnds
  <2> QED  BY <1>2, <2>1 DEF TypeInv, TypeOK, loop
<1> QED  BY <1>3, <1>4

\* What Load leaves in a collector that goes on.
SweepWith(pins, shield) == [NoSweep EXCEPT !.pc = "list", !.pins = pins, !.shield = shield]

\* A sweep that has loaded its pins.
LEMMA LoadedSweep ==
    ASSUME TypeInv, NEW pins \in SUBSET Hash, NEW shield \in SUBSET Hash
    PROVE  SweepWith(pins, shield) \in Sweeps
BY DEF SweepWith, NoSweep, Sweeps

\* The steps of a sweep, record by record: every collector but c stays as it is.
LEMMA SweepTypes ==
    ASSUME TypeInv, NEW c \in Collector, Sweep(c) \/ ListFails(c) \/ Prune(c)
    PROVE  /\ TypeInv'
           /\ col' \in [Collector -> Sweeps]
           /\ \A d \in Collector \ {c} : col'[d] = col[d]
<1>0. /\ col \in [Collector -> Sweeps] /\ col[c] \in Sweeps /\ StoreTypeOK
      /\ file.state \in {"whole", "empty", "partial"}
      /\ phase \in {"starting", "refused", "sleep", "sweep", "exited"}
      /\ errs \in 0..MaxConsecutiveErrors /\ interval \in Interval..MaxInterval /\ stop \in BOOLEAN
      /\ closer \in [Closer -> {"idle", "join", "joined", "skipped"}]
      /\ calm \in BOOLEAN /\ events \in 0..MaxEvents
  BY DEF TypeInv, TypeOK, Sweeps
<1>1. UNCHANGED <<file, cmd, held>>
  BY DEF Sweep, Load, List, RemoveBegin, Unlink, RmDir, Finish, ListFails, Prune, ghosts
<1>2. CommandsOK'  BY <1>1, CommandsStay DEF TypeInv
<1>3. ASSUME NEW io \in Io, Load(c, io)
      PROVE  /\ TypeInv' /\ col' \in [Collector -> Sweeps]
             /\ \A d \in Collector \ {c} : col'[d] = col[d]
  <2>1. UNCHANGED store /\ events' \in 0..MaxEvents /\ calm' \in BOOLEAN
    BY <1>3, ErrorCount, Counted DEF Load
  <2>2. StoreTypeOK'  BY <1>0, <2>1 DEF StoreTypeOK, store
  <2>3. CASE Loadable(io) \/ c # "node"
    <3>1. col' = [col EXCEPT ![c] = SweepWith(DOMAIN Loaded(io), held)] /\ UNCHANGED loop
      BY <1>3, <2>3 DEF Load, SweepWith
    <3>2. DOMAIN Loaded(io) \in SUBSET Hash /\ held \in SUBSET Hash
      BY LoadedSound, PinMapType, BlobStoreAssumption DEF Sound, TypeInv, CommandsOK
    <3>3. SweepWith(DOMAIN Loaded(io), held) \in Sweeps  BY <3>2, LoadedSweep
    <3>4. col' \in [Collector -> Sweeps] /\ \A d \in Collector \ {c} : col'[d] = col[d]
      BY <1>0, <3>1, <3>3
    <3> QED  BY <1>0, <1>1, <1>2, <2>1, <2>2, <3>1, <3>4, TypeFrom DEF loop
  <2>4. CASE ~(Loadable(io) \/ c # "node")
    <3>1. SweepEnds(c, TRUE)  BY <1>3, <2>4 DEF Load
    <3> QED  BY <1>0, <1>1, <1>2, <2>1, <2>2, <3>1, SweepEndTypes, TypeFrom
  <2> QED  BY <2>3, <2>4
<1>4. CASE List(c)
  <2> DEFINE n == [col[c] EXCEPT !.pc = "remove", !.pins = {}, !.victims = ListComplete \ col[c].pins]
  <2>1. UNCHANGED <<store, loop, ghosts, events>> /\ col' = [col EXCEPT ![c] = n]
    BY <1>0, <1>4 DEF List
  <2>2. n \in Sweeps
    <3>1. ListComplete \ col[c].pins \in SUBSET Blob  BY DEF ListComplete
    <3> QED  BY <1>0, <3>1 DEF Sweeps
  <2> HIDE DEF n
  <2>3. col' \in [Collector -> Sweeps] /\ \A d \in Collector \ {c} : col'[d] = col[d]
    BY <1>0, <2>1, <2>2
  <2>4. StoreTypeOK'  BY <1>0, <2>1 DEF StoreTypeOK, store
  <2> QED  BY <1>0, <1>1, <1>2, <2>1, <2>3, <2>4, TypeFrom DEF loop, ghosts
<1>5. ASSUME NEW b \in Blob, RemoveBegin(c, b)
      PROVE  TypeInv' /\ col' \in [Collector -> Sweeps] /\ \A d \in Collector \ {c} : col'[d] = col[d]
  <2> DEFINE n == [col[c] EXCEPT !.victims = @ \ {b}, !.blob = IF Complete(b) THEN b ELSE NoBlob,
                                 !.todo = IF Complete(b) THEN dir[b] \ {"dir"} ELSE {}]
  <2>1. UNCHANGED <<dir, putting, left, loop, ghosts, events>> /\ col' = [col EXCEPT ![c] = n]
    BY <1>0, <1>5 DEF RemoveBegin
  <2>2. n \in Sweeps
    <3>1. dir[b] \in SUBSET Files  BY <1>0 DEF StoreTypeOK
    <3> QED  BY <1>0, <3>1 DEF Sweeps
  <2> HIDE DEF n
  <2>3. col' \in [Collector -> Sweeps] /\ \A d \in Collector \ {c} : col'[d] = col[d]
    BY <1>0, <2>1, <2>2
  <2>4. StoreTypeOK'  BY <1>0, <1>5, <2>1 DEF StoreTypeOK, RemoveBegin
  <2> QED  BY <1>0, <1>1, <1>2, <2>1, <2>3, <2>4, TypeFrom DEF loop, ghosts
<1>6. CASE Unlink(c)
  <2>1. PICK f \in dir[col[c].blob] \ {"dir"} :
            UnlinkFile(col[c].blob, f) /\ col' = [col EXCEPT ![c].todo = @ \ {f}]
    BY <1>6 DEF Unlink
  <2>2. UNCHANGED <<loop, ghosts, events>> /\ col[c].blob # NoBlob  BY <1>6 DEF Unlink
  <2> DEFINE n == [col[c] EXCEPT !.todo = @ \ {f}]
  <2>3. col' = [col EXCEPT ![c] = n]  BY <1>0, <2>1
  <2>4. n \in Sweeps  BY <1>0 DEF Sweeps
  <2> HIDE DEF n
  <2>5. col' \in [Collector -> Sweeps] /\ \A d \in Collector \ {c} : col'[d] = col[d]
    BY <1>0, <2>3, <2>4
  <2>6. StoreTypeOK'
    <3>1. col[c].blob \in Blob  BY <1>0, <2>2 DEF Sweeps
    <3> QED  BY <1>0, <2>1, <3>1 DEF StoreTypeOK, UnlinkFile
  <2> QED  BY <1>0, <1>1, <1>2, <2>2, <2>5, <2>6, TypeFrom DEF loop, ghosts
<1>7. CASE RmDir(c)
  <2>1. UNCHANGED <<loop, ghosts, events>> /\ col[c].blob # NoBlob
        /\ RemoveDir(col[c].blob, {col[d].blob : d \in Collector \ {c}})
    BY <1>7 DEF RmDir
  <2> DEFINE n == [col[c] EXCEPT !.blob = NoBlob, !.todo = {}]
  <2>2. col' = [col EXCEPT ![c] = n]  BY <1>0, <1>7 DEF RmDir
  <2>3. n \in Sweeps  BY <1>0 DEF Sweeps
  <2> HIDE DEF n
  <2>4. col' \in [Collector -> Sweeps] /\ \A d \in Collector \ {c} : col'[d] = col[d]
    BY <1>0, <2>2, <2>3
  <2>5. StoreTypeOK'
    <3>1. col[c].blob \in Blob  BY <1>0, <2>1 DEF Sweeps
    <3> QED  BY <1>0, <2>1, <3>1 DEF StoreTypeOK, RemoveDir
  <2> QED  BY <1>0, <1>1, <1>2, <2>1, <2>4, <2>5, TypeFrom DEF loop, ghosts
<1>8. CASE Finish(c) \/ ListFails(c)
  <2>1. \E failed \in BOOLEAN : SweepEnds(c, failed)  BY <1>8 DEF Finish, ListFails
  <2>2. UNCHANGED <<store, ghosts>>  BY <1>8 DEF Finish, ListFails
  <2>3. events' \in 0..MaxEvents
    <3>1. events' = events \/ Happens(1)  BY <1>8 DEF Finish, ListFails, Event
    <3> QED  BY <1>0, <3>1, Counted
  <2>4. StoreTypeOK' /\ calm' \in BOOLEAN  BY <1>0, <2>2 DEF StoreTypeOK, store, ghosts
  <2> QED  BY <1>0, <1>1, <1>2, <2>1, <2>3, <2>4, SweepEndTypes, TypeFrom
<1>9. CASE Prune(c)
  <2> DEFINE n == [col[c] EXCEPT !.pc = "load"]
  <2>1. UNCHANGED <<store, loop, ghosts>> /\ col' = [col EXCEPT ![c] = n]  BY <1>0, <1>9 DEF Prune
  <2>2. n \in Sweeps  BY <1>0 DEF Sweeps
  <2> HIDE DEF n
  <2>3. col' \in [Collector -> Sweeps] /\ \A d \in Collector \ {c} : col'[d] = col[d]
    BY <1>0, <2>1, <2>2
  <2>4. events' \in 0..MaxEvents  BY <1>0, <1>9, GarbageCollectionAssumption DEF Prune, Event, Happens
  <2>5. StoreTypeOK'  BY <1>0, <2>1 DEF StoreTypeOK, store
  <2> QED  BY <1>0, <1>1, <1>2, <2>1, <2>3, <2>4, <2>5, TypeFrom DEF loop, ghosts
<1> QED  BY <1>3, <1>4, <1>5, <1>6, <1>7, <1>8, <1>9 DEF Sweep

\* The scheduler's loop, its shutdown and a crash.
LEMMA LoopTypes ==
    ASSUME TypeInv,
           Wake \/ SeeShutdown \/ Crash \/ \E s \in Closer : Shutdown(s) \/ ShutdownReturns(s)
    PROVE  /\ TypeInv'
           /\ col' \in [Collector -> Sweeps]
           /\ \A d \in Pruner : col'[d] = col[d]
<1>0. /\ col \in [Collector -> Sweeps] /\ "node" \in Collector /\ StoreTypeOK
      /\ \A d \in Pruner : d \in Collector /\ d # "node"
      /\ file.state \in {"whole", "empty", "partial"}
      /\ phase \in {"starting", "refused", "sleep", "sweep", "exited"}
      /\ errs \in 0..MaxConsecutiveErrors /\ interval \in Interval..MaxInterval /\ stop \in BOOLEAN
      /\ closer \in [Closer -> {"idle", "join", "joined", "skipped"}]
      /\ calm \in BOOLEAN /\ events \in 0..MaxEvents
  BY GarbageCollectionAssumption DEF TypeInv, TypeOK, Sweeps, Collector
<1>1. UNCHANGED <<file, cmd, held, calm>>
  BY DEF Wake, SeeShutdown, Crash, Shutdown, ShutdownReturns, ghosts
<1>2. CommandsOK'  BY <1>1, CommandsStay DEF TypeInv
<1>3. CASE Wake
  <2> DEFINE n == [col["node"] EXCEPT !.pc = "load"]
  <2>1. col' = [col EXCEPT !["node"] = n] /\ n \in Sweeps  BY <1>0, <1>3 DEF Wake, Sweeps
  <2> HIDE DEF n
  <2>2. col' \in [Collector -> Sweeps] /\ \A d \in Pruner : col'[d] = col[d]  BY <1>0, <2>1
  <2>3. StoreTypeOK'  BY <1>0, <1>3 DEF Wake, StoreTypeOK, store
  <2> QED  BY <1>0, <1>1, <1>2, <1>3, <2>2, <2>3, TypeFrom DEF Wake
<1>4. CASE SeeShutdown
  <2>1. StoreTypeOK'  BY <1>0, <1>4 DEF SeeShutdown, StoreTypeOK, store
  <2> QED  BY <1>0, <1>1, <1>2, <1>4, <2>1, TypeFrom DEF SeeShutdown
<1>5. ASSUME NEW s \in Closer, Shutdown(s) \/ ShutdownReturns(s)
      PROVE  TypeInv' /\ UNCHANGED col
  <2>1. StoreTypeOK'  BY <1>0, <1>5 DEF Shutdown, ShutdownReturns, StoreTypeOK, store
  <2>2. closer' \in [Closer -> {"idle", "join", "joined", "skipped"}]
    BY <1>0, <1>5 DEF Shutdown, ShutdownReturns
  <2>3. UNCHANGED <<col, phase, errs, interval, events>> /\ stop' \in BOOLEAN
    BY <1>0, <1>5 DEF Shutdown, ShutdownReturns
  <2> QED  BY <1>0, <1>1, <1>2, <2>1, <2>2, <2>3, TypeFrom
<1>6. CASE Crash
  <2>1. col' \in [Collector -> Sweeps] /\ \A d \in Pruner : col'[d] = col[d]
    BY <1>0, <1>6, NoSweepType DEF Crash
  <2>2. StoreTypeOK'  BY <1>0, <1>6 DEF Crash, StoreTypeOK
  <2>3. events' \in 0..MaxEvents  BY <1>0, <1>6, GarbageCollectionAssumption DEF Crash, Event, Happens
  <2>4. /\ phase' = "starting" /\ errs' = 0 /\ interval' = Interval /\ stop' = FALSE
        /\ closer' = [s \in Closer |-> "idle"]
    BY <1>6 DEF Crash
  <2>5. errs' \in 0..MaxConsecutiveErrors /\ interval' \in Interval..MaxInterval
    BY <2>4, GarbageCollectionAssumption
  <2> QED  BY <1>0, <1>1, <1>2, <2>1, <2>2, <2>3, <2>4, <2>5, TypeFrom
<1> QED  BY <1>0, <1>3, <1>4, <1>5, <1>6

\* put_bytes_sync.
LEMMA PutTypes ==
    ASSUME TypeInv, NEW p \in Putter, StepPut(p) \/ \E b \in Blob : StartPut(p, b)
    PROVE  TypeInv' /\ UNCHANGED col
<1>0. /\ StoreTypeOK /\ file.state \in {"whole", "empty", "partial"}
      /\ col \in [Collector -> Sweeps]
      /\ phase \in {"starting", "refused", "sleep", "sweep", "exited"}
      /\ errs \in 0..MaxConsecutiveErrors /\ interval \in Interval..MaxInterval /\ stop \in BOOLEAN
      /\ closer \in [Closer -> {"idle", "join", "joined", "skipped"}]
      /\ calm \in BOOLEAN /\ events \in 0..MaxEvents
  BY DEF TypeInv, TypeOK, Sweeps
<1>1. UNCHANGED <<file, cmd, held, calm, col, phase, errs, interval, stop, closer>>
  BY DEF StepPut, StartPut, ghosts, loop
<1>2. CommandsOK'  BY <1>1, CommandsStay DEF TypeInv
<1>3. events' \in 0..MaxEvents
  <2>1. events' = events \/ Happens(1)  BY DEF StepPut, StartPut, Event
  <2> QED  BY <1>0, <2>1, Counted
<1>4. StoreTypeOK'
  <2>1. ASSUME NEW b \in Blob, PutBegin(p, b, Removing)  PROVE StoreTypeOK'
    <3>1. Part(b) \in SUBSET Files  BY BlobStoreAssumption DEF Part, Files
    <3> QED  BY <1>0, <2>1, <3>1 DEF PutBegin, StoreTypeOK, Files
  <2>2. CASE PutWrite(p)
    <3>1. PICK f \in Writable(p) :
              /\ dir' = [dir EXCEPT ![putting[p]] = @ \cup {f}]
              /\ IF f = "complete" THEN PutEnds(p)
                 ELSE left' = [left EXCEPT ![p] = @ \ {f}] /\ UNCHANGED putting
      BY <2>2 DEF PutWrite
    <3>2. f \in Files  BY <1>0, <3>1 DEF Writable, StoreTypeOK
    <3>3. putting[p] \in Blob /\ UNCHANGED contended  BY <1>0, <2>2 DEF PutWrite, StoreTypeOK
    <3> QED  BY <1>0, <3>1, <3>2, <3>3 DEF PutEnds, StoreTypeOK
  <2>3. CASE PutFail(p)  BY <1>0, <2>3 DEF PutFail, PutEnds, StoreTypeOK
  <2> QED  BY <2>1, <2>2, <2>3 DEF StepPut, StartPut
<1> QED  BY <1>0, <1>1, <1>2, <1>3, <1>4, TypeFrom

\* Every step keeps the types.
LEMMA TypeStep == TypeInv /\ [Next]_vars => TypeInv'
<1> SUFFICES ASSUME TypeInv, [Next]_vars PROVE TypeInv'  OBVIOUS
<1>1. CASE UNCHANGED vars
  <2>1. UNCHANGED <<dir, putting, left, contended, file, cmd, col, phase, errs, interval, stop, closer,
                    held, calm, events>>
    BY <1>1 DEF vars, store, loop, ghosts
  <2> QED  BY <2>1, CommandsStay, TypeFrom DEF TypeInv, TypeOK, StoreTypeOK, Sweeps
<1>2. CASE Next  BY <1>2, PinTypes, SaveTypes, SweepTypes, LoopTypes, PutTypes DEF Next
<1> QED  BY <1>1, <1>2

\* The pin file, the commands and the sweeps have their types, and every pin set is sound.
THEOREM TypesKept == Spec => []TypeInv
BY InitTypes, TypeStep, PTL DEF Spec

(* Pin commands, sweeps, puts and the scheduler's loop keep their types; the   *)
(* back-off stays between interval and max_interval however often sweeps fail. *)
THEOREM CollectorTypes == Spec => []TypeOK
<1>1. TypeInv => TypeOK  BY DEF TypeInv
<1> QED  BY <1>1, TypesKept, PTL

-----------------------------------------------------------------------------
(* Shutdown.                                                               *)

\* Between sweeps, and once the loop has ended, the node's collector is idle.
NodeAtRest == phase \in {"refused", "sleep", "exited"} => col["node"] = NoSweep

JoinedAfterExit == (\E s \in Closer : closer[s] = "joined") => phase = "exited"

ShutdownInv == NodeAtRest /\ JoinedAfterExit

\* An idle collector of the node takes no step of a sweep.
LEMMA IdleSweeps ==
    ASSUME col["node"] = NoSweep
    PROVE  ~Sweep("node") /\ ~ListFails("node") /\ ~Prune("node")
<1>1. col["node"].pc = "idle" /\ col["node"].victims = {} /\ col["node"].blob = NoBlob
  BY DEF NoSweep
<1> QED  BY <1>1 DEF Sweep, Load, List, RemoveBegin, Unlink, RmDir, Finish, ListFails, Prune

\* A step of a sweep changes the loop only when the node's sweep ends.
LEMMA SweepLoop ==
    ASSUME TypeInv, NEW c \in Collector, Sweep(c) \/ ListFails(c) \/ Prune(c)
    PROVE  /\ UNCHANGED closer
           /\ \/ UNCHANGED phase
              \/ c = "node" /\ col'["node"] = NoSweep
<1>1. CASE \E failed \in BOOLEAN : SweepEnds(c, failed)  BY <1>1, SweepEndTypes
<1>2. CASE UNCHANGED loop  BY <1>2 DEF loop
<1> QED  BY <1>1, <1>2 DEF Sweep, Load, List, RemoveBegin, Unlink, RmDir, Finish, ListFails, Prune

\* No step lets shutdown return before the scheduler has exited between two sweeps.
LEMMA ShutdownStep == TypeInv /\ ShutdownInv /\ [Next]_vars => ShutdownInv'
<1> SUFFICES ASSUME TypeInv, ShutdownInv, [Next]_vars PROVE ShutdownInv'  OBVIOUS
<1>0. /\ "node" \in Collector /\ col \in [Collector -> Sweeps]
      /\ closer \in [Closer -> {"idle", "join", "joined", "skipped"}]
  BY DEF Collector, TypeInv, TypeOK, Sweeps
<1>1. ASSUME NEW c \in Collector, Sweep(c) \/ ListFails(c) \/ Prune(c)  PROVE ShutdownInv'
  <2>1. UNCHANGED closer /\ (UNCHANGED phase \/ (c = "node" /\ col'["node"] = NoSweep))
    BY <1>1, SweepLoop
  <2>2. CASE c # "node"
    <3>1. col'["node"] = col["node"]  BY <1>0, <1>1, <2>2, SweepTypes
    <3> QED  BY <2>1, <2>2, <3>1 DEF ShutdownInv, NodeAtRest, JoinedAfterExit
  <2>3. CASE c = "node"
    <3>1. col["node"] # NoSweep  BY <1>1, <2>3, IdleSweeps
    <3>2. ~\E s \in Closer : closer[s] = "joined"
      BY <3>1 DEF ShutdownInv, NodeAtRest, JoinedAfterExit
    <3> QED  BY <2>1, <2>3, <3>1, <3>2 DEF ShutdownInv, NodeAtRest, JoinedAfterExit
  <2> QED  BY <2>2, <2>3
<1>2. CASE Wake  BY <1>0, <1>2 DEF Wake, ShutdownInv, NodeAtRest, JoinedAfterExit
<1>3. CASE SeeShutdown  BY <1>3 DEF SeeShutdown, ShutdownInv, NodeAtRest, JoinedAfterExit
<1>4. CASE Crash  BY <1>4 DEF Crash, ShutdownInv, NodeAtRest, JoinedAfterExit
<1>5. ASSUME NEW s \in Closer, Shutdown(s)  PROVE ShutdownInv'
  BY <1>0, <1>5 DEF Shutdown, ShutdownInv, NodeAtRest, JoinedAfterExit
<1>6. ASSUME NEW s \in Closer, ShutdownReturns(s)  PROVE ShutdownInv'
  BY <1>0, <1>6 DEF ShutdownReturns, ShutdownInv, NodeAtRest, JoinedAfterExit
<1>7. CASE UNCHANGED <<col, phase, closer>>
  BY <1>7 DEF ShutdownInv, NodeAtRest, JoinedAfterExit
<1>8. ASSUME NEW o \in Operator,
             PinCommand(o) \/ SaveOpen(o) \/ SaveSome(o) \/ SaveRest(o) \/ Kill(o)
      PROVE  UNCHANGED <<col, phase, closer>>
  BY <1>8 DEF PinCommand, PinAdd, PinRm, PinGc, Prepare, SaveOpen, SaveSome, SaveRest, Kill, loop
<1>9. ASSUME NEW p \in Putter, StepPut(p) \/ \E b \in Blob : StartPut(p, b)
      PROVE  UNCHANGED <<col, phase, closer>>
  BY <1>9 DEF StepPut, StartPut, loop
<1>10. UNCHANGED vars => UNCHANGED <<col, phase, closer>>  BY DEF vars, loop
<1> QED  BY <1>1, <1>2, <1>3, <1>4, <1>5, <1>6, <1>7, <1>8, <1>9, <1>10 DEF Next

(* GcSchedulerHandle::shutdown: when it has returned to the caller that took   *)
(* the join handle, the loop has ended and no sweep of the node is under way,  *)
(* with any number of concurrent shutdown calls and restarts of the node.    *)
THEOREM ShutdownIsFinal == Spec => []ShutdownWaits
<1>1. Init => ShutdownInv  BY DEF Init, ShutdownInv, NodeAtRest, JoinedAfterExit
<1>2. TypeInv /\ ShutdownInv /\ [Next]_vars => ShutdownInv'  BY ShutdownStep
<1>3. ShutdownInv => ShutdownWaits
  BY DEF ShutdownInv, NodeAtRest, JoinedAfterExit, ShutdownWaits
<1> QED  BY <1>1, <1>2, <1>3, TypesKept, PTL DEF Spec

-----------------------------------------------------------------------------
(* Puts.                                                                   *)

\* Whoever removes a directory has marked its blob.
RemovedContended == \A c \in Collector : col[c].blob # NoBlob => col[c].blob \in contended

\* A put that met nobody is alone, has the sentinel still to write, and has
\* written every file of the blob that is not still to come.
PutsAlone ==
    \A p \in Putter : putting[p] \in Blob \ contended =>
        /\ ~Complete(putting[p])
        /\ "complete" \in left[p]
        /\ Part(putting[p]) \subseteq dir[putting[p]] \cup left[p]
        /\ \A q \in Putter : putting[q] = putting[p] => q = p

PutInv == RemovedContended /\ PutsAlone /\ PutsCrashSafe

\* No put is under way when the node starts.
LEMMA InitPuts == Init => PutInv
<1> SUFFICES ASSUME Init PROVE PutInv  OBVIOUS
<1>1. \A c \in Collector : col[c].blob = NoBlob  BY DEF Init, NoSweep
<1>2. RemovedContended  BY <1>1 DEF RemovedContended
<1>3. PutsAlone  BY BlobStoreAssumption DEF Init, StoreInit, PutsAlone
<1>4. PutsCrashSafe  BY DEF Init, StoreInit, PutsCrashSafe
<1> QED  BY <1>2, <1>3, <1>4 DEF PutInv

\* A step on the blob of one removal changes no blob that met nobody.
LEMMA PutInvStep == TypeInv /\ PutInv /\ [Next]_vars => PutInv'
<1> SUFFICES ASSUME TypeInv, PutInv, [Next]_vars PROVE PutInv'  OBVIOUS
<1>0. /\ col \in [Collector -> Sweeps] /\ dir \in [Blob -> SUBSET Files]
      /\ putting \in [Putter -> Blob \cup {NoBlob}] /\ left \in [Putter -> SUBSET Files]
      /\ contended \subseteq Blob /\ NoBlob \notin Blob
  BY BlobStoreAssumption DEF TypeInv, TypeOK, StoreTypeOK, Sweeps
<1>1. RemovedContended /\ PutsAlone /\ PutsCrashSafe  BY DEF PutInv
<1>2. ASSUME NEW p \in Putter, NEW b \in Blob, StartPut(p, b)  PROVE PutInv'
  <2>1. /\ PutBegin(p, b, Removing) /\ UNCHANGED col  BY <1>2 DEF StartPut
  <2>2. /\ dir'[b] = dir[b] \cup {"dir"} /\ \A x \in Blob \ {b} : dir'[x] = dir[x]
        /\ putting'[p] = b /\ left'[p] = Part(b)
        /\ \A q \in Putter \ {p} : putting'[q] = putting[q] /\ left'[q] = left[q]
        /\ "complete" \notin dir[b] /\ putting[p] = NoBlob
    BY <1>0, <2>1 DEF PutBegin, Complete
  <2>3. /\ contended \subseteq contended' /\ contended' \subseteq contended \cup {b}
        /\ b \notin contended' => \A q \in Putter : putting[q] # b
    BY <2>1 DEF PutBegin
  <2>4. RemovedContended'  BY <1>1, <2>1, <2>3 DEF RemovedContended
  <2>5. "complete" \in Part(b)  BY DEF Part
  <2>6. PutsAlone'
    <3> SUFFICES ASSUME NEW q \in Putter, putting'[q] \in Blob \ contended'
                 PROVE  /\ "complete" \notin dir'[putting'[q]] /\ "complete" \in left'[q]
                        /\ Part(putting'[q]) \subseteq dir'[putting'[q]] \cup left'[q]
                        /\ \A r \in Putter : putting'[r] = putting'[q] => r = q
      BY DEF PutsAlone, Complete, Part
    <3>1. CASE q = p  BY <2>2, <2>3, <2>5, <3>1
    <3>2. CASE q # p
      <4>1. putting[q] \in Blob \ contended /\ putting'[q] = putting[q] /\ left'[q] = left[q]
        BY <2>2, <2>3, <3>2
      <4>2. putting[q] # b  BY <2>3, <4>1
      <4> QED  BY <1>1, <2>2, <4>1, <4>2 DEF PutsAlone, Complete
    <3> QED  BY <3>1, <3>2
  <2>7. PutsCrashSafe'
    <3> SUFFICES ASSUME NEW x \in Blob \ contended', "complete" \in dir'[x]
                 PROVE  Part(x) \subseteq dir'[x]
      BY DEF PutsCrashSafe, Complete, Part
    <3> QED  BY <1>1, <2>2, <2>3 DEF PutsCrashSafe, Complete
  <2> QED  BY <2>4, <2>6, <2>7 DEF PutInv
<1>3. ASSUME NEW p \in Putter, PutWrite(p), UNCHANGED col  PROVE PutInv'
  <2> DEFINE b == putting[p]
  <2>1. PICK f \in Writable(p) :
            /\ dir' = [dir EXCEPT ![b] = @ \cup {f}]
            /\ IF f = "complete" THEN PutEnds(p)
               ELSE left' = [left EXCEPT ![p] = @ \ {f}] /\ UNCHANGED putting
    BY <1>3 DEF PutWrite
  <2>2. b \in Blob /\ UNCHANGED contended  BY <1>0, <1>3 DEF PutWrite
  <2>3. dir'[b] = dir[b] \cup {f} /\ \A x \in Blob \ {b} : dir'[x] = dir[x]  BY <1>0, <2>1, <2>2
  <2>4. \A q \in Putter \ {p} : putting'[q] = putting[q] /\ left'[q] = left[q]
    BY <1>0, <2>1 DEF PutEnds
  <2>5. CASE f = "complete"
    <3>1. putting'[p] = NoBlob  BY <1>0, <2>1, <2>5 DEF PutEnds
    <3>2. b \notin contended => left[p] = {"complete"} /\ Part(b) \subseteq dir'[b]
      <4>1. b \notin contended => "complete" \in left[p] /\ Part(b) \subseteq dir[b] \cup left[p]
        BY <1>1, <2>2 DEF PutsAlone
      <4>2. b \notin contended => left[p] = {"complete"}  BY <2>1, <2>5, <4>1 DEF Writable
      <4> QED  BY <2>3, <2>5, <4>1, <4>2
    <3>3. PutsAlone'
      <4> SUFFICES ASSUME NEW q \in Putter, putting'[q] \in Blob \ contended'
                   PROVE  /\ "complete" \notin dir'[putting'[q]] /\ "complete" \in left'[q]
                          /\ Part(putting'[q]) \subseteq dir'[putting'[q]] \cup left'[q]
                          /\ \A r \in Putter : putting'[r] = putting'[q] => r = q
        BY DEF PutsAlone, Complete, Part
      <4>1. q # p /\ putting'[q] = putting[q] /\ left'[q] = left[q] /\ putting[q] \in Blob \ contended
        BY <1>0, <2>2, <2>4, <3>1
      <4>2. putting[q] # b  BY <1>1, <4>1 DEF PutsAlone
      <4> QED  BY <1>0, <1>1, <2>3, <2>4, <3>1, <4>1, <4>2 DEF PutsAlone, Complete
    <3>4. PutsCrashSafe'
      <4> SUFFICES ASSUME NEW x \in Blob \ contended', "complete" \in dir'[x]
                   PROVE  Part(x) \subseteq dir'[x]
        BY DEF PutsCrashSafe, Complete, Part
      <4> QED  BY <1>1, <2>2, <2>3, <3>2 DEF PutsCrashSafe, Complete
    <3> QED  BY <1>1, <1>3, <2>2, <3>3, <3>4 DEF PutInv, RemovedContended
  <2>6. CASE f # "complete"
    <3>1. UNCHANGED putting /\ left'[p] = left[p] \ {f}  BY <1>0, <2>1, <2>6
    <3>2. PutsAlone'
      <4> SUFFICES ASSUME NEW q \in Putter, putting'[q] \in Blob \ contended'
                   PROVE  /\ "complete" \notin dir'[putting'[q]] /\ "complete" \in left'[q]
                          /\ Part(putting'[q]) \subseteq dir'[putting'[q]] \cup left'[q]
                          /\ \A r \in Putter : putting'[r] = putting'[q] => r = q
        BY DEF PutsAlone, Complete, Part
      <4>1. putting[q] \in Blob \ contended  BY <2>2, <3>1
      <4>2. CASE q = p  BY <1>1, <2>3, <2>6, <3>1, <4>1, <4>2 DEF PutsAlone, Complete
      <4>3. CASE q # p
        <5>1. putting[q] # b  BY <1>1, <4>1, <4>3 DEF PutsAlone
        <5> QED  BY <1>1, <2>3, <2>4, <3>1, <4>1, <4>3, <5>1 DEF PutsAlone, Complete
      <4> QED  BY <4>2, <4>3
    <3>3. PutsCrashSafe'
      <4> SUFFICES ASSUME NEW x \in Blob \ contended', "complete" \in dir'[x]
                   PROVE  Part(x) \subseteq dir'[x]
        BY DEF PutsCrashSafe, Complete, Part
      <4> QED  BY <1>1, <2>2, <2>3, <2>6 DEF PutsCrashSafe, Complete
    <3> QED  BY <1>1, <1>3, <2>2, <3>2, <3>3 DEF PutInv, RemovedContended
  <2> QED  BY <2>5, <2>6
<1>4. ASSUME NEW p \in Putter, PutFail(p), UNCHANGED col  PROVE PutInv'
  <2>1. /\ putting'[p] = NoBlob /\ UNCHANGED <<dir, contended>>
        /\ \A q \in Putter \ {p} : putting'[q] = putting[q] /\ left'[q] = left[q]
    BY <1>0, <1>4 DEF PutFail, PutEnds
  <2>2. PutsAlone'
    BY <1>0, <1>1, <2>1 DEF PutsAlone, Complete, Part
  <2> QED  BY <1>1, <1>4, <2>1, <2>2 DEF PutInv, RemovedContended, PutsCrashSafe, Complete, Part
<1>5. CASE Crash
  <2>1. /\ \A p \in Putter : putting'[p] = NoBlob
        /\ UNCHANGED <<dir, contended>>
        /\ \A c \in Collector : col'[c].blob = NoBlob \/ col'[c].blob = col[c].blob
    BY <1>0, <1>5 DEF Crash, NoSweep
  <2>2. PutsAlone'  BY <1>0, <2>1 DEF PutsAlone
  <2>3. RemovedContended'  BY <1>1, <2>1 DEF RemovedContended
  <2> QED  BY <1>1, <2>1, <2>2, <2>3 DEF PutInv, PutsCrashSafe, Complete, Part
<1>6. ASSUME NEW c \in Collector, NEW b \in Blob, RemoveBegin(c, b)  PROVE PutInv'
  <2>1. /\ UNCHANGED <<dir, putting, left>>
        /\ contended \subseteq contended'
        /\ \A d \in Collector \ {c} : col'[d] = col[d]
        /\ col'[c].blob = NoBlob \/ (col'[c].blob = b /\ b \in contended')
    BY <1>0, <1>6 DEF RemoveBegin, Sweeps
  <2>2. RemovedContended'  BY <1>1, <2>1 DEF RemovedContended
  <2>3. PutsAlone'  BY <1>1, <2>1 DEF PutsAlone, Complete, Part
  <2> QED  BY <1>1, <2>1, <2>2, <2>3 DEF PutInv, PutsCrashSafe, Complete, Part
<1>7. ASSUME NEW c \in Collector, Unlink(c)  PROVE PutInv'
  <2> DEFINE b == col[c].blob
  <2>1. /\ \A x \in Blob \ {b} : dir'[x] = dir[x]
        /\ UNCHANGED <<putting, left, contended>>
        /\ \A d \in Collector : col'[d].blob = col[d].blob
    BY <1>0, <1>7 DEF Unlink, UnlinkFile, Sweeps
  <2>2. b \in contended  BY <1>1, <1>7 DEF RemovedContended, Unlink
  <2>3. RemovedContended'  BY <1>1, <2>1 DEF RemovedContended
  <2>4. PutsAlone'  BY <1>1, <2>1, <2>2 DEF PutsAlone, Complete, Part
  <2>5. PutsCrashSafe'  BY <1>1, <2>1, <2>2 DEF PutsCrashSafe, Complete, Part
  <2> QED  BY <2>3, <2>4, <2>5 DEF PutInv
<1>8. ASSUME NEW c \in Collector, RmDir(c)  PROVE PutInv'
  <2> DEFINE b == col[c].blob
  <2>1. /\ RemoveDir(b, {col[d].blob : d \in Collector \ {c}})
        /\ \A d \in Collector \ {c} : col'[d] = col[d]
        /\ col'[c].blob = NoBlob
    BY <1>0, <1>8 DEF RmDir, Sweeps
  <2>2. b \in contended /\ b \in Blob  BY <1>0, <1>1, <1>8 DEF RemovedContended, RmDir
  <2>3. /\ UNCHANGED <<putting, left>> /\ \A x \in Blob \ {b} : dir'[x] = dir[x]
        /\ contended \ {b} \subseteq contended' /\ contended' \subseteq contended
    BY <1>0, <2>1, <2>2 DEF RemoveDir
  <2>4. b \notin contended' => /\ dir'[b] = {}
                               /\ \A p \in Putter : putting[p] # b
                               /\ \A d \in Collector \ {c} : col[d].blob # b
    BY <1>0, <2>1, <2>2 DEF RemoveDir
  <2>5. RemovedContended'  BY <1>1, <2>1, <2>3, <2>4 DEF RemovedContended
  <2>6. PutsAlone'
    <3> SUFFICES ASSUME NEW q \in Putter, putting'[q] \in Blob \ contended'
                 PROVE  /\ "complete" \notin dir'[putting'[q]] /\ "complete" \in left'[q]
                        /\ Part(putting'[q]) \subseteq dir'[putting'[q]] \cup left'[q]
                        /\ \A r \in Putter : putting'[r] = putting'[q] => r = q
      BY DEF PutsAlone, Complete, Part
    <3>1. putting[q] # b  BY <2>3, <2>4
    <3> QED  BY <1>1, <2>3, <3>1 DEF PutsAlone, Complete
  <2>7. PutsCrashSafe'
    <3> SUFFICES ASSUME NEW x \in Blob \ contended', "complete" \in dir'[x]
                 PROVE  Part(x) \subseteq dir'[x]
      BY DEF PutsCrashSafe, Complete, Part
    <3>1. x # b  BY <2>4
    <3> QED  BY <1>1, <2>3, <3>1 DEF PutsCrashSafe, Complete
  <2> QED  BY <2>5, <2>6, <2>7 DEF PutInv
<1>9. CASE UNCHANGED store /\ \A c \in Collector : col'[c].blob \in {col[c].blob, NoBlob}
  <2>1. UNCHANGED <<dir, putting, left, contended>>  BY <1>9 DEF store
  <2>2. RemovedContended'  BY <1>1, <1>9, <2>1 DEF RemovedContended
  <2> QED  BY <1>1, <2>1, <2>2 DEF PutInv, PutsAlone, PutsCrashSafe, Complete, Part
<1>10. ASSUME NEW c \in Collector,
              (\E io \in Io : Load(c, io)) \/ List(c) \/ Finish(c) \/ ListFails(c) \/ Prune(c)
       PROVE  PutInv'
  <2>1. UNCHANGED store  BY <1>10 DEF Load, List, Finish, ListFails, Prune
  <2>2. \A d \in Collector \ {c} : col'[d] = col[d]  BY <1>10, SweepTypes DEF Sweep
  <2>3. col'[c].blob \in {col[c].blob, NoBlob}
    <3>1. CASE List(c) \/ Prune(c)  BY <1>0, <3>1 DEF List, Prune, Sweeps
    <3>2. CASE Finish(c) \/ ListFails(c)
      <4>1. \E failed \in BOOLEAN : SweepEnds(c, failed)  BY <3>2 DEF Finish, ListFails
      <4>2. col'[c] = NoSweep  BY <4>1, SweepEndTypes
      <4> QED  BY <4>2 DEF NoSweep
    <3>3. CASE \E io \in Io : Load(c, io)
      <4>0. PICK io \in Io : Load(c, io)  BY <3>3
      <4>1. \/ col' = [col EXCEPT ![c] = SweepWith(DOMAIN Loaded(io), held)]
            \/ col' = [col EXCEPT ![c] = NoSweep]
        BY <4>0 DEF Load, SweepEnds, SweepWith
      <4>2. SweepWith(DOMAIN Loaded(io), held).blob = NoBlob /\ NoSweep.blob = NoBlob
        BY DEF SweepWith, NoSweep
      <4> QED  BY <1>0, <4>1, <4>2
    <3> QED  BY <1>10, <3>1, <3>2, <3>3
  <2> QED  BY <1>9, <2>1, <2>2, <2>3
<1>11. CASE Wake \/ SeeShutdown \/ \E s \in Closer : Shutdown(s) \/ ShutdownReturns(s)
  <2>1. UNCHANGED store /\ \A c \in Collector : col'[c].blob = col[c].blob
    BY <1>0, <1>11 DEF Wake, SeeShutdown, Shutdown, ShutdownReturns, Sweeps
  <2> QED  BY <1>9, <2>1
<1>12. ASSUME NEW o \in Operator,
             PinCommand(o) \/ SaveOpen(o) \/ SaveSome(o) \/ SaveRest(o) \/ Kill(o)
      PROVE  UNCHANGED <<store, col>>
  BY <1>12 DEF PinCommand, PinAdd, PinRm, PinGc, Prepare, SaveOpen, SaveSome, SaveRest, Kill
<1>13. UNCHANGED <<store, col>> => PutInv'  BY <1>9
<1>14. UNCHANGED vars => UNCHANGED <<store, col>>  BY DEF vars
<1> QED
  BY <1>2, <1>3, <1>4, <1>5, <1>6, <1>7, <1>8, <1>10, <1>11, <1>12, <1>13, <1>14
     DEF Next, Sweep, StepPut

(* put_bytes_sync writes the sentinel last: whatever the number of puts and of  *)
(* sweeps, and wherever the process is killed, a blob on which no two of them    *)
(* met is complete only when all its files are there.                         *)
THEOREM PutsAreCrashSafe == Spec => []PutsCrashSafe
<1>1. Init => PutInv  BY InitPuts
<1>2. TypeInv /\ PutInv /\ [Next]_vars => PutInv'  BY PutInvStep
<1>3. PutInv => PutsCrashSafe  BY DEF PutInv
<1> QED  BY <1>1, <1>2, <1>3, TypesKept, PTL DEF Spec

-----------------------------------------------------------------------------
(* Pins, as long as none of the six ways to lose one has happened.           *)

\* One command at a time.
SoleCommand == \A o, q \in Operator : cmd[o].pc # "idle" /\ cmd[q].pc # "idle" => o = q

\* pin.json is whole unless a command is writing it, and lists what is held.
FileListed ==
    /\ file.state = "whole" <=> \A o \in Operator : cmd[o].pc # "write"
    /\ file.state = "whole" => held \subseteq Kept(file.pins)

Promised(o) == IF cmd[o].op = "add" THEN held \cup {cmd[o].hash} ELSE held

\* The copy that a command will save lists all that will be held then.
CommandListed == \A o \in Operator : cmd[o].pc # "idle" => Promised(o) \subseteq Kept(cmd[o].pins)

\* A sweep spares what was held when it loaded the pins.
SweepSpares ==
    \A c \in Collector :
        /\ col[c].pc = "list" => col[c].shield \subseteq col[c].pins
        /\ col[c].victims \cap col[c].shield = {}
        /\ col[c].blob # NoBlob => col[c].blob \notin col[c].shield

CalmInv == calm => SoleCommand /\ FileListed /\ CommandListed /\ SweepSpares

\* Nothing is pinned and nobody runs when the node starts.
LEMMA InitCalm == Init => CalmInv
<1> SUFFICES ASSUME Init PROVE CalmInv  OBVIOUS
<1>1. \A o \in Operator : cmd[o].pc = "idle"  BY DEF Init, NoCommand
<1>2. file.state = "whole" /\ held = {}  BY DEF Init, Whole
<1>3. \A c \in Collector : col[c].pc # "list" /\ col[c].victims = {} /\ col[c].blob = NoBlob
  BY DEF Init, NoSweep
<1>4. SoleCommand /\ FileListed /\ CommandListed
  BY <1>1, <1>2 DEF SoleCommand, FileListed, CommandListed
<1> QED  BY <1>3, <1>4 DEF CalmInv, SweepSpares

\* A command starts, with a copy that lists what was held and, for an add, the blob.
LEMMA PrepareCalm ==
    ASSUME TypeInv, CalmInv, calm', NEW o \in Operator, NEW op \in {"add", "rm", "gc"},
           NEW h, NEW pins, NEW careful, NEW io \in Io, Prepare(o, io, op, h, pins, careful),
           held' \cup (IF op = "add" THEN {h} ELSE {}) \subseteq Kept(pins)
    PROVE  CalmInv'
<1> DEFINE c == [pc |-> "open", op |-> op, hash |-> h, pins |-> pins]
<1>0. cmd \in [Operator -> Commands] /\ CommandsOK  BY DEF TypeInv, CommandsOK
<1>1. /\ calm /\ file.state = "whole" /\ \A q \in Operator : cmd[q].pc = "idle"
      /\ cmd' = [cmd EXCEPT ![o] = c] /\ UNCHANGED <<file, col>> /\ held' \subseteq held
  BY DEF Prepare
<1>2. c.pc = "open" /\ c.op = op /\ c.hash = h /\ c.pins = pins  OBVIOUS
<1> HIDE DEF c
<1>3. cmd'[o] = c /\ \A q \in Operator \ {o} : cmd'[q] = cmd[q]  BY <1>0, <1>1
<1>4. SoleCommand'  BY <1>1, <1>3 DEF SoleCommand
<1>5. FileListed'
  <2>1. held' \subseteq Kept(file.pins)  BY <1>1 DEF CalmInv, FileListed
  <2>2. \A q \in Operator : cmd'[q].pc # "write"  BY <1>1, <1>2, <1>3
  <2> QED  BY <1>1, <2>1, <2>2 DEF FileListed, Kept, OrphanChunks
<1>6. CommandListed'
  <2>1. Promised(o)' = held' \cup (IF op = "add" THEN {h} ELSE {})  BY <1>2, <1>3 DEF Promised
  <2>2. Promised(o)' \subseteq Kept(cmd'[o].pins)  BY <1>2, <1>3, <2>1
  <2> QED  BY <1>1, <1>3, <2>2 DEF CommandListed, Kept, OrphanChunks
<1>7. SweepSpares'  BY <1>1 DEF CalmInv, SweepSpares
<1> QED  BY <1>4, <1>5, <1>6, <1>7 DEF CalmInv

\* A calm pin add, pin rm or pin gc keeps in its copy what it has to.
LEMMA PinCalm ==
    ASSUME TypeInv, CalmInv, calm', NEW o \in Operator, PinCommand(o)
    PROVE  CalmInv'
<1> SUFFICES ASSUME NEW io \in Io,
                    \/ \E h \in Blob, recursive \in BOOLEAN, meta \in Io \ {"unseen"} :
                           PinAdd(o, io, h, recursive, meta)
                    \/ \E h \in Hash : PinRm(o, io, h)
                    \/ PinGc(o, io)
             PROVE  CalmInv'
  BY DEF PinCommand
<1>0. Sound(Loaded(io))  BY LoadedSound
<1>1. ASSUME NEW h, NEW op, NEW pins, NEW careful, Prepare(o, io, op, h, pins, careful)
      PROVE  /\ careful /\ held \subseteq Kept(Loaded(io))
             /\ held' = IF op = "rm" THEN held \ {h} ELSE held
  BY <1>1 DEF Prepare, Loaded, CalmInv, FileListed
<1>2. ASSUME NEW h \in Blob, NEW recursive \in BOOLEAN, NEW meta \in Io,
             PinAdd(o, io, h, recursive, meta)
      PROVE  CalmInv'
  <2> DEFINE children == Descendants(h, recursive, meta)
             pins == Add(AddChunks(Loaded(io), children), h, recursive, children)
             careful == h \notin children \cup OrphanChunks(Loaded(io))
  <2>1. children \in SUBSET ChunksOf[h]  BY DEF Descendants
  <2>2. Prepare(o, io, "add", h, pins, careful)  BY <1>2 DEF PinAdd
  <2>3. Kept(Loaded(io)) \subseteq Kept(pins) /\ (careful => h \in Kept(pins))
    <3> HIDE DEF children
    <3> QED  BY <1>0, <2>1, AddKeeps
  <2> HIDE DEF pins, careful
  <2>4. careful /\ held \subseteq Kept(Loaded(io)) /\ held' = held  BY <1>1, <2>2
  <2> QED  BY <2>2, <2>3, <2>4, PrepareCalm
<1>3. ASSUME NEW h \in Hash, PinRm(o, io, h)  PROVE CalmInv'
  <2> DEFINE pins == Remove(Loaded(io), h)
             careful == Loaded(io)[h].descendants \cap held = {}
  <2>1. Prepare(o, io, "rm", h, pins, careful) /\ h \in DOMAIN Loaded(io)  BY <1>3 DEF PinRm
  <2>2. careful /\ held \subseteq Kept(Loaded(io)) /\ held' = held \ {h}
    <3> HIDE DEF pins, careful
    <3> QED  BY <1>1, <2>1
  <2>3. held \ {h} \subseteq Kept(pins)  BY <1>0, <2>1, <2>2, RemoveKeeps
  <2> HIDE DEF pins, careful
  <2> QED  BY <2>1, <2>2, <2>3, PrepareCalm
<1>4. ASSUME PinGc(o, io)  PROVE CalmInv'
  <2> DEFINE pins == SweepOrphanChunks(Loaded(io))
  <2>1. Kept(Loaded(io)) \subseteq Kept(pins)  BY <1>0, GcKeeps
  <2>2. Prepare(o, io, "gc", NoBlob, pins, TRUE)  BY <1>4 DEF PinGc
  <2> HIDE DEF pins
  <2>3. held \subseteq Kept(Loaded(io)) /\ held' = held
    BY <2>2 DEF Prepare, Loaded, CalmInv, FileListed
  <2> QED  BY <2>1, <2>2, <2>3, PrepareCalm
<1> QED  BY <1>2, <1>3, <1>4

\* A calm save writes to the file what the command promised.
LEMMA SaveCalm ==
    ASSUME TypeInv, CalmInv, calm', NEW o \in Operator,
           SaveOpen(o) \/ SaveSome(o) \/ SaveRest(o) \/ Kill(o)
    PROVE  CalmInv'
<1>0. cmd \in [Operator -> Commands]  BY DEF TypeInv, CommandsOK
<1>1. calm /\ UNCHANGED col /\ cmd[o].pc # "idle"
  BY DEF SaveOpen, SaveSome, SaveRest, Kill, ghosts
<1>2. SoleCommand /\ FileListed /\ CommandListed /\ SweepSpares  BY <1>1 DEF CalmInv
<1>3. \A q \in Operator \ {o} : cmd[q].pc = "idle"  BY <1>1, <1>2 DEF SoleCommand
<1>4. SweepSpares'  BY <1>1, <1>2 DEF SweepSpares
<1>5. CASE SaveOpen(o)
  <2>1. /\ cmd'[o].pc = "write" /\ cmd'[o].op = cmd[o].op /\ cmd'[o].hash = cmd[o].hash
        /\ cmd'[o].pins = cmd[o].pins
        /\ \A q \in Operator \ {o} : cmd'[q] = cmd[q]
    BY <1>0, <1>5 DEF SaveOpen, Commands
  <2>2. file'.state = "empty" /\ held' = held  BY <1>5 DEF SaveOpen, Truncated, ghosts
  <2>3. SoleCommand' /\ FileListed'  BY <1>3, <2>1, <2>2 DEF SoleCommand, FileListed
  <2>4. CommandListed'
    BY <1>1, <1>2, <1>3, <2>1, <2>2 DEF CommandListed, Promised, Kept, OrphanChunks
  <2> QED  BY <1>4, <2>3, <2>4 DEF CalmInv
<1>6. CASE SaveSome(o)
  <2>1. UNCHANGED <<cmd, held>> /\ file'.state = "partial" /\ cmd[o].pc = "write"
    BY <1>6 DEF SaveSome, Partial, ghosts
  <2>2. FileListed'  BY <2>1 DEF FileListed
  <2>3. SoleCommand' /\ CommandListed'
    BY <1>2, <2>1 DEF SoleCommand, CommandListed, Promised, Kept, OrphanChunks
  <2> QED  BY <1>4, <2>2, <2>3 DEF CalmInv
<1>7. CASE SaveRest(o)
  <2>1. cmd[o].pc = "write" /\ file.state # "whole"  BY <1>2, <1>7 DEF SaveRest, FileListed
  <2>2. /\ file'.state = "whole" /\ file'.pins = cmd[o].pins
        /\ \A q \in Operator : cmd'[q].pc = "idle"
        /\ held' = Promised(o)
    BY <1>0, <1>3, <1>7, <2>1 DEF SaveRest, Whole, NoCommand, Promised
  <2>3. held' \subseteq Kept(file'.pins)  BY <1>1, <1>2, <2>2 DEF CommandListed
  <2>4. FileListed'  BY <2>2, <2>3 DEF FileListed, Kept, OrphanChunks
  <2>5. SoleCommand' /\ CommandListed'  BY <2>2 DEF SoleCommand, CommandListed
  <2> QED  BY <1>4, <2>4, <2>5 DEF CalmInv
<1>8. CASE Kill(o)
  <2>1. /\ cmd[o].pc # "write" /\ UNCHANGED <<file, held>>
        /\ \A q \in Operator : cmd'[q].pc = "idle"
    BY <1>0, <1>3, <1>8 DEF Kill, NoCommand
  <2>2. FileListed'  BY <1>2, <1>3, <2>1 DEF FileListed, Kept, OrphanChunks
  <2>3. SoleCommand' /\ CommandListed'  BY <2>1 DEF SoleCommand, CommandListed
  <2> QED  BY <1>4, <2>2, <2>3 DEF CalmInv
<1> QED  BY <1>5, <1>6, <1>7, <1>8

\* The pins are as they were; the sweeps still spare what they loaded.
LEMMA SparedCalm ==
    ASSUME CalmInv, calm' => calm, UNCHANGED <<file, cmd, held>>, calm' => SweepSpares'
    PROVE  CalmInv'
BY DEF CalmInv, SoleCommand, FileListed, CommandListed, Promised, Kept, OrphanChunks

\* A sweep that loads a calm file spares what is held.
LEMMA SweepCalm ==
    ASSUME TypeInv, CalmInv, calm', NEW c \in Collector, Sweep(c) \/ ListFails(c) \/ Prune(c)
    PROVE  CalmInv'
<1>0. /\ col \in [Collector -> Sweeps] /\ col' \in [Collector -> Sweeps]
      /\ \A d \in Collector \ {c} : col'[d] = col[d]
  BY SweepTypes DEF TypeInv, TypeOK, Sweeps
<1>1. calm /\ UNCHANGED <<file, cmd, held>>
  BY DEF Sweep, Load, List, RemoveBegin, Unlink, RmDir, Finish, ListFails, Prune, ghosts
<1>2. FileListed /\ SweepSpares  BY <1>1 DEF CalmInv
<1> DEFINE Spares(s) == /\ s.pc = "list" => s.shield \subseteq s.pins
                        /\ s.victims \cap s.shield = {}
                        /\ s.blob # NoBlob => s.blob \notin s.shield
<1>3. Spares(NoSweep)  BY DEF NoSweep
<1>4. Spares(col'[c])
  <2>1. CASE \E failed \in BOOLEAN : SweepEnds(c, failed)
    <3>1. col'[c] = NoSweep  BY <2>1, SweepEndTypes
    <3> QED  BY <1>3, <3>1
  <2>2. ASSUME NEW io \in Io, Load(c, io)  PROVE Spares(col'[c])
    <3>1. CASE Loadable(io) \/ c # "node"
      <4>1. file.state = "whole" /\ io = "works"  BY <2>2, <3>1 DEF Load
      <4>2. held \subseteq DOMAIN Loaded(io)  BY <1>2, <4>1 DEF FileListed, Loaded, Kept
      <4>3. col'[c] = SweepWith(DOMAIN Loaded(io), held)  BY <1>0, <2>2, <3>1 DEF Load, SweepWith
      <4>4. /\ col'[c].pins = DOMAIN Loaded(io) /\ col'[c].shield = held
            /\ col'[c].victims = {} /\ col'[c].blob = NoBlob
        BY <4>3 DEF SweepWith, NoSweep
      <4> QED  BY <4>2, <4>4
    <3>2. CASE ~(Loadable(io) \/ c # "node")  BY <2>1, <2>2, <3>2 DEF Load
    <3> QED  BY <3>1, <3>2
  <2>3. CASE List(c)
    <3>1. /\ col[c].pc = "list" /\ col'[c].pc = "remove" /\ col'[c].shield = col[c].shield
          /\ col'[c].blob = col[c].blob /\ col'[c].victims = ListComplete \ col[c].pins
      BY <1>0, <2>3 DEF List, Sweeps
    <3> QED  BY <1>2, <3>1 DEF SweepSpares
  <2>4. ASSUME NEW b \in Blob, RemoveBegin(c, b)  PROVE Spares(col'[c])
    <3>1. /\ b \in col[c].victims /\ col'[c].pc = col[c].pc /\ col'[c].shield = col[c].shield
          /\ col'[c].pins = col[c].pins /\ col'[c].victims = col[c].victims \ {b}
          /\ col'[c].blob = NoBlob \/ col'[c].blob = b
      BY <1>0, <2>4 DEF RemoveBegin, Sweeps
    <3> QED  BY <1>2, <3>1 DEF SweepSpares
  <2>5. CASE Unlink(c)
    <3>1. /\ col'[c].pc = col[c].pc /\ col'[c].shield = col[c].shield /\ col'[c].pins = col[c].pins
          /\ col'[c].victims = col[c].victims /\ col'[c].blob = col[c].blob
      BY <1>0, <2>5 DEF Unlink, Sweeps
    <3> QED  BY <1>2, <3>1 DEF SweepSpares
  <2>6. CASE RmDir(c)
    <3>1. /\ col'[c].pc = col[c].pc /\ col'[c].shield = col[c].shield /\ col'[c].pins = col[c].pins
          /\ col'[c].victims = col[c].victims /\ col'[c].blob = NoBlob
      BY <1>0, <2>6 DEF RmDir, Sweeps
    <3> QED  BY <1>2, <3>1 DEF SweepSpares
  <2>7. CASE Prune(c)
    <3>1. /\ col'[c].pc = "load" /\ col'[c].shield = col[c].shield
          /\ col'[c].victims = col[c].victims /\ col'[c].blob = col[c].blob
      BY <1>0, <2>7 DEF Prune, Sweeps
    <3> QED  BY <1>2, <3>1 DEF SweepSpares
  <2>8. Finish(c) \/ ListFails(c) => \E failed \in BOOLEAN : SweepEnds(c, failed)
    BY DEF Finish, ListFails
  <2> QED  BY <2>1, <2>2, <2>3, <2>4, <2>5, <2>6, <2>7, <2>8 DEF Sweep
<1>5. SweepSpares'  BY <1>0, <1>2, <1>4 DEF SweepSpares
<1> QED  BY <1>1, <1>5, SparedCalm

\* Every calm step preserves what CalmKeepsPins rests on.
LEMMA CalmStep == TypeInv /\ CalmInv /\ [Next]_vars => CalmInv'
<1> SUFFICES ASSUME TypeInv, CalmInv, [Next]_vars, calm' PROVE CalmInv'  BY DEF CalmInv
<1>0. col \in [Collector -> Sweeps] /\ "node" \in Collector
  BY DEF TypeInv, TypeOK, Sweeps, Collector
<1>1. CASE UNCHANGED <<file, cmd, col, held, calm>>
  BY <1>1, SparedCalm DEF CalmInv, SweepSpares
<1>2. CASE Wake
  <2>1. UNCHANGED <<file, cmd, held, calm>>  BY <1>2 DEF Wake, ghosts
  <2>2. /\ col'["node"].pc = "load" /\ col'["node"].shield = col["node"].shield
        /\ col'["node"].victims = col["node"].victims /\ col'["node"].blob = col["node"].blob
        /\ \A d \in Collector \ {"node"} : col'[d] = col[d]
    BY <1>0, <1>2 DEF Wake, Sweeps
  <2>3. calm' => SweepSpares'  BY <2>1, <2>2 DEF CalmInv, SweepSpares
  <2> QED  BY <2>1, <2>3, SparedCalm
<1>3. CASE Crash
  <2>1. UNCHANGED <<file, cmd, held, calm>>  BY <1>3 DEF Crash, ghosts
  <2>2. /\ col'["node"].pc = "load" /\ col'["node"].victims = {} /\ col'["node"].blob = NoBlob
        /\ \A d \in Collector \ {"node"} : col'[d] = col[d]
    BY <1>0, <1>3 DEF Crash, NoSweep
  <2>3. calm' => SweepSpares'  BY <2>1, <2>2 DEF CalmInv, SweepSpares
  <2> QED  BY <2>1, <2>3, SparedCalm
<1>4. SeeShutdown \/ (\E s \in Closer : Shutdown(s) \/ ShutdownReturns(s)) =>
          UNCHANGED <<file, cmd, col, held, calm>>
  BY DEF SeeShutdown, Shutdown, ShutdownReturns, ghosts
<1>5. (\E p \in Putter : StepPut(p) \/ \E b \in Blob : StartPut(p, b)) =>
          UNCHANGED <<file, cmd, col, held, calm>>
  BY DEF StepPut, StartPut, ghosts
<1>6. UNCHANGED vars => UNCHANGED <<file, cmd, col, held, calm>>  BY DEF vars, ghosts
<1> QED  BY <1>1, <1>2, <1>3, <1>4, <1>5, <1>6, PinCalm, SaveCalm, SweepCalm DEF Next

(* A pin outlives everything but the six ways to lose one, an I/O error that    *)
(* PinSet::load takes for an empty set among them: for every number             *)
(* of blobs, chunks, operators, pruners and putters, and any sequence of pin     *)
(* adds, removals and gcs, pin.json lists every blob whose pin add returned,     *)
(* and no sweep deletes one that was held when it loaded the pins.            *)
THEOREM CalmPins == Spec => []CalmKeepsPins
<1>1. Init => CalmInv  BY InitCalm
<1>2. TypeInv /\ CalmInv /\ [Next]_vars => CalmInv'  BY CalmStep
<1>3. TypeInv /\ CalmInv => CalmKeepsPins
  <2> SUFFICES ASSUME TypeInv, CalmInv, calm
               PROVE  (file.state = "whole" => held \subseteq DOMAIN file.pins) /\ PinsHonoured
    BY DEF CalmKeepsPins
  <2>1. file.state = "whole" => held \subseteq DOMAIN file.pins  BY DEF CalmInv, FileListed, Kept
  <2>2. NoBlob \notin held  BY BlobStoreAssumption DEF TypeInv, CommandsOK
  <2>3. PinsHonoured  BY <2>2 DEF CalmInv, SweepSpares, PinsHonoured
  <2> QED  BY <2>1, <2>3
<1> QED  BY <1>1, <1>2, <1>3, TypesKept, PTL DEF Spec
=============================================================================
