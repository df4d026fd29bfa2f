------------------------- MODULE GarbageCollection --------------------------
(***************************************************************************)
(* Pins and garbage collection of the blob store: the pin commands of the  *)
(* CLI (load pin.json, change it, write it back), the node's GcScheduler,  *)
(* whose sweeps load the pins and then delete what they do not list, and   *)
(* `repo gc --prune-unpinned` run beside it.                               *)
(*                                                                         *)
(* pin.json is saved by fs::write, which truncates the file and then       *)
(* writes it, so others may find it empty or cut short.  An empty file     *)
(* loads as an empty set; one that does not parse is an error to the pin   *)
(* commands and the scheduler, and an empty set to repo gc.                *)
(***************************************************************************)
EXTENDS BlobStore, Integers

CONSTANTS Operator,    \* processes that run pin commands
          Pruner,      \* processes that run repo gc --prune-unpinned
          Closer,      \* tasks that call GcSchedulerHandle::shutdown
          Interval,    \* GcSchedulerConfig
          MaxInterval,
          MaxConsecutiveErrors,
          BackoffFactor,
          Failing,     \* the ways in which reading pin.json may fail, see Io
          MaxEvents    \* bound on what happens to the node: pin commands, puts,
                       \* prunes, kills, crashes and failing reads, in any mix

ASSUME GarbageCollectionAssumption ==
    /\ "node" \notin Pruner
    /\ Interval \in Nat /\ MaxInterval \in Nat /\ Interval <= MaxInterval
    /\ MaxConsecutiveErrors \in Nat
    /\ BackoffFactor \in Nat \ {0}
    /\ Failing \subseteq {"unseen", "unread"}
    /\ MaxEvents \in Nat

VARIABLES file,       \* pin.json: whole with its entries, empty, or partly written
          cmd,        \* the pin command of each operator
          col,        \* each collector: the scheduler's sweep and the prunes
          phase,      \* the scheduler's loop
          errs,       \* consecutive_errors, counted up to MaxConsecutiveErrors
          interval,   \* current_interval
          stop,       \* the shutdown signal
          closer,     \* the shutdown calls; the first takes the join handle
          held,       \* history: blobs whose pin add returned, with no pin rm since
          calm,       \* history: no event that is known to lose pins, see Prepare
          events      \* counted up to MaxEvents

loop == <<phase, errs, interval, stop, closer>>
ghosts == <<held, calm>>
vars == <<store, file, cmd, col, loop, ghosts, events>>

Collector == Pruner \cup {"node"}
Whole(pins) == [state |-> "whole", pins |-> pins]
Truncated == [state |-> "empty", pins |-> Empty]
Partial == [state |-> "partial", pins |-> Empty]
NoCommand == [pc |-> "idle", op |-> "gc", hash |-> NoBlob, pins |-> Empty]
NoSweep == [pc |-> "idle", pins |-> {}, victims |-> {}, blob |-> NoBlob, todo |-> {}, shield |-> {}]

TypeOK ==
    /\ StoreTypeOK
    /\ file.state \in {"whole", "empty", "partial"} /\ IsPinSet(file.pins)
    /\ \A o \in Operator :
        /\ cmd[o].pc \in {"idle", "open", "write"} /\ cmd[o].op \in {"add", "rm", "gc"}
        /\ cmd[o].hash \in Hash \cup {NoBlob} /\ IsPinSet(cmd[o].pins)
    /\ col \in [Collector -> [pc : {"idle", "load", "list", "remove"}, pins : SUBSET Hash,
                              victims : SUBSET Blob, blob : Blob \cup {NoBlob},
                              todo : SUBSET Files, shield : SUBSET Hash]]
    /\ phase \in {"starting", "refused", "sleep", "sweep", "exited"}
    /\ errs \in 0..MaxConsecutiveErrors
    /\ interval \in Interval..MaxInterval
    /\ stop \in BOOLEAN
    /\ closer \in [Closer -> {"idle", "join", "joined", "skipped"}]
    /\ held \subseteq Hash /\ calm \in BOOLEAN
    /\ events \in 0..MaxEvents

Init ==
    /\ StoreInit
    /\ file = Whole(Empty)
    /\ cmd = [o \in Operator |-> NoCommand]
    /\ col = [c \in Collector |-> IF c = "node" THEN [NoSweep EXCEPT !.pc = "load"] ELSE NoSweep]
    /\ phase = "starting" /\ errs = 0 /\ interval = Interval /\ stop = FALSE
    /\ closer = [s \in Closer |-> "idle"]
    /\ held = {} /\ calm = TRUE
    /\ events = 0

-----------------------------------------------------------------------------
(* The pin commands: run_pin loads, changes a private copy and saves it.    *)

Happens(n) == events + n <= MaxEvents /\ events' = events + n

Event == Happens(1)

\* How the system calls of PinSet::load end: both work; exists() is false, as it is
\* on every error of stat; or fs::read fails.
Io == {"works"} \cup Failing

Errors(io) == IF io = "works" THEN 0 ELSE 1

Loadable(io) == io = "unseen" \/ (io = "works" /\ file.state # "partial")

Loaded(io) == IF io = "works" /\ file.state = "whole" THEN file.pins ELSE Empty

(* Six things lose pins, and calm remembers that none of them happened:     *)
(* two commands overlapped (the later save overwrites the earlier), a load  *)
(* met a save, a load took an I/O error for an empty pin set, a command was *)
(* killed while it wrote, a recursive pin was removed that lists a pinned   *)
(* blob, or a pin was added on a hash that stays a chunk entry of no root   *)
(* (careful): of a blob that is its own chunk, or of a chunk left by a       *)
(* recursive add on a blob that was pinned already.                         *)
Prepare(o, io, op, h, pins, careful) ==
    /\ cmd[o].pc = "idle"
    /\ Loadable(io)
    /\ cmd' = [cmd EXCEPT ![o] = [pc |-> "open", op |-> op, hash |-> h, pins |-> pins]]
    /\ held' = IF op = "rm" THEN held \ {h} ELSE held
    /\ calm' = (/\ calm /\ careful /\ io = "works" /\ file.state = "whole"
                /\ \A q \in Operator : cmd[q].pc = "idle")
    /\ UNCHANGED <<store, file, col, loop>>

\* compute_chunk_descendants: the chunks it can read, none if meta.json cannot be.
Descendants(h, recursive, meta) ==
    IF recursive /\ meta = "works" THEN ChunksOf[h] \cap dir[h] ELSE {}

PinAdd(o, io, h, recursive, meta) ==
    LET children == Descendants(h, recursive, meta) IN
    /\ Happens(1 + Errors(io) + Errors(meta))
    /\ Complete(h)
    /\ Prepare(o, io, "add", h, Add(AddChunks(Loaded(io), children), h, recursive, children),
               h \notin children \cup OrphanChunks(Loaded(io)))

PinRm(o, io, h) ==
    /\ Happens(1 + Errors(io))
    /\ h \in DOMAIN Loaded(io)
    /\ Prepare(o, io, "rm", h, Remove(Loaded(io), h), Loaded(io)[h].descendants \cap held = {})

PinGc(o, io) ==
    /\ Happens(1 + Errors(io))
    /\ Prepare(o, io, "gc", NoBlob, SweepOrphanChunks(Loaded(io)), TRUE)

\* fs::write opens the file with truncation ...
SaveOpen(o) ==
    /\ cmd[o].pc = "open"
    /\ file' = Truncated
    /\ cmd' = [cmd EXCEPT ![o].pc = "write"]
    /\ UNCHANGED <<store, col, loop, ghosts, events>>

\* ... and writes it in one or more pieces.
SaveSome(o) ==
    /\ cmd[o].pc = "write"
    /\ file' = Partial
    /\ UNCHANGED <<store, cmd, col, loop, ghosts, events>>

\* What is left of a longer text that another save wrote meanwhile does not parse.
SaveRest(o) ==
    /\ cmd[o].pc = "write"
    /\ \/ file' = Whole(cmd[o].pins)
       \/ file.state = "whole" /\ file' = Partial
    /\ cmd' = [cmd EXCEPT ![o] = NoCommand]
    /\ held' = IF cmd[o].op = "add" THEN held \cup {cmd[o].hash} ELSE held
    /\ UNCHANGED <<store, col, loop, calm, events>>

\* The command is killed, or its fs::write fails there.
Kill(o) ==
    /\ cmd[o].pc # "idle"
    /\ Event
    /\ cmd' = [cmd EXCEPT ![o] = NoCommand]
    /\ calm' = (calm /\ cmd[o].pc # "write")
    /\ UNCHANGED <<store, file, col, loop, held>>

-----------------------------------------------------------------------------
(* A sweep: load the pins, list the complete blobs, remove the others one   *)
(* by one.  The node's scheduler and repo gc share gc_orphans.              *)

\* A mutant of Report: the interval is not clamped.
ReportUnclamped(failed) ==
    IF phase = "starting"
    THEN phase' = (IF failed THEN "refused" ELSE "sleep") /\ UNCHANGED <<errs, interval, stop, closer>>
    ELSE /\ phase' = IF stop THEN "exited" ELSE "sleep"
         /\ errs' = IF failed THEN MaxConsecutiveErrors ELSE 0
         /\ interval' = IF failed THEN interval * BackoffFactor ELSE interval
         /\ UNCHANGED <<stop, closer>>

\* run_loop after a sweep: the error count, the back-off (which nothing undoes)
\* and the check of the shutdown signal.  The first sweep decides the start.
Report(failed) ==
    LET count == IF failed THEN (IF errs < MaxConsecutiveErrors THEN errs + 1 ELSE errs) ELSE 0
        longer == interval * BackoffFactor
    IN  IF phase = "starting"
        THEN /\ phase' = IF failed THEN "refused" ELSE "sleep"
             /\ UNCHANGED <<errs, interval, stop, closer>>
        ELSE /\ phase' = IF stop THEN "exited" ELSE "sleep"
             /\ errs' = count
             /\ interval' = IF MaxConsecutiveErrors > 0 /\ count = MaxConsecutiveErrors
                            THEN (IF longer < MaxInterval THEN longer ELSE MaxInterval)
                            ELSE interval
             /\ UNCHANGED <<stop, closer>>

SweepEnds(c, failed) ==
    /\ col' = [col EXCEPT ![c] = NoSweep]
    /\ IF c = "node" THEN Report(failed) ELSE UNCHANGED loop

\* PinSet::load, which repo gc follows by unwrap_or_default: only the scheduler takes
\* a read error for an error, and nobody one of exists().
Load(c, io) ==
    /\ col[c].pc = "load"
    /\ Happens(Errors(io))
    /\ IF Loadable(io) \/ c # "node"
       THEN /\ col' = [col EXCEPT ![c] = [NoSweep EXCEPT
                          !.pc = "list", !.pins = DOMAIN Loaded(io), !.shield = held]]
            /\ UNCHANGED loop
       ELSE SweepEnds(c, TRUE)
    /\ calm' = (calm /\ file.state = "whole" /\ (io = "works" \/ ~(Loadable(io) \/ c # "node")))
    /\ UNCHANGED <<store, file, cmd, held>>

List(c) ==
    /\ col[c].pc = "list"
    /\ col' = [col EXCEPT ![c].pc = "remove", ![c].pins = {},
                          ![c].victims = ListComplete \ col[c].pins]
    /\ UNCHANGED <<store, file, cmd, loop, ghosts, events>>

\* read_dir fails.
ListFails(c) ==
    /\ col[c].pc = "list"
    /\ Event
    /\ SweepEnds(c, TRUE)
    /\ UNCHANGED <<store, file, cmd, ghosts>>

\* BlobStore::remove refuses what is not complete by now.
RemoveBegin(c, b) ==
    /\ b \in col[c].victims
    /\ col[c].blob = NoBlob
    /\ col' = [col EXCEPT ![c].victims = @ \ {b},
                          ![c].blob = IF Complete(b) THEN b ELSE NoBlob,
                          ![c].todo = IF Complete(b) THEN dir[b] \ {"dir"} ELSE {}]
    /\ contended' = IF Complete(b) THEN contended \cup {b} ELSE contended
    /\ UNCHANGED <<dir, putting, left, file, cmd, loop, ghosts, events>>

\* remove_dir_all deletes what it found, and may find files that came later.
Unlink(c) ==
    /\ col[c].blob # NoBlob
    /\ \E f \in dir[col[c].blob] \ {"dir"} :
        /\ UnlinkFile(col[c].blob, f)
        /\ col' = [col EXCEPT ![c].todo = @ \ {f}]
    /\ UNCHANGED <<file, cmd, loop, ghosts, events>>

Removing == {col[c].blob : c \in Collector} \ {NoBlob}

RmDir(c) ==
    LET b == col[c].blob IN
    /\ b # NoBlob
    /\ col[c].todo \cap dir[b] = {}
    /\ RemoveDir(b, {col[d].blob : d \in Collector \ {c}})
    /\ col' = [col EXCEPT ![c].blob = NoBlob, ![c].todo = {}]
    /\ UNCHANGED <<file, cmd, loop, ghosts, events>>

Finish(c) ==
    /\ col[c].pc = "remove" /\ col[c].victims = {} /\ col[c].blob = NoBlob
    /\ SweepEnds(c, FALSE)
    /\ UNCHANGED <<store, file, cmd, ghosts, events>>

Prune(c) ==
    /\ c # "node" /\ col[c].pc = "idle"
    /\ Event
    /\ col' = [col EXCEPT ![c].pc = "load"]
    /\ UNCHANGED <<store, file, cmd, loop, ghosts>>

-----------------------------------------------------------------------------
(* The scheduler's loop, its shutdown, and the node process.                *)

\* The sleep ends; the select! may take this branch although stop is set.
Wake ==
    /\ phase = "sleep"
    /\ phase' = "sweep"
    /\ col' = [col EXCEPT !["node"].pc = "load"]
    /\ UNCHANGED <<store, file, cmd, errs, interval, stop, closer, ghosts, events>>

SeeShutdown ==
    /\ phase = "sleep" /\ stop
    /\ phase' = "exited"
    /\ UNCHANGED <<store, file, cmd, col, errs, interval, stop, closer, ghosts, events>>

\* The first call takes the join handle; a later one has nothing to wait for.
Shutdown(s) ==
    /\ phase \in {"sleep", "sweep", "exited"}
    /\ closer[s] = "idle"
    /\ stop' = TRUE
    /\ closer' = [closer EXCEPT ![s] =
                    IF \A t \in Closer : closer[t] = "idle" THEN "join" ELSE "skipped"]
    /\ UNCHANGED <<store, file, cmd, col, phase, errs, interval, ghosts, events>>

\* A mutant: the call does not wait for the task.
ShutdownReturnsAtOnce(s) ==
    /\ closer[s] = "join"
    /\ closer' = [closer EXCEPT ![s] = "joined"]
    /\ UNCHANGED <<store, file, cmd, col, phase, errs, interval, stop, ghosts, events>>

ShutdownReturns(s) ==
    /\ closer[s] = "join" /\ phase = "exited"
    /\ closer' = [closer EXCEPT ![s] = "joined"]
    /\ UNCHANGED <<store, file, cmd, col, phase, errs, interval, stop, ghosts, events>>

\* The node process dies and is started again; its puts and its sweep stop midway.
Crash ==
    /\ Event
    /\ putting' = [p \in Putter |-> NoBlob] /\ left' = [p \in Putter |-> {}]
    /\ col' = [col EXCEPT !["node"] = [NoSweep EXCEPT !.pc = "load"]]
    /\ phase' = "starting" /\ errs' = 0 /\ interval' = Interval /\ stop' = FALSE
    /\ closer' = [s \in Closer |-> "idle"]
    /\ UNCHANGED <<dir, contended, file, cmd, ghosts>>

StartPut(p, b) ==
    /\ Event
    /\ PutBegin(p, b, Removing)
    /\ UNCHANGED <<file, cmd, col, loop, ghosts>>

StepPut(p) == (PutWrite(p) \/ PutFail(p)) /\ UNCHANGED <<file, cmd, col, loop, ghosts, events>>

Sweep(c) ==
    \/ \E io \in Io : Load(c, io)
    \/ List(c) \/ Unlink(c) \/ RmDir(c) \/ Finish(c)
    \/ \E b \in Blob : RemoveBegin(c, b)

PinCommand(o) ==
    \E io \in Io :
        \/ \E h \in Blob, recursive \in BOOLEAN, meta \in Io \ {"unseen"} :
               PinAdd(o, io, h, recursive, meta)
        \/ \E h \in Hash : PinRm(o, io, h)
        \/ PinGc(o, io)

Next ==
    \/ \E o \in Operator :
        PinCommand(o) \/ SaveOpen(o) \/ SaveSome(o) \/ SaveRest(o) \/ Kill(o)
    \/ \E c \in Collector : Sweep(c) \/ ListFails(c) \/ Prune(c)
    \/ Wake \/ SeeShutdown \/ Crash
    \/ \E s \in Closer : Shutdown(s) \/ ShutdownReturns(s)
    \/ \E p \in Putter : StepPut(p) \/ \E b \in Blob : StartPut(p, b)

(* Fairness: the runtime keeps running the node's own tasks (the sweep, the *)
(* sleep, a shutdown call whose task has ended) while the process lives; at  *)
(* most one of the three is enabled.  Nothing is assumed of operators, of    *)
(* repo gc, or of puts.                                                      *)
NodeStep == Sweep("node") \/ Wake \/ \E s \in Closer : ShutdownReturns(s)

Fairness == WF_vars(NodeStep)

Spec == Init /\ [][Next]_vars /\ Fairness

-----------------------------------------------------------------------------
(* Properties.                                                               *)

\* A sweep never deletes a blob whose pin add had returned when the sweep loaded
\* the pins and that was not unpinned since ("a freshly-pinned CID is honoured at
\* the next sweep", gc_scheduler.rs).
PinsHonoured == \A c \in Collector : col[c].blob \notin col[c].shield \cap held

\* The six ways to lose a pin named at Prepare are the only ones: without them
\* pin.json lists every blob whose pin add returned, after any sequence of plain
\* and recursive adds, removals and pin gcs, and no sweep deletes one of them,
\* whatever crashes, failing sweeps and puts come in between.  A sweep owes nothing
\* to a blob pinned after it loaded the pins.
CalmKeepsPins ==
    calm => /\ file.state = "whole" => held \subseteq DOMAIN file.pins
            /\ PinsHonoured

\* shutdown() returns to the caller that took the join handle only after the
\* current sweep has finished: from then on the scheduler deletes nothing.
ShutdownWaits ==
    (\E s \in Closer : closer[s] = "joined") => phase = "exited" /\ col["node"] = NoSweep

\* A blob that stays unpinned in a readable pin.json and that nobody stores again does
\* not stay listed as complete while the scheduler lives: neither intact nor, when a
\* crash cut its removal short, as a sentinel over missing chunks, which no put repairs.
\* Chunks whose sentinel went first are another matter: nothing ever lists them again.
OrphansCollected ==
    \A b \in Blob :
        (<>[](/\ file.state # "partial" /\ b \notin DOMAIN file.pins
              /\ \A p \in Putter : putting[p] # b
              /\ phase \notin {"refused", "exited"})) => <>[]~Complete(b)
=============================================================================
