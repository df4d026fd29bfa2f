----------------------------- MODULE GossipBus ------------------------------
(***************************************************************************)
(* One room of the gossip bus (bus.rs): announcements are broadcast on a   *)
(* channel that keeps the last few of them; every subscription has a task  *)
(* that receives from it, drops duplicates and expired announcements,      *)
(* stores what is left and passes it on.  The deduplication filter         *)
(* (dedup.rs) and the message store (persistence.rs) are shared by the     *)
(* subscriptions, the tasks run concurrently.                              *)
(*                                                                         *)
(* An announcement is known by its place in the sequence of all broadcasts;*)
(* several may carry the same message id.  Lifetimes are left open: an     *)
(* entry may outlive its ttl at any moment.                                *)
(***************************************************************************)
EXTENDS Integers, FiniteSets, SequencesExt

CONSTANTS MsgId,
          Node,           \* senders; the store keeps one list per sender
          FromOf,         \* the sender of each message
          Sub,            \* subscriptions
          Kind,           \* how each was made: plain, filter, persist (filter and
                          \* store) or store (persistence without deduplication)
          ChannelSize,    \* capacity of the broadcast channel
          Capacity,       \* MessageCache::capacity
          BatchSize,      \* CLEANUP_BATCH_SIZE
          CleanupEvery,   \* check_and_insert cleans up at multiples of this size
          MaxPerRoom,     \* PersistenceConfig::max_messages_per_room
          Headroom,       \* max_total allows this many full rooms
          MaxPublish,     \* bound: announcements broadcast
          MaxExpiries     \* bound: lifetimes that end

ASSUME GossipAssumption ==
    /\ FromOf \in [MsgId -> Node]
    /\ Kind \in [Sub -> {"plain", "filter", "persist", "store"}]
    /\ ChannelSize \in Nat \ {0} /\ Capacity \in Nat \ {0} /\ BatchSize \in Nat \ {0}
    /\ CleanupEvery \in Nat \ {0} /\ MaxPerRoom \in Nat \ {0} /\ Headroom \in Nat
    /\ MaxPublish \in Nat /\ MaxExpiries \in Nat

VARIABLES raw,        \* the ids broadcast so far; the channel holds the last ChannelSize
          pos,        \* how far each task has received
          task,       \* its place in the loop, the announcement in hand, its sequence number
          out,        \* what it passed on, as places in raw
          seen,       \* MessageCache: the ids in insertion order, and whether expired
          dead,       \* ids that TtlTracker::is_expired reports
          counter,    \* MemoryMessageStore::counters
          stored,     \* MemoryMessageStore::messages
          expiries,   \* how many lifetimes have ended
          lagged,     \* history: the places each task skipped by Lagged
          forgotten,  \* history: ids that left the cache
          aged        \* history: sequence numbers removed because they expired

vars == <<raw, pos, task, out, seen, dead, counter, stored, expiries,
          lagged, forgotten, aged>>

Filters == {s \in Sub : Kind[s] \in {"filter", "persist"}}
Stores == {s \in Sub : Kind[s] \in {"persist", "store"}}
Waiting == [pc |-> "recv", at |-> 0, seq |-> 0]
Ids(cache) == {e.id : e \in ToSet(cache)}
Place == 1..Len(raw)

TypeOK ==
    /\ raw \in Seq(MsgId) /\ Len(raw) <= MaxPublish
    /\ pos \in [Sub -> 0..Len(raw)]
    /\ task \in [Sub -> [pc : {"recv", "check", "count", "push", "send"},
                         at : 0..Len(raw), seq : Nat]]
    /\ out \in [Sub -> Seq(Place)]
    /\ seen \in Seq([id : MsgId, old : BOOLEAN]) /\ Len(seen) <= Capacity
    /\ dead \subseteq MsgId
    /\ counter \in [Node -> Nat]
    /\ \A n \in Node : stored[n] \subseteq [seq : 1..counter[n], at : Place, old : BOOLEAN]
    /\ expiries \in 0..MaxExpiries
    /\ lagged \in [Sub -> SUBSET Place]
    /\ forgotten \subseteq MsgId
    /\ \A n \in Node : aged[n] \subseteq 1..counter[n]

Init ==
    /\ raw = <<>>
    /\ pos = [s \in Sub |-> 0]
    /\ task = [s \in Sub |-> Waiting]
    /\ out = [s \in Sub |-> <<>>]
    /\ seen = <<>>
    /\ dead = {}
    /\ counter = [n \in Node |-> 0]
    /\ stored = [n \in Node |-> {}]
    /\ expiries = 0
    /\ lagged = [s \in Sub |-> {}]
    /\ forgotten = {}
    /\ aged = [n \in Node |-> {}]

-----------------------------------------------------------------------------
(* The deduplication cache.                                                 *)

\* The first BatchSize expired entries go.
RemoveExpired(cache) ==
    LET Old(i) == cache[i].old
        Batch(i) == Old(i) /\ Cardinality({j \in 1..i : Old(j)}) <= BatchSize
    IN  [k \in 1..Cardinality({i \in DOMAIN cache : ~Batch(i)}) |->
            cache[CHOOSE i \in DOMAIN cache :
                    ~Batch(i) /\ Cardinality({j \in 1..i : ~Batch(j)}) = k]]

\* The oldest entries go until one more fits.
DropOldest(cache) ==
    IF Len(cache) < Capacity THEN cache
    ELSE SubSeq(cache, Len(cache) - Capacity + 2, Len(cache))

Periodic(cache) == IF Len(cache) % CleanupEvery = 0 THEN RemoveExpired(cache) ELSE cache

\* check_and_insert: a known id stays where it is, expired or not.
CheckAndInsert(id) ==
    Periodic(IF id \in Ids(seen) THEN seen
             ELSE Append(DropOldest(RemoveExpired(seen)), [id |-> id, old |-> FALSE]))

-----------------------------------------------------------------------------
(* The store: messages are numbered per sender, expired ones go, and so do  *)
(* the oldest beyond the limit.                                             *)

\* A mutant: the sort is the other way round, the oldest stay.
KeepOldest(items) ==
    LET fresh == {x \in items : ~x.old}
    IN  {x \in fresh : Cardinality({y \in fresh : y.seq < x.seq}) < MaxPerRoom}

CleanupInternal(items) ==
    LET fresh == {x \in items : ~x.old}
    IN  {x \in fresh : Cardinality({y \in fresh : y.seq > x.seq}) < MaxPerRoom}

Aged(items) == {x.seq : x \in {y \in items : y.old}}

\* store_message after its push to the list of n: the list is cleaned up, and every
\* list when there are too many messages in all.
EnforceLimits(all, n) ==
    LET one == [all EXCEPT ![n] = CleanupInternal(@)]
        total == MapThenSumSet(LAMBDA m : Cardinality(one[m]), Node)
    IN  IF total > Headroom * MaxPerRoom THEN [m \in Node |-> CleanupInternal(one[m])] ELSE one

-----------------------------------------------------------------------------
(* The tasks.                                                               *)

Publish(m) ==
    /\ Len(raw) < MaxPublish
    /\ raw' = Append(raw, m)
    /\ UNCHANGED <<pos, task, out, seen, dead, counter, stored, expiries, lagged, forgotten, aged>>

Oldest == IF Len(raw) > ChannelSize THEN Len(raw) - ChannelSize ELSE 0

\* A mutant: on Lagged the task subscribes anew and loses what the channel still holds.
LagResubscribes(s) ==
    /\ task[s].pc = "recv"
    /\ pos[s] < Oldest
    /\ lagged' = [lagged EXCEPT ![s] = @ \cup (pos[s] + 1)..Oldest]
    /\ pos' = [pos EXCEPT ![s] = Len(raw)]
    /\ UNCHANGED <<raw, task, out, seen, dead, counter, stored, expiries, forgotten, aged>>

\* A slow receiver is told Lagged and continues with the oldest that is kept.
Lag(s) ==
    /\ task[s].pc = "recv"
    /\ pos[s] < Oldest
    /\ lagged' = [lagged EXCEPT ![s] = @ \cup (pos[s] + 1)..Oldest]
    /\ pos' = [pos EXCEPT ![s] = Oldest]
    /\ UNCHANGED <<raw, task, out, seen, dead, counter, stored, expiries, forgotten, aged>>

Recv(s) ==
    /\ task[s].pc = "recv"
    /\ Oldest <= pos[s] /\ pos[s] < Len(raw)
    /\ pos' = [pos EXCEPT ![s] = @ + 1]
    /\ task' = [task EXCEPT ![s] =
                  [pc |-> IF s \in Filters THEN "check" ELSE IF s \in Stores THEN "count" ELSE "send",
                   at |-> pos[s] + 1, seq |-> 0]]
    /\ UNCHANGED <<raw, out, seen, dead, counter, stored, expiries, lagged, forgotten, aged>>

\* A mutant: the look into the cache and the insertion are not one step, so the
\* announcement in hand passes although another task has inserted its id.
CheckRaces(s) ==
    LET id == raw[task[s].at] IN
    /\ task[s].pc = "check"
    /\ seen' = CheckAndInsert(id)
    /\ forgotten' = forgotten \cup (Ids(seen) \ Ids(seen'))
    /\ task' = [task EXCEPT ![s] =
                  IF id \in dead THEN Waiting
                  ELSE [@ EXCEPT !.pc = IF s \in Stores THEN "count" ELSE "send"]]
    /\ UNCHANGED <<raw, pos, out, dead, counter, stored, expiries, lagged, aged>>

\* Under the filter's lock; then the look at the TTL tracker.
Check(s) ==
    LET id == raw[task[s].at] IN
    /\ task[s].pc = "check"
    /\ seen' = CheckAndInsert(id)
    /\ forgotten' = forgotten \cup (Ids(seen) \ Ids(seen'))
    /\ task' = [task EXCEPT ![s] =
                  IF id \in Ids(seen) \/ id \in dead THEN Waiting
                  ELSE [@ EXCEPT !.pc = IF s \in Stores THEN "count" ELSE "send"]]
    /\ UNCHANGED <<raw, pos, out, dead, counter, stored, expiries, lagged, aged>>

SenderOf(s) == FromOf[raw[task[s].at]]

\* The sequence number, under the lock of the counters ...
Count(s) ==
    LET n == SenderOf(s) IN
    /\ task[s].pc = "count"
    /\ counter' = [counter EXCEPT ![n] = @ + 1]
    /\ task' = [task EXCEPT ![s].pc = "push", ![s].seq = counter[n] + 1]
    /\ UNCHANGED <<raw, pos, out, seen, dead, stored, expiries, lagged, forgotten, aged>>

\* A mutant: the number is taken but not put into the message.
PushUnnumbered(s) ==
    LET n == SenderOf(s)
        message == [seq |-> 0, at |-> task[s].at, old |-> FALSE]
    IN  /\ task[s].pc = "push"
        /\ stored' = EnforceLimits([stored EXCEPT ![n] = @ \cup {message}], n)
        /\ aged' = [m \in Node |-> aged[m] \cup (Aged(stored[m]) \ Aged(stored'[m]))]
        /\ task' = [task EXCEPT ![s].pc = "send"]
        /\ UNCHANGED <<raw, pos, out, seen, dead, counter, expiries, lagged, forgotten>>

\* ... and the message, under the lock of the messages.
Push(s) ==
    LET n == SenderOf(s)
        message == [seq |-> task[s].seq, at |-> task[s].at, old |-> FALSE]
    IN  /\ task[s].pc = "push"
        /\ stored' = EnforceLimits([stored EXCEPT ![n] = @ \cup {message}], n)
        /\ aged' = [m \in Node |-> aged[m] \cup (Aged(stored[m]) \ Aged(stored'[m]))]
        /\ task' = [task EXCEPT ![s].pc = "send"]
        /\ UNCHANGED <<raw, pos, out, seen, dead, counter, expiries, lagged, forgotten>>

Send(s) ==
    /\ task[s].pc = "send"
    /\ out' = [out EXCEPT ![s] = Append(@, task[s].at)]
    /\ task' = [task EXCEPT ![s] = Waiting]
    /\ UNCHANGED <<raw, pos, seen, dead, counter, stored, expiries, lagged, forgotten, aged>>

\* The store's periodic cleanup.
Cleanup ==
    /\ \E n \in Node : stored[n] # CleanupInternal(stored[n])
    /\ stored' = [n \in Node |-> CleanupInternal(stored[n])]
    /\ aged' = [n \in Node |-> aged[n] \cup Aged(stored[n])]
    /\ UNCHANGED <<raw, pos, task, out, seen, dead, counter, expiries, lagged, forgotten>>

\* Time: an entry of the cache, a message of the store, a registered ttl expires.
TimePasses == expiries < MaxExpiries /\ expiries' = expiries + 1

EntryExpires ==
    /\ TimePasses
    /\ \E i \in DOMAIN seen : ~seen[i].old /\ seen' = [seen EXCEPT ![i].old = TRUE]
    /\ UNCHANGED <<raw, pos, task, out, dead, counter, stored, lagged, forgotten, aged>>

StoredExpires ==
    /\ TimePasses
    /\ \E n \in Node : \E x \in stored[n] :
        ~x.old /\ stored' = [stored EXCEPT ![n] = (@ \ {x}) \cup {[x EXCEPT !.old = TRUE]}]
    /\ UNCHANGED <<raw, pos, task, out, seen, dead, counter, lagged, forgotten, aged>>

TtlExpires(m) ==
    /\ TimePasses
    /\ m \notin dead
    /\ dead' = dead \cup {m}
    /\ UNCHANGED <<raw, pos, task, out, seen, counter, stored, lagged, forgotten, aged>>

Next ==
    \/ \E m \in MsgId : Publish(m) \/ TtlExpires(m)
    \/ \E s \in Sub : Lag(s) \/ Recv(s) \/ Check(s) \/ Count(s) \/ Push(s) \/ Send(s)
    \/ Cleanup \/ EntryExpires \/ StoredExpires

Spec == Init /\ [][Next]_vars

-----------------------------------------------------------------------------
(* Properties.                                                               *)

\* A message id passes the shared filter once: two subscriptions, or one that is sent
\* a rebroadcast, deliver it again only after its entry left the cache.
NoDuplicates ==
    \A m \in MsgId \ forgotten :
        Cardinality({d \in Filters \X Place : raw[d[2]] = m /\ d[2] \in ToSet(out[d[1]])}) <= 1

\* Nothing is lost but what Lagged skipped or the filter dropped, and the filter drops
\* an announcement only if its ttl has passed or a subscription has taken its id.
NothingElseLost ==
    \A s \in Sub : \A i \in 1..pos[s] :
        \/ i \in ToSet(out[s]) \cup lagged[s] \cup {task[s].at}
        \/ s \in Filters /\ \/ raw[i] \in dead
                            \/ \E t \in Filters, j \in Place :
                                 raw[j] = raw[i] /\ j \in ToSet(out[t]) \cup {task[t].at}

\* The store numbers each sender's messages without repetition and keeps the newest
\* ones: a number above one that is kept is kept too or about to be stored, unless it,
\* or one above it, has expired.  Numbering and storing are two steps under two locks,
\* and the tasks overtake each other between them.
NewestKept ==
    \A n \in Node :
        /\ Cardinality(stored[n]) <= MaxPerRoom
        /\ \A x \in stored[n] :
            /\ \A y \in stored[n] : y.seq = x.seq => y = x
            /\ \A k \in (x.seq + 1)..counter[n] :
                \/ \E y \in stored[n] : y.seq = k
                \/ \E s \in Sub : task[s].pc = "push" /\ SenderOf(s) = n /\ task[s].seq = k
                \/ \E j \in aged[n] : j >= k
=============================================================================
