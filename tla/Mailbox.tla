------------------------------ MODULE Mailbox ------------------------------
(***************************************************************************)
(* The offline mailbox of a3net-mailbox over its SQLite store: concurrent  *)
(* enqueue handlers, the recipients' pull_all and ack, the TTL sweeper,    *)
(* lost replies and server crashes.                                        *)
(*                                                                         *)
(* SQLite is modelled from its use.  A transaction begins DEFERRED: its    *)
(* first SELECT fixes a snapshot, and the INSERT fails if anything was     *)
(* committed since.  Two requests of one recipient may hold different      *)
(* connections (get_conn looks up and inserts in two steps), and every     *)
(* recipient has its own, so transactions interleave; the mutex around a   *)
(* connection only removes interleavings and is left out.  A DELETE is one *)
(* statement and atomic.  A statement may fail; the two reads whose errors *)
(* the code takes for zero (the usage and MAX) are assumed to succeed or   *)
(* to refuse the request.  All envelopes have one size, so the count cap   *)
(* of the quota stands for both caps.                                      *)
(***************************************************************************)
EXTENDS Integers, FiniteSets

CONSTANTS Sender, Recipient, MsgId,
          Key,          \* the envelopes sent: (sender_id, recipient_id, msg_id)
          Request,      \* enqueue handlers that may run at once
          MaxInflight,  \* QuotaPolicy::max_inflight_per_user
          Ttl,          \* effective TTL of an envelope, in ticks
          PageSize,     \* page_size of pull_all
          Resume,       \* whether recipients pass their watermark as since
          MaxSends,     \* bound: enqueue requests made
          MaxFaults,    \* bound: lost messages and crashes
          MaxTime       \* bound: ticks of the clock

ASSUME MailboxAssumption ==
    /\ Key # {}
    /\ Key \subseteq Sender \X Recipient \X MsgId
    /\ Request # {} /\ IsFiniteSet(Request)
    /\ MaxInflight \in Nat
    /\ Ttl \in Nat
    /\ PageSize \in Nat
    /\ Resume \in BOOLEAN
    /\ MaxSends \in Nat /\ MaxFaults \in Nat /\ MaxTime \in Nat

VARIABLES rows,       \* table envelopes
          pc,         \* where each enqueue handler stands
          key,        \* its envelope's idempotency key
          exp,        \* its envelope's expires_at
          seq,        \* the sequence its transaction computed
          stale,      \* whether a commit has overtaken its snapshot
          cpc,        \* where each recipient's client stands
          cursor,     \* since of its next page
          got,        \* rows its pull_all has collected
          watermark,  \* highest sequence it was ever handed
          seen,       \* envelopes handed to the application
          confirmed,  \* envelopes whose sender got a 2xx reply
          owed,       \* history: rows its pull_all has to return, held since it began
          expired,    \* history: envelopes purged after their expiry
          sends, faults, now

handlers == <<pc, key, exp, seq, stale>>
clients == <<cpc, cursor, got, watermark, seen, owed>>
bounds == <<sends, faults, now>>
vars == <<rows, handlers, clients, confirmed, expired, bounds>>

From(k) == k[1]
To(k) == k[2]
Id(k) == k[3]

\* "the first envelope's sequence is always `1`"
Row == [key : Key, seq : Nat \ {0}, exp : Nat]
HandlerPC == {"idle", "usage", "select", "insert", "accepted", "duplicate", "rejected"}
ClientPC == {"idle", "pull", "ack"}

TypeOK ==
    /\ rows \subseteq Row
    /\ pc \in [Request -> HandlerPC]
    /\ key \in [Request -> Key]
    /\ exp \in [Request -> Nat]
    /\ seq \in [Request -> Nat]
    /\ stale \in [Request -> BOOLEAN]
    /\ cpc \in [Recipient -> ClientPC]
    /\ cursor \in [Recipient -> Nat]
    /\ got \in [Recipient -> SUBSET Row]
    /\ watermark \in [Recipient -> Nat]
    /\ seen \subseteq Key
    /\ confirmed \subseteq Key
    /\ owed \in [Recipient -> SUBSET Row]
    /\ expired \subseteq Key
    /\ sends \in 0 .. MaxSends
    /\ faults \in 0 .. MaxFaults
    /\ now \in 0 .. MaxTime

AnyKey == CHOOSE k \in Key : TRUE

Init ==
    /\ rows = {}
    /\ pc = [q \in Request |-> "idle"]
    /\ key = [q \in Request |-> AnyKey]
    /\ exp = [q \in Request |-> 0]
    /\ seq = [q \in Request |-> 0]
    /\ stale = [q \in Request |-> FALSE]
    /\ cpc = [r \in Recipient |-> "idle"]
    /\ cursor = [r \in Recipient |-> 0]
    /\ got = [r \in Recipient |-> {}]
    /\ watermark = [r \in Recipient |-> 0]
    /\ seen = {}
    /\ confirmed = {}
    /\ owed = [r \in Recipient |-> {}]
    /\ expired = {}
    /\ sends = 0 /\ faults = 0 /\ now = 0

RowsOf(r) == {x \in rows : To(x.key) = r}
Held == {x.key : x \in rows}
Seqs(S) == {x.seq : x \in S}

\* The largest of the numbers in S, or else.
Highest(S, else) == IF S = {} THEN else ELSE CHOOSE m \in S : \A n \in S : n <= m

\* Mutant of Overtake: nobody notices the write.
OvertakeNobody(q) == UNCHANGED stale

\* A write other than q's own overtakes every transaction that has taken its snapshot.
Overtake(q) == stale' = [p \in Request |-> stale[p] \/ (p # q /\ pc[p] = "insert")]

OvertakeAll == stale' = [p \in Request |-> stale[p] \/ pc[p] = "insert"]

Handled(q, from, to) == pc[q] = from /\ pc' = [pc EXCEPT ![q] = to]

-----------------------------------------------------------------------------
(* enqueue_handler                                                         *)

\* The request arrives; ids, encoding, signature and size are checked.
Enqueue(q, k) ==
    /\ sends < MaxSends
    /\ \E to \in {"usage", "rejected"} : Handled(q, "idle", to)
    /\ key' = [key EXCEPT ![q] = k]
    /\ exp' = [exp EXCEPT ![q] = now + Ttl]
    /\ sends' = sends + 1
    /\ UNCHANGED <<rows, seq, stale, clients, confirmed, expired, faults, now>>

\* quota_usage: only envelopes that have not expired are counted.
Live(r) == {x \in RowsOf(r) : x.exp > now}

\* Mutant of QuotaAllows: the incoming envelope is not counted.
QuotaAllowsOneMore(r) == Cardinality(Live(r)) <= MaxInflight

\* QuotaPolicy::check
QuotaAllows(r) == Cardinality(Live(r)) + 1 <= MaxInflight

CheckQuota(q) ==
    /\ Handled(q, "usage", IF QuotaAllows(To(key[q])) THEN "select" ELSE "rejected")
    /\ UNCHANGED <<rows, key, exp, seq, stale, clients, confirmed, expired, bounds>>

\* Mutant of NextSequence: the largest sequence itself.
NextSequenceZero(r) == Highest(Seqs(RowsOf(r)), 0)

\* SELECT MAX(sequence), plus one
NextSequence(r) == Highest(Seqs(RowsOf(r)), 0) + 1

\* The reads of SqliteStore::enqueue, which fix the transaction's snapshot.
Select(q) ==
    /\ Handled(q, "select", IF key[q] \in Held THEN "duplicate" ELSE "insert")
    /\ seq' = [seq EXCEPT ![q] = IF key[q] \in Held THEN 0 ELSE NextSequence(To(key[q]))]
    /\ UNCHANGED <<rows, key, exp, stale, clients, confirmed, expired, bounds>>

\* Mutant of Refused: the write goes through although the snapshot is old.
RefusedByKey(q) == key[q] \in Held

\* SQLITE_BUSY_SNAPSHOT, or the UNIQUE constraint on the key.
Refused(q) == stale[q] \/ key[q] \in Held

\* A statement fails, for SQLite's refusal or an error of its own; the transaction goes.
StorageFails(q) ==
    /\ pc[q] \in {"usage", "select", "insert"}
    /\ pc' = [pc EXCEPT ![q] = "rejected"]
    /\ stale' = [stale EXCEPT ![q] = FALSE]
    /\ UNCHANGED <<rows, key, exp, seq, clients, confirmed, expired, bounds>>

Insert(q) ==
    /\ ~Refused(q)
    /\ Handled(q, "insert", "accepted")
    /\ rows' = rows \cup {[key |-> key[q], seq |-> seq[q], exp |-> exp[q]]}
    /\ Overtake(q)
    /\ UNCHANGED <<key, exp, seq, clients, confirmed, expired, bounds>>

\* The handler ends and its locals go.
Return(q) ==
    /\ pc' = [pc EXCEPT ![q] = "idle"]
    /\ key' = [key EXCEPT ![q] = AnyKey]
    /\ exp' = [exp EXCEPT ![q] = 0]
    /\ seq' = [seq EXCEPT ![q] = 0]
    /\ UNCHANGED <<rows, stale, clients, expired, sends, now>>

\* status.is_success() on the sender's side
Succeeded(q) == pc[q] \in {"accepted", "duplicate"}

Reply(q) ==
    /\ pc[q] \in {"accepted", "duplicate", "rejected"}
    /\ Return(q)
    /\ confirmed' = IF Succeeded(q) THEN confirmed \cup {key[q]} ELSE confirmed
    /\ UNCHANGED faults

\* The connection breaks: the reply is lost, or the handler dropped where it awaits.
\* The blocking task that runs the transaction is not dropped.
Disconnect(q) ==
    /\ faults < MaxFaults
    /\ pc[q] \notin {"idle", "insert"}
    /\ Return(q)
    /\ faults' = faults + 1
    /\ UNCHANGED confirmed

-----------------------------------------------------------------------------
(* MailboxClient::pull_all and ack, with pull_handler and ack_handler.     *)

StartPull(r) ==
    /\ cpc[r] = "idle"
    /\ cpc' = [cpc EXCEPT ![r] = "pull"]
    /\ cursor' = [cursor EXCEPT ![r] = IF Resume THEN watermark[r] ELSE 0]
    /\ owed' = [owed EXCEPT ![r] = {x \in RowsOf(r) : x.seq > cursor'[r]}]
    /\ UNCHANGED <<rows, handlers, got, watermark, seen, confirmed, expired, bounds>>

\* Mutant of Page: sequence >= since + 2.
PageSkips(r) ==
    LET after == {x \in RowsOf(r) : x.seq > cursor[r] + 1}
    IN {x \in after : Cardinality({y \in after : y.seq < x.seq}) < PageSize}

\* SqliteStore::pull: the first PageSize rows after since.
Page(r) ==
    LET after == {x \in RowsOf(r) : x.seq > cursor[r]}
    IN {x \in after : Cardinality({y \in after : y.seq < x.seq}) < PageSize}

\* Mutant of HasMore: off by one at a full page.
HasMoreOver(page) == Cardinality(page) > PageSize

HasMore(page) == Cardinality(page) = PageSize

\* One page, and the handing over of everything after the last one.
PullPage(r) ==
    LET page == Page(r)
        all == got[r] \cup page
    IN /\ cpc[r] = "pull"
       /\ got' = [got EXCEPT ![r] = all]
       /\ IF HasMore(page)
          THEN /\ cursor' = [cursor EXCEPT ![r] = Highest(Seqs(page), @)]
               /\ UNCHANGED <<cpc, watermark, seen>>
          ELSE /\ cpc' = [cpc EXCEPT ![r] = "ack"]
               /\ watermark' = [watermark EXCEPT ![r] = Highest(Seqs(all), @)]
               /\ seen' = seen \cup {x.key : x \in all}
               /\ UNCHANGED cursor
       /\ UNCHANGED <<rows, handlers, owed, confirmed, expired, bounds>>

\* An error at any page discards the partial result; an ack that is lost changes nothing.
ClientFails(r) ==
    /\ cpc[r] # "idle"
    /\ faults < MaxFaults
    /\ cpc' = [cpc EXCEPT ![r] = "idle"]
    /\ got' = [got EXCEPT ![r] = {}]
    /\ owed' = [owed EXCEPT ![r] = {}]
    /\ cursor' = [cursor EXCEPT ![r] = 0]
    /\ faults' = faults + 1
    /\ UNCHANGED <<rows, handlers, watermark, seen, confirmed, expired, sends, now>>

\* Mutant of Acked: everything up to the watermark is acknowledged.
AckedUpTo(r) == {x \in RowsOf(r) : x.seq <= watermark[r]}

\* ack_handler rejects a list that names a message twice.
Repeated(r) == \E x, y \in got[r] : x # y /\ Id(x.key) = Id(y.key)

\* DELETE ... WHERE recipient_id = ? AND msg_id IN (...)
Acked(r) == {x \in RowsOf(r) : ~Repeated(r) /\ Id(x.key) \in {Id(y.key) : y \in got[r]}}

\* All that was pulled is acknowledged in one request.  An empty list and a list with
\* repetitions are rejected and delete nothing.
Ack(r) ==
    /\ cpc[r] = "ack"
    /\ rows' = rows \ Acked(r)
    /\ IF Acked(r) = {} THEN UNCHANGED stale ELSE OvertakeAll
    /\ cpc' = [cpc EXCEPT ![r] = "idle"]
    /\ got' = [got EXCEPT ![r] = {}]
    /\ owed' = [owed EXCEPT ![r] = {}]
    /\ cursor' = [cursor EXCEPT ![r] = 0]
    /\ UNCHANGED <<pc, key, exp, seq, watermark, seen, confirmed, expired, bounds>>

-----------------------------------------------------------------------------
(* The sweeper, the clock and crashes.                                     *)

\* Mutant of Expired: a row lives through its last tick.
ExpiredLate == {x \in rows : x.exp < now}

Expired == {x \in rows : x.exp <= now}

\* purge_expired, when it finds something
Sweep ==
    /\ Expired # {}
    /\ rows' = rows \ Expired
    /\ expired' = expired \cup {x.key : x \in Expired}
    /\ OvertakeAll
    /\ owed' = [r \in Recipient |-> owed[r] \ Expired]
    /\ UNCHANGED <<pc, key, exp, seq, cpc, cursor, got, watermark, seen, confirmed, bounds>>

\* The process dies.  Handlers and connections go, the committed rows stay; a client
\* meets the restarted server.
Crash ==
    /\ faults < MaxFaults
    /\ faults' = faults + 1
    /\ pc' = [q \in Request |-> "idle"]
    /\ key' = [q \in Request |-> AnyKey]
    /\ exp' = [q \in Request |-> 0]
    /\ seq' = [q \in Request |-> 0]
    /\ stale' = [q \in Request |-> FALSE]
    /\ UNCHANGED <<rows, clients, confirmed, expired, sends, now>>

Tick ==
    /\ now < MaxTime
    /\ now' = now + 1
    /\ UNCHANGED <<rows, handlers, clients, confirmed, expired, sends, faults>>

-----------------------------------------------------------------------------

HandlerStep(q) == CheckQuota(q) \/ Select(q) \/ StorageFails(q) \/ Insert(q) \/ Reply(q)

ClientStep(r) == StartPull(r) \/ PullPage(r) \/ Ack(r)

Next ==
    \/ \E q \in Request : HandlerStep(q) \/ Disconnect(q) \/ \E k \in Key : Enqueue(q, k)
    \/ \E r \in Recipient : ClientStep(r) \/ ClientFails(r)
    \/ Sweep \/ Crash \/ Tick

Spec == Init /\ [][Next]_vars

\* The sweeper ticks for ever and the runtime runs every handler.
Fairness == WF_vars(Sweep) /\ \A q \in Request : WF_vars(HandlerStep(q))

FairSpec == Spec /\ Fairness

-----------------------------------------------------------------------------

(* The watermark protocol needs the sequences of one inbox to be distinct;   *)
(* the schema does not say so, only the isolation of SqliteStore::enqueue's  *)
(* transaction keeps them apart.                                            *)
SequencesUnique ==
    \A x, y \in rows : To(x.key) = To(y.key) /\ x.seq = y.seq => x = y

(* sqlite_store.rs:12-15: the idempotency check and the insert see the same  *)
(* table, so an INSERT that is not refused as overtaken never meets the      *)
(* UNIQUE constraint.                                                       *)
UniqueNeverFires == \A q \in Request : pc[q] = "insert" /\ ~stale[q] => key[q] \notin Held

(* At-least-once: an envelope whose sender got a 2xx reply is in the inbox,  *)
(* was handed to its recipient or was purged after its expiry, whatever      *)
(* crashes, lost replies and overtaken transactions lie in between.         *)
ConfirmedKept == confirmed \subseteq Held \cup seen \cup expired

(* quota_usage and enqueue are two steps: concurrent requests may overshoot  *)
(* the quota, but by no more than the number of other requests.             *)
QuotaOvershoot ==
    \A r \in Recipient :
        Cardinality(Live(r)) <= MaxInflight + Cardinality(Request) - 1

(* pull_all returns every envelope that was in the inbox, after since, when  *)
(* it began and still is when it ends, however enqueues and sweeps come      *)
(* between its pages.  A recipient has one client, which acks after pulling. *)
PullComplete == \A r \in Recipient : cpc[r] = "ack" => owed[r] \subseteq got[r]

\* A client that calls pull_all and ack again and again; others may stay offline.
KeepsPolling(r) == []<>(cpc[r] = "idle") /\ []<>(cpc[r] = "pull")

(* A recipient that keeps polling gets every confirmed envelope, or the      *)
(* envelope expires, across lost replies, failed pages and crashes.         *)
Delivered ==
    \A k \in Key : KeepsPolling(To(k)) => (k \in confirmed ~> k \in seen \cup expired)

(* Expired envelopes do not stay, even if their recipient never comes        *)
(* online: the sweeper gets to all of them.                                 *)
ExpiredSwept == []<>(\A x \in rows : x.exp > now)

(* Message ids are unique within an inbox, as storage.rs:53 asks of senders. *)
IdsUnique == \A k, l \in Key : To(k) = To(l) /\ Id(k) = Id(l) => k = l

\* The promise of a store-and-forward service, without pages, handlers or transactions.
Promise == INSTANCE StoreAndForward WITH Envelope <- Key, held <- Held

(* The mailbox keeps the promise: nothing leaves the inbox but by expiry or  *)
(* after it was handed over, and only what was stored is confirmed or        *)
(* handed over.  This needs IdsUnique: an ack deletes by message id, also    *)
(* the envelope of another sender who chose the same one.                   *)
KeepsPromise == Promise!Spec

-----------------------------------------------------------------------------
(* What the documentation says, and the code does not keep.                *)

(* storage.rs:16-17 "a `u64` *sequence number* [...] monotonically           *)
(* increasing per recipient", so a recipient may pass its highest sequence   *)
(* as since: what lies at or below the watermark has been handed over.      *)
NothingSkipped ==
    \A x \in rows : x.seq <= watermark[To(x.key)] => x.key \in seen
=============================================================================
