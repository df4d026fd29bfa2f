--------------------------- MODULE MailboxProofs ---------------------------
(***************************************************************************)
(* Proofs about Mailbox, for every set of senders, recipients, envelopes   *)
(* and handlers.                                                           *)
(***************************************************************************)
EXTENDS Mailbox, WellFoundedInduction, FiniteSetTheorems, TLAPS

Bounded(S) == \E b \in Nat : \A n \in S : n <= b

(* MAX(sequence) exists: a bounded set of naturals that is not empty has a   *)
(* largest element.                                                         *)
LEMMA MaxExists ==
    ASSUME NEW S \in SUBSET Nat, S # {}, Bounded(S)
    PROVE  \E m \in S : \A n \in S : n <= m
<1>1. PICK b \in Nat : \A n \in S : n <= b  BY DEF Bounded
<1> DEFINE T == {b - n : n \in S}
<1>2. T \subseteq Nat /\ T # {}
  <2>1. \A n \in S : b - n \in Nat  BY <1>1
  <2>2. T # {}  OBVIOUS
  <2> QED  BY <2>1, <2>2
<1> DEFINE R == {ss \in Nat \X Nat : ss[1] < ss[2]}
<1>3. \E x \in T : \A y \in T : ~(<<y, x>> \in R)
  <2>1. IsWellFoundedOn(R, Nat)  BY NatLessThanWellFounded DEF OpToRel
  <2> HIDE DEF T, R
  <2> QED  BY <1>2, <2>1, WFMin
<1>4. PICK x \in T : \A y \in T : ~(y < x)  BY <1>2, <1>3
<1>5. PICK m \in S : x = b - m  BY <1>4
<1>6. \A n \in S : b - n \in T  OBVIOUS
<1>7. \A n \in S : n <= m  BY <1>1, <1>4, <1>5, <1>6
<1> QED  BY <1>7

(* SELECT MAX(sequence) of an inbox, or the default when it is empty.        *)
LEMMA HighestIsMax ==
    ASSUME NEW S \in SUBSET Nat, Bounded(S), NEW else \in Nat
    PROVE  /\ Highest(S, else) \in Nat
           /\ \A n \in S : n <= Highest(S, else)
           /\ S # {} => Highest(S, else) \in S
<1>1. CASE S = {}  BY <1>1 DEF Highest
<1>2. CASE S # {}
  <2>1. \E m \in S : \A n \in S : n <= m  BY <1>2, MaxExists
  <2>2. Highest(S, else) = CHOOSE m \in S : \A n \in S : n <= m  BY <1>2 DEF Highest
  <2> QED  BY <2>1, <2>2
<1> QED  BY <1>1, <1>2

-----------------------------------------------------------------------------
(* The inductive invariant.                                                *)

\* The table is finite and sequences stay bounded, so that COUNT and MAX exist.
SeqsBounded ==
    /\ IsFiniteSet(rows)
    /\ Bounded(Seqs(rows))
    /\ \A r \in Recipient : Bounded(Seqs(got[r]))

\* A transaction about to insert has a sequence; unless it was overtaken, the
\* sequence is above the inbox and the key is not in it.
SnapshotFresh ==
    \A q \in Request : pc[q] = "insert" =>
        /\ seq[q] # 0
        /\ ~stale[q] => /\ key[q] \notin Held
                        /\ \A x \in RowsOf(To(key[q])) : x.seq < seq[q]

StoreInv == TypeOK /\ SeqsBounded /\ SnapshotFresh /\ SequencesUnique

\* Every envelope is for a recipient.
LEMMA KeyTypes == \A k \in Key : To(k) \in Recipient
BY MailboxAssumption DEF To

\* There is an envelope to put in a handler at rest.
LEMMA AnyKeyType == AnyKey \in Key
BY MailboxAssumption DEF AnyKey

\* Sequences of typed rows are numbers, and a part of a bounded set is bounded.
LEMMA SeqsType == ASSUME NEW S \in SUBSET Row  PROVE Seqs(S) \in SUBSET Nat
BY DEF Seqs, Row

\* Deleting rows leaves the sequences bounded.
LEMMA BoundedPart ==
    ASSUME NEW S, NEW T, S \subseteq T, Bounded(Seqs(T))
    PROVE  Bounded(Seqs(S))
BY DEF Bounded, Seqs

\* So does adding rows with bounded sequences.
LEMMA BoundedUnion ==
    ASSUME NEW S \in SUBSET Row, NEW T \in SUBSET Row, Bounded(Seqs(S)), Bounded(Seqs(T))
    PROVE  Bounded(Seqs(S \cup T))
<1>1. PICK b \in Nat : \A n \in Seqs(S) : n <= b  BY DEF Bounded
<1>2. PICK c \in Nat : \A n \in Seqs(T) : n <= c  BY DEF Bounded
<1>3. Seqs(S) \in SUBSET Nat /\ Seqs(T) \in SUBSET Nat  BY SeqsType
<1>4. Seqs(S \cup T) = Seqs(S) \cup Seqs(T)  BY DEF Seqs
<1>5. \A n \in Seqs(S \cup T) : n <= b + c  BY <1>1, <1>2, <1>3, <1>4
<1>6. b + c \in Nat  BY <1>1, <1>2
<1> QED  BY <1>5, <1>6 DEF Bounded

\* SELECT MAX(sequence) + 1 is above every sequence of the inbox.
LEMMA NextSequenceAbove ==
    ASSUME TypeOK, SeqsBounded, NEW r \in Recipient
    PROVE  /\ NextSequence(r) \in Nat \ {0}
           /\ \A x \in RowsOf(r) : x.seq < NextSequence(r)
<1>1. RowsOf(r) \subseteq rows /\ RowsOf(r) \in SUBSET Row  BY DEF RowsOf, TypeOK
<1>2. Bounded(Seqs(RowsOf(r)))  BY <1>1, BoundedPart DEF SeqsBounded
<1>3. Seqs(RowsOf(r)) \in SUBSET Nat  BY <1>1, SeqsType
<1>4. /\ Highest(Seqs(RowsOf(r)), 0) \in Nat
      /\ \A n \in Seqs(RowsOf(r)) : n <= Highest(Seqs(RowsOf(r)), 0)
  BY <1>2, <1>3, HighestIsMax
<1>5. \A x \in RowsOf(r) : x.seq \in Seqs(RowsOf(r))  BY DEF Seqs
<1> QED  BY <1>3, <1>4, <1>5 DEF NextSequence

\* The empty table satisfies the invariant.
LEMMA InitStore == Init => StoreInv
<1> SUFFICES ASSUME Init PROVE StoreInv  OBVIOUS
<1>1. TypeOK  BY AnyKeyType, MailboxAssumption DEF Init, TypeOK, HandlerPC, ClientPC
<1>2. SeqsBounded
  <2>1. Bounded(Seqs({}))  BY DEF Bounded, Seqs
  <2> QED  BY <2>1, FS_EmptySet DEF Init, SeqsBounded
<1>3. SnapshotFresh  BY DEF Init, SnapshotFresh
<1>4. SequencesUnique  BY DEF Init, SequencesUnique
<1> QED  BY <1>1, <1>2, <1>3, <1>4 DEF StoreInv

-----------------------------------------------------------------------------
(* Types.                                                                  *)

\* The two places where a client computes a maximum.
LEMMA PageTypes ==
    ASSUME StoreInv, NEW r \in Recipient
    PROVE  /\ Page(r) \subseteq rows
           /\ Page(r) \in SUBSET Row
           /\ got[r] \cup Page(r) \in SUBSET Row
           /\ Bounded(Seqs(got[r] \cup Page(r)))
           /\ Highest(Seqs(Page(r)), cursor[r]) \in Nat
           /\ Highest(Seqs(got[r] \cup Page(r)), watermark[r]) \in Nat
           /\ Cardinality(Page(r)) \in Nat
<1>1. Page(r) \subseteq rows  BY DEF Page, RowsOf
<1>2. Page(r) \in SUBSET Row  BY <1>1 DEF StoreInv, TypeOK
<1>3. got[r] \in SUBSET Row /\ cursor[r] \in Nat /\ watermark[r] \in Nat  BY DEF StoreInv, TypeOK
<1>4. Bounded(Seqs(Page(r)))  BY <1>1, BoundedPart DEF StoreInv, SeqsBounded
<1>5. Bounded(Seqs(got[r] \cup Page(r)))  BY <1>2, <1>3, <1>4, BoundedUnion DEF StoreInv, SeqsBounded
<1>6. Seqs(Page(r)) \in SUBSET Nat /\ Seqs(got[r] \cup Page(r)) \in SUBSET Nat
  BY <1>2, <1>3, SeqsType
<1>7. Highest(Seqs(Page(r)), cursor[r]) \in Nat  BY <1>3, <1>4, <1>6, HighestIsMax
<1>8. Highest(Seqs(got[r] \cup Page(r)), watermark[r]) \in Nat  BY <1>3, <1>5, <1>6, HighestIsMax
<1>9. Cardinality(Page(r)) \in Nat
  BY <1>1, FS_Subset, FS_CardinalityType DEF StoreInv, SeqsBounded
<1> QED  BY <1>1, <1>2, <1>3, <1>5, <1>7, <1>8, <1>9

\* The stages of enqueue_handler keep the types.
LEMMA HandlerTypes ==
    ASSUME StoreInv, NEW q \in Request,
           HandlerStep(q) \/ Disconnect(q) \/ \E k \in Key : Enqueue(q, k)
    PROVE  TypeOK'
<1> USE DEF StoreInv, TypeOK, handlers, clients, bounds, HandlerPC, Handled
<1>1. ASSUME NEW k \in Key, Enqueue(q, k) PROVE TypeOK'
  BY <1>1, MailboxAssumption DEF Enqueue
<1>2. CASE CheckQuota(q)  BY <1>2 DEF CheckQuota
<1>3. CASE Select(q)
  <2>1. NextSequence(To(key[q])) \in Nat  BY KeyTypes, NextSequenceAbove
  <2> QED  BY <1>3, <2>1 DEF Select
<1>4. CASE StorageFails(q)  BY <1>4 DEF StorageFails
<1>5. CASE Insert(q)
  <2>1. seq[q] # 0  BY <1>5 DEF Insert, SnapshotFresh
  <2>2. [key |-> key[q], seq |-> seq[q], exp |-> exp[q]] \in Row  BY <2>1 DEF Row
  <2>3. stale' \in [Request -> BOOLEAN]  BY <1>5 DEF Insert, Overtake
  <2> QED  BY <1>5, <2>2, <2>3 DEF Insert
<1>6. CASE Reply(q)  BY <1>6, AnyKeyType DEF Reply, Return
<1>7. CASE Disconnect(q)  BY <1>7, AnyKeyType, MailboxAssumption DEF Disconnect, Return
<1> QED  BY <1>1, <1>2, <1>3, <1>4, <1>5, <1>6, <1>7 DEF HandlerStep

\* So do the pages and acks of a recipient.
LEMMA ClientTypes ==
    ASSUME StoreInv, NEW r \in Recipient, ClientStep(r) \/ ClientFails(r)
    PROVE  TypeOK'
<1> USE DEF StoreInv, TypeOK, handlers, clients, bounds, ClientPC
<1>1. CASE StartPull(r)
  <2>1. cursor' \in [Recipient -> Nat]  BY <1>1 DEF StartPull
  <2>2. owed' \in [Recipient -> SUBSET Row]  BY <1>1 DEF StartPull, RowsOf
  <2> QED  BY <1>1, <2>1, <2>2 DEF StartPull
<1>2. CASE PullPage(r)
  <2>1. /\ Page(r) \in SUBSET Row
        /\ got[r] \cup Page(r) \in SUBSET Row
        /\ Highest(Seqs(Page(r)), cursor[r]) \in Nat
        /\ Highest(Seqs(got[r] \cup Page(r)), watermark[r]) \in Nat
    BY PageTypes
  <2>3. got' \in [Recipient -> SUBSET Row]  BY <1>2, <2>1 DEF PullPage
  <2>4. {x.key : x \in got[r] \cup Page(r)} \subseteq Key  BY <2>1 DEF Row
  <2>5. /\ cpc' \in [Recipient -> ClientPC]
        /\ cursor' \in [Recipient -> Nat]
        /\ watermark' \in [Recipient -> Nat]
        /\ seen' \subseteq Key
    <3>1. CASE HasMore(Page(r))  BY <1>2, <2>1, <3>1 DEF PullPage
    <3>2. CASE ~HasMore(Page(r))  BY <1>2, <2>1, <2>4, <3>2 DEF PullPage
    <3> QED  BY <3>1, <3>2
  <2> QED  BY <1>2, <2>3, <2>5 DEF PullPage
<1>3. CASE Ack(r)
  <2>1. stale' \in [Request -> BOOLEAN]  BY <1>3 DEF Ack, OvertakeAll
  <2>2. rows' \subseteq Row  BY <1>3 DEF Ack
  <2> QED  BY <1>3, <2>1, <2>2 DEF Ack
<1>4. CASE ClientFails(r)  BY <1>4, MailboxAssumption DEF ClientFails
<1> QED  BY <1>1, <1>2, <1>3, <1>4 DEF ClientStep

\* Every step keeps the types.
LEMMA TypesPreserved ==
    ASSUME StoreInv, [Next]_vars
    PROVE  TypeOK'
<1> USE DEF StoreInv, TypeOK, handlers, clients, bounds
<1>1. CASE UNCHANGED vars  BY <1>1 DEF vars
<1>2. CASE Sweep
  <2>1. stale' \in [Request -> BOOLEAN]  BY <1>2 DEF Sweep, OvertakeAll
  <2>2. {x.key : x \in Expired} \subseteq Key  BY DEF Expired, Row
  <2>3. owed' \in [Recipient -> SUBSET Row]  BY <1>2 DEF Sweep
  <2>4. rows' \subseteq Row  BY <1>2 DEF Sweep
  <2> QED  BY <1>2, <2>1, <2>2, <2>3, <2>4 DEF Sweep
<1>3. CASE Crash
  <2>1. pc' \in [Request -> HandlerPC]  BY <1>3 DEF Crash, HandlerPC
  <2> QED  BY <1>3, <2>1, AnyKeyType, MailboxAssumption DEF Crash
<1>4. CASE Tick  BY <1>4, MailboxAssumption DEF Tick
<1> QED  BY <1>1, <1>2, <1>3, <1>4, HandlerTypes, ClientTypes DEF Next

-----------------------------------------------------------------------------
(* The table.                                                              *)

\* Steps that add no row and begin no insert keep the snapshots fresh.
LEMMA SnapshotKept ==
    ASSUME StoreInv, rows' \subseteq rows,
           \A q \in Request : pc'[q] = "insert" =>
               /\ pc[q] = "insert" /\ key'[q] = key[q] /\ seq'[q] = seq[q]
               /\ stale[q] => stale'[q]
    PROVE  SnapshotFresh'
BY DEF StoreInv, SnapshotFresh, Held, RowsOf

\* Removing rows keeps the rest of the table's invariant.
LEMMA TableShrinks ==
    ASSUME StoreInv, rows' \subseteq rows
    PROVE  SequencesUnique' /\ IsFiniteSet(rows') /\ Bounded(Seqs(rows)')
<1>1. SequencesUnique'  BY DEF StoreInv, SequencesUnique
<1>2. IsFiniteSet(rows')  BY FS_Subset DEF StoreInv, SeqsBounded
<1>3. Seqs(rows)' = Seqs(rows')  BY DEF Seqs
<1>4. Bounded(Seqs(rows'))  BY BoundedPart DEF StoreInv, SeqsBounded
<1> QED  BY <1>1, <1>2, <1>3, <1>4

\* A transaction that was not overtaken inserts a sequence of its own.
LEMMA InsertKeepsTable ==
    ASSUME StoreInv, NEW q \in Request, Insert(q)
    PROVE  SequencesUnique' /\ IsFiniteSet(rows') /\ Bounded(Seqs(rows)') /\ SnapshotFresh'
<1> DEFINE x == [key |-> key[q], seq |-> seq[q], exp |-> exp[q]]
<1>1. /\ rows' = rows \cup {x} /\ pc[q] = "insert" /\ ~stale[q]
      /\ pc' = [pc EXCEPT ![q] = "accepted"] /\ key' = key /\ seq' = seq
      /\ stale' = [p \in Request |-> stale[p] \/ (p # q /\ pc[p] = "insert")]
  BY DEF Insert, Refused, Handled, Overtake
<1>2. x \in Row /\ rows \subseteq Row /\ key[q] \in Key
  BY <1>1 DEF StoreInv, TypeOK, SnapshotFresh, Row
<1>3. \A y \in rows : To(y.key) = To(key[q]) => y.seq < seq[q]
  BY <1>1 DEF StoreInv, SnapshotFresh, RowsOf
<1>4. SequencesUnique'
  <2>1. x.key = key[q] /\ x.seq = seq[q]  OBVIOUS
  <2>2. \A y \in rows : y.seq \in Nat  BY <1>2 DEF Row
  <2>3. seq[q] \in Nat  BY DEF StoreInv, TypeOK
  <2>4. \A y \in rows : ~(To(y.key) = To(key[q]) /\ y.seq = seq[q])  BY <1>3, <2>2, <2>3
  <2> HIDE DEF x
  <2> QED  BY <1>1, <2>1, <2>4 DEF StoreInv, SequencesUnique
<1>5. IsFiniteSet(rows')  BY <1>1, FS_AddElement DEF StoreInv, SeqsBounded
<1>6. Bounded(Seqs(rows)')
  <2>1. Bounded(Seqs({x}))
    <3>1. seq[q] \in Nat  BY DEF StoreInv, TypeOK
    <3> QED  BY <3>1 DEF Bounded, Seqs
  <2>2. {x} \in SUBSET Row  BY <1>2
  <2>3. Bounded(Seqs(rows \cup {x}))  BY <1>2, <2>1, <2>2, BoundedUnion DEF StoreInv, SeqsBounded
  <2> QED  BY <1>1, <2>3 DEF Seqs
<1>7. SnapshotFresh'
  <2> SUFFICES ASSUME NEW p \in Request, pc'[p] = "insert"
               PROVE  seq'[p] # 0 /\ stale'[p]
    BY DEF SnapshotFresh
  <2>1. p # q /\ pc[p] = "insert"  BY <1>1 DEF StoreInv, TypeOK
  <2> QED  BY <1>1, <2>1 DEF StoreInv, SnapshotFresh
<1> QED  BY <1>4, <1>5, <1>6, <1>7

\* The stages of enqueue_handler keep the sequences of an inbox apart.
LEMMA HandlerStore ==
    ASSUME StoreInv, NEW q \in Request,
           HandlerStep(q) \/ Disconnect(q) \/ \E k \in Key : Enqueue(q, k)
    PROVE  SequencesUnique' /\ SnapshotFresh' /\ SeqsBounded'
<1>1. got' = got
  BY DEF HandlerStep, Disconnect, Enqueue, CheckQuota, Select, StorageFails, Insert, Reply, Return, clients
<1>2. \A r \in Recipient : Bounded(Seqs(got[r])')  BY <1>1 DEF StoreInv, SeqsBounded, Seqs
<1>3. CASE Insert(q)  BY <1>2, <1>3, InsertKeepsTable DEF SeqsBounded
<1>4. CASE rows' = rows
  <2>1. SequencesUnique' /\ SeqsBounded'  BY <1>2, <1>4, TableShrinks DEF SeqsBounded
  <2>2. CASE Select(q)
    <3>1. NextSequence(To(key[q])) \in Nat \ {0}
          /\ \A x \in RowsOf(To(key[q])) : x.seq < NextSequence(To(key[q]))
      BY KeyTypes, NextSequenceAbove DEF StoreInv, TypeOK
    <3>2. Held' = Held  BY <1>4 DEF Held
    <3>3. \A r : RowsOf(r)' = {x \in rows : To(x.key) = r}  BY <1>4 DEF RowsOf
    <3>4. key' = key /\ stale' = stale  BY <2>2 DEF Select
    <3>5. SUFFICES ASSUME NEW p \in Request, pc'[p] = "insert"
                   PROVE  /\ seq'[p] # 0
                          /\ ~stale'[p] => /\ key'[p] \notin Held'
                                           /\ \A x \in rows : To(x.key) = To(key[p]) => x.seq < seq'[p]
      BY <1>4, <2>1, <3>4 DEF SnapshotFresh, RowsOf
    <3>6. CASE p = q
      BY <2>2, <3>1, <3>2, <3>4, <3>5, <3>6 DEF Select, Handled, StoreInv, TypeOK, RowsOf
    <3>7. CASE p # q
      BY <2>2, <3>2, <3>4, <3>5, <3>7 DEF Select, Handled, StoreInv, TypeOK, SnapshotFresh, RowsOf
    <3> QED  BY <3>6, <3>7, <2>1
  <2>3. CASE ~Select(q) /\ ~Insert(q)
    <3>1. \A p \in Request : pc'[p] = "insert" =>
               /\ pc[p] = "insert" /\ key'[p] = key[p] /\ seq'[p] = seq[p]
               /\ stale[p] => stale'[p]
      BY <2>3 DEF HandlerStep, Disconnect, Enqueue, CheckQuota, StorageFails, Reply, Return, Handled,
                  StoreInv, TypeOK, HandlerPC
    <3> QED  BY <1>4, <2>1, <3>1, SnapshotKept
  <2> QED  BY <1>3, <2>2, <2>3
<1> QED
  BY <1>3, <1>4 DEF HandlerStep, Disconnect, Enqueue, CheckQuota, Select, StorageFails, Reply, Return

\* So do pull, ack, sweep, crash and time.
LEMMA OtherStore ==
    ASSUME StoreInv,
           \/ \E r \in Recipient : ClientStep(r) \/ ClientFails(r)
           \/ Sweep \/ Crash \/ Tick
    PROVE  SequencesUnique' /\ SnapshotFresh' /\ SeqsBounded'
<1>1. rows' \subseteq rows
  BY DEF ClientStep, StartPull, PullPage, Ack, ClientFails, Sweep, Crash, Tick
<1>2. \A q \in Request : pc'[q] = "insert" =>
          /\ pc[q] = "insert" /\ key'[q] = key[q] /\ seq'[q] = seq[q]
          /\ stale[q] => stale'[q]
  BY DEF ClientStep, StartPull, PullPage, Ack, ClientFails, Sweep, Crash, Tick, handlers, OvertakeAll
<1>3. SequencesUnique' /\ SnapshotFresh' /\ IsFiniteSet(rows') /\ Bounded(Seqs(rows)')
  BY <1>1, <1>2, SnapshotKept, TableShrinks
<1>4. \A r \in Recipient : Bounded(Seqs(got'[r]))
  <2>1. ASSUME NEW r \in Recipient, PullPage(r)
        PROVE  \A p \in Recipient : Bounded(Seqs(got'[p]))
    <3>1. got' = [got EXCEPT ![r] = got[r] \cup Page(r)]  BY <2>1 DEF PullPage
    <3>2. Bounded(Seqs(got[r] \cup Page(r)))  BY PageTypes
    <3> QED  BY <3>1, <3>2 DEF StoreInv, TypeOK, SeqsBounded
  <2>2. ASSUME NEW r \in Recipient, got' = [got EXCEPT ![r] = {}]
        PROVE  \A p \in Recipient : Bounded(Seqs(got'[p]))
    <3>1. Bounded(Seqs({}))  BY DEF Bounded, Seqs
    <3> QED  BY <2>2, <3>1 DEF StoreInv, TypeOK, SeqsBounded
  <2>3. CASE got' = got  BY <2>3 DEF StoreInv, SeqsBounded
  <2> QED  BY <2>1, <2>2, <2>3 DEF ClientStep, StartPull, Ack, ClientFails, Sweep, Crash, Tick, clients
<1>5. \A r \in Recipient : Seqs(got[r])' = Seqs(got'[r])  BY DEF Seqs
<1> QED  BY <1>3, <1>4, <1>5 DEF SeqsBounded

\* Every step preserves the invariant of the table.
LEMMA NextStore == StoreInv /\ [Next]_vars => StoreInv'
<1> SUFFICES ASSUME StoreInv, [Next]_vars PROVE StoreInv'  OBVIOUS
<1>1. TypeOK'  BY TypesPreserved
<1>2. CASE UNCHANGED vars
  BY <1>1, <1>2 DEF vars, handlers, clients, StoreInv, SeqsBounded, SnapshotFresh, SequencesUnique,
                    Held, RowsOf, Seqs, Bounded
<1>3. CASE Next
  BY <1>1, <1>3, HandlerStore, OtherStore DEF Next, StoreInv
<1> QED  BY <1>2, <1>3

(* In every reachable state the table, the handlers and the clients have     *)
(* their types; the first sequence given out is 1.                          *)
THEOREM TypeCorrect == Spec => []TypeOK
<1>1. StoreInv => TypeOK  BY DEF StoreInv
<1> QED  BY <1>1, InitStore, NextStore, PTL DEF Spec

(* No two envelopes of an inbox have one sequence number: SQLite's refusal   *)
(* of overtaken transactions is enough, whatever connections the handlers    *)
(* hold.                                                                    *)
THEOREM DistinctSequences == Spec => []SequencesUnique
<1>1. StoreInv => SequencesUnique  BY DEF StoreInv
<1> QED  BY <1>1, InitStore, NextStore, PTL DEF Spec

(* The UNIQUE constraint never fires (sqlite_store.rs:12-15).               *)
THEOREM NoConstraintFailure == Spec => []UniqueNeverFires
<1>1. StoreInv => UniqueNeverFires  BY DEF StoreInv, SnapshotFresh, UniqueNeverFires
<1> QED  BY <1>1, InitStore, NextStore, PTL DEF Spec

-----------------------------------------------------------------------------
(* The promise.                                                            *)

\* The idempotency key is a key of the table.
OneRowPerKey == \A x, y \in rows : x.key = y.key => x = y

\* What a client has collected is of its own inbox; before it is handed over it is
\* stored or expired, afterwards it has been seen.
Collected ==
    \A r \in Recipient :
        /\ cpc[r] = "idle" => got[r] = {}
        /\ \A x \in got[r] :
            /\ To(x.key) = r
            /\ cpc[r] = "pull" => x.key \in Held \cup expired
            /\ cpc[r] = "ack" => x.key \in seen

\* A success that has not reached its sender yet is a success.
Answered == \A q \in Request : Succeeded(q) => key[q] \in Held \cup seen \cup expired

PromiseInv == StoreInv /\ OneRowPerKey /\ Collected /\ Answered /\ ConfirmedKept

\* The empty mailbox has promised nothing.
LEMMA InitPromise == Init => PromiseInv
<1> SUFFICES ASSUME Init PROVE PromiseInv  OBVIOUS
<1>1. OneRowPerKey /\ Collected /\ Answered /\ ConfirmedKept
  BY DEF Init, OneRowPerKey, Collected, Answered, ConfirmedKept, Succeeded
<1> QED  BY <1>1, InitStore DEF PromiseInv

\* While nothing is forgotten, successes stay justified.
LEMMA NothingForgotten ==
    ASSUME PromiseInv, Held \subseteq Held' \cup seen' \cup expired',
           seen \subseteq seen', expired \subseteq expired', confirmed' = confirmed,
           pc' = pc, key' = key
    PROVE  Answered' /\ ConfirmedKept'
BY DEF PromiseInv, Answered, ConfirmedKept, Succeeded

\* An ack takes out of the store only what its recipient has seen.
LEMMA HeldAfterAck ==
    ASSUME IdsUnique, PromiseInv, NEW r \in Recipient, Ack(r)
    PROVE  LET S == {x.key : x \in Acked(r)}
           IN  S \subseteq seen /\ S \subseteq Key /\ Held' = Held \ S
               /\ \A k \in S : To(k) = r
<1> DEFINE S == {x.key : x \in Acked(r)}
<1>1. cpc[r] = "ack" /\ rows' = rows \ Acked(r)  BY DEF Ack
<1>2. rows \subseteq Row /\ got[r] \in SUBSET Row  BY DEF PromiseInv, StoreInv, TypeOK
<1>3. \A x \in Acked(r) : x \in rows /\ x.key \in Key /\ To(x.key) = r
                          /\ \E y \in got[r] : Id(y.key) = Id(x.key)
  BY <1>2 DEF Acked, RowsOf, Row
<1>4. \A y \in got[r] : y.key \in Key /\ To(y.key) = r /\ y.key \in seen
  BY <1>1, <1>2 DEF PromiseInv, Collected, Row
<1>5. \A x \in Acked(r) : x.key \in seen  BY <1>3, <1>4 DEF IdsUnique
<1>6. \A x \in rows : x.key \in S => x \in Acked(r)  BY <1>3 DEF Acked, RowsOf
<1>7. Held' = Held \ S  BY <1>1, <1>6 DEF Held
<1> QED  BY <1>3, <1>5, <1>7

\* A sweep takes out of the store what it marks expired.
LEMMA HeldAfterSweep ==
    ASSUME PromiseInv, Sweep
    PROVE  LET S == {x.key : x \in Expired}
           IN  S \subseteq Held /\ S \subseteq Key /\ Held' = Held \ S /\ expired' = expired \cup S
<1> DEFINE S == {x.key : x \in Expired}
<1>1. rows' = rows \ Expired /\ expired' = expired \cup S  BY DEF Sweep
<1>2. Expired \subseteq rows /\ rows \subseteq Row  BY DEF Expired, PromiseInv, StoreInv, TypeOK
<1>3. \A x \in rows : x.key \in S => x \in Expired  BY <1>2 DEF PromiseInv, OneRowPerKey
<1>4. Held' = Held \ S  BY <1>1, <1>2, <1>3 DEF Held
<1>5. S \subseteq Held /\ S \subseteq Key  BY <1>2 DEF Held, Row
<1> QED  BY <1>1, <1>4, <1>5

\* The handlers' steps: an insert stores, a reply confirms.
LEMMA HandlerPromise ==
    ASSUME PromiseInv, NEW q \in Request,
           HandlerStep(q) \/ Disconnect(q) \/ \E k \in Key : Enqueue(q, k)
    PROVE  /\ OneRowPerKey' /\ Collected' /\ Answered' /\ ConfirmedKept'
           /\ [Promise!Next]_<<Held, seen, confirmed, expired>>
<1>1. UNCHANGED <<cpc, got, seen, expired>>
  BY DEF HandlerStep, Disconnect, Enqueue, CheckQuota, Select, StorageFails, Insert, Reply, Return, clients
<1>2. CASE Insert(q)
  <2> DEFINE x == [key |-> key[q], seq |-> seq[q], exp |-> exp[q]]
  <2>1. rows' = rows \cup {x} /\ key[q] \notin Held /\ key[q] \in Key
        /\ pc' = [pc EXCEPT ![q] = "accepted"] /\ key' = key /\ confirmed' = confirmed
    BY <1>2 DEF Insert, Refused, Handled, PromiseInv, StoreInv, TypeOK
  <2>2. x.key = key[q]  OBVIOUS
  <2>3. Held' = Held \cup {key[q]} /\ OneRowPerKey'
    <3> HIDE DEF x
    <3>1. Held' = Held \cup {key[q]}  BY <2>1, <2>2 DEF Held
    <3>2. \A y \in rows : y.key # key[q]  BY <2>1 DEF Held
    <3>3. OneRowPerKey'  BY <2>1, <2>2, <3>2 DEF OneRowPerKey, PromiseInv
    <3> QED  BY <3>1, <3>3
  <2>4. Collected'  BY <1>1, <2>3 DEF Collected, PromiseInv
  <2>5. Answered'  BY <1>1, <2>1, <2>3 DEF Answered, Succeeded, PromiseInv, StoreInv, TypeOK
  <2>6. ConfirmedKept'  BY <1>1, <2>1, <2>3 DEF ConfirmedKept, PromiseInv
  <2>7. Promise!Store(key[q])  BY <1>1, <2>1, <2>3 DEF Promise!Store
  <2> QED  BY <2>1, <2>3, <2>4, <2>5, <2>6, <2>7 DEF Promise!Next
<1>3. CASE ~Insert(q)
  <2>1. rows' = rows
    BY <1>3 DEF HandlerStep, Disconnect, Enqueue, CheckQuota, Select, StorageFails, Reply, Return
  <2>2. Held' = Held /\ OneRowPerKey'  BY <2>1 DEF Held, OneRowPerKey, PromiseInv
  <2>3. Collected'  BY <1>1, <2>2 DEF Collected, PromiseInv
  <2>4. CASE Reply(q)
    <3>1. confirmed' = confirmed \/ (Succeeded(q) /\ confirmed' = confirmed \cup {key[q]})
      BY <2>4 DEF Reply
    <3>2. Succeeded(q) => key[q] \in Held \cup seen \cup expired  BY DEF PromiseInv, Answered
    <3>3. ConfirmedKept'  BY <1>1, <2>2, <3>1, <3>2 DEF ConfirmedKept, PromiseInv
    <3>4. Answered'
      <4>1. pc' = [pc EXCEPT ![q] = "idle"] /\ key' = [key EXCEPT ![q] = AnyKey]
        BY <2>4 DEF Reply, Return
      <4> QED  BY <1>1, <2>2, <4>1 DEF Answered, Succeeded, PromiseInv, StoreInv, TypeOK
    <3>5. key[q] \in Key  BY DEF PromiseInv, StoreInv, TypeOK
    <3>6. Promise!Confirm(key[q]) \/ UNCHANGED <<Held, seen, confirmed, expired>>
      BY <1>1, <2>2, <3>1, <3>2 DEF Promise!Confirm
    <3> QED  BY <2>2, <2>3, <3>3, <3>4, <3>5, <3>6 DEF Promise!Next
  <2>5. CASE ~Reply(q)
    <3>1. confirmed' = confirmed
      BY <1>3, <2>5 DEF HandlerStep, Disconnect, Enqueue, CheckQuota, Select, StorageFails
    <3>2. ConfirmedKept'  BY <1>1, <2>2, <3>1 DEF ConfirmedKept, PromiseInv
    <3>3. Answered'
      <4>1. CASE Select(q)
        BY <1>1, <2>2, <4>1 DEF Select, Handled, Answered, Succeeded, PromiseInv, StoreInv, TypeOK
      <4>2. CASE Disconnect(q)
        BY <1>1, <2>2, <4>2 DEF Disconnect, Return, Answered, Succeeded, PromiseInv, StoreInv, TypeOK
      <4>3. CASE CheckQuota(q) \/ StorageFails(q)
        BY <1>1, <2>2, <4>3 DEF CheckQuota, StorageFails, Handled, Answered, Succeeded, PromiseInv,
                                StoreInv, TypeOK
      <4>4. CASE \E k \in Key : Enqueue(q, k)
        BY <1>1, <2>2, <4>4 DEF Enqueue, Handled, Answered, Succeeded, PromiseInv, StoreInv, TypeOK
      <4> QED  BY <1>3, <2>5, <4>1, <4>2, <4>3, <4>4 DEF HandlerStep
    <3> QED  BY <1>1, <2>2, <2>3, <3>1, <3>2, <3>3
  <2> QED  BY <2>4, <2>5
<1> QED  BY <1>2, <1>3

\* The clients' steps: the last page hands over, an ack acknowledges.
LEMMA ClientPromise ==
    ASSUME IdsUnique, PromiseInv, NEW r \in Recipient, ClientStep(r) \/ ClientFails(r)
    PROVE  /\ OneRowPerKey' /\ Collected' /\ Answered' /\ ConfirmedKept'
           /\ [Promise!Next]_<<Held, seen, confirmed, expired>>
<1>1. /\ rows' \subseteq rows
      /\ UNCHANGED <<pc, key, confirmed, expired>>
  BY DEF ClientStep, StartPull, PullPage, Ack, ClientFails, handlers
<1>2. OneRowPerKey'  BY <1>1 DEF OneRowPerKey, PromiseInv
<1>3. cpc \in [Recipient -> ClientPC] /\ got \in [Recipient -> SUBSET Row]
  BY DEF PromiseInv, StoreInv, TypeOK
<1>4. CASE StartPull(r)
  <2>1. Held' = Held /\ seen' = seen  BY <1>4 DEF StartPull, Held
  <2>2. Collected'
    BY <1>1, <1>3, <1>4, <2>1 DEF StartPull, Collected, PromiseInv
  <2> QED  BY <1>1, <1>2, <2>1, <2>2, NothingForgotten
<1>5. CASE PullPage(r)
  <2>1. Held' = Held  BY <1>5 DEF PullPage, Held
  <2> DEFINE all == got[r] \cup Page(r)
  <2>2. cpc[r] = "pull" /\ got' = [got EXCEPT ![r] = all]  BY <1>5 DEF PullPage
  <2>3. \A x \in all : To(x.key) = r /\ x.key \in Held \cup expired /\ x.key \in Key
    <3>1. \A x \in Page(r) : x \in rows /\ To(x.key) = r  BY DEF Page, RowsOf
    <3>2. \A x \in got[r] : To(x.key) = r /\ x.key \in Held \cup expired
      BY <2>2 DEF PromiseInv, Collected
    <3>3. all \subseteq Row  BY <1>3, <3>1 DEF PromiseInv, StoreInv, TypeOK
    <3> QED  BY <3>1, <3>2, <3>3 DEF Held, Row
  <2> HIDE DEF all
  <2>4. CASE HasMore(Page(r))
    <3>1. cpc' = cpc /\ seen' = seen  BY <1>5, <2>4 DEF PullPage
    <3>2. Collected'  BY <1>1, <1>3, <2>1, <2>2, <2>3, <3>1 DEF Collected, PromiseInv
    <3> QED  BY <1>1, <1>2, <2>1, <3>1, <3>2, NothingForgotten
  <2>5. CASE ~HasMore(Page(r))
    <3> DEFINE S == {x.key : x \in all}
    <3>1. cpc' = [cpc EXCEPT ![r] = "ack"] /\ seen' = seen \cup S
      BY <1>5, <2>5 DEF PullPage, all
    <3>2. Collected'  BY <1>1, <1>3, <2>1, <2>2, <2>3, <3>1 DEF Collected, PromiseInv
    <3>3. S \subseteq Held \cup expired /\ S \in SUBSET Key  BY <2>3
    <3>4. Promise!HandOver(S)  BY <1>1, <2>1, <3>1, <3>3 DEF Promise!HandOver
    <3>5. Promise!Next
      <4> HIDE DEF S
      <4> QED  BY <3>3, <3>4 DEF Promise!Next
    <3> QED  BY <1>1, <1>2, <2>1, <3>1, <3>2, <3>5, NothingForgotten
  <2> QED  BY <2>4, <2>5
<1>6. CASE Ack(r)
  <2> DEFINE S == {x.key : x \in Acked(r)}
  <2>1. S \subseteq seen /\ S \in SUBSET Key /\ Held' = Held \ S /\ \A k \in S : To(k) = r
    BY <1>6, HeldAfterAck
  <2> HIDE DEF S
  <2>2. seen' = seen /\ cpc' = [cpc EXCEPT ![r] = "idle"] /\ got' = [got EXCEPT ![r] = {}]
    BY <1>6 DEF Ack
  <2>3. Collected'
    <3> SUFFICES ASSUME NEW p \in Recipient
                 PROVE  /\ cpc'[p] = "idle" => got'[p] = {}
                        /\ \A x \in got'[p] :
                            /\ To(x.key) = p
                            /\ cpc'[p] = "pull" => x.key \in Held' \cup expired'
                            /\ cpc'[p] = "ack" => x.key \in seen'
      BY DEF Collected
    <3>1. CASE p = r  BY <1>3, <2>2, <3>1
    <3>2. CASE p # r
      <4>1. cpc'[p] = cpc[p] /\ got'[p] = got[p]  BY <1>3, <2>2, <3>2
      <4>2. \A x \in got[p] : x.key \notin S  BY <2>1, <3>2 DEF PromiseInv, Collected
      <4> QED  BY <1>1, <2>1, <2>2, <4>1, <4>2 DEF PromiseInv, Collected
    <3> QED  BY <3>1, <3>2
  <2>4. Promise!Acknowledge(S)  BY <1>1, <2>1, <2>2 DEF Promise!Acknowledge
  <2> QED  BY <1>1, <1>2, <2>1, <2>2, <2>3, <2>4, NothingForgotten DEF Promise!Next
<1>7. CASE ClientFails(r)
  <2>1. Held' = Held /\ seen' = seen  BY <1>7 DEF ClientFails, Held
  <2>2. Collected'
    BY <1>1, <1>3, <1>7, <2>1 DEF ClientFails, Collected, PromiseInv
  <2> QED  BY <1>1, <1>2, <2>1, <2>2, NothingForgotten
<1> QED  BY <1>4, <1>5, <1>6, <1>7 DEF ClientStep

\* Every step of the mailbox is a step of StoreAndForward or a stutter.
LEMMA NextPromise ==
    ASSUME IdsUnique, PromiseInv, [Next]_vars
    PROVE  PromiseInv' /\ [Promise!Next]_<<Held, seen, confirmed, expired>>
<1>1. StoreInv'  BY NextStore DEF PromiseInv
<1> SUFFICES /\ OneRowPerKey' /\ Collected' /\ Answered' /\ ConfirmedKept'
             /\ [Promise!Next]_<<Held, seen, confirmed, expired>>
  BY <1>1 DEF PromiseInv
<1>2. CASE UNCHANGED vars \/ Tick
  <2>1. UNCHANGED <<rows, pc, key, cpc, got, seen, confirmed, expired>>
    BY <1>2 DEF vars, Tick, handlers, clients
  <2>2. Held' = Held  BY <2>1 DEF Held
  <2> QED  BY <2>1, <2>2, NothingForgotten DEF OneRowPerKey, Collected, PromiseInv
<1>3. CASE Sweep
  <2> DEFINE S == {x.key : x \in Expired}
  <2>1. S \subseteq Held /\ S \in SUBSET Key /\ Held' = Held \ S /\ expired' = expired \cup S
    BY <1>3, HeldAfterSweep
  <2> HIDE DEF S
  <2>2. rows' \subseteq rows /\ UNCHANGED <<pc, key, cpc, got, seen, confirmed>>
    BY <1>3 DEF Sweep
  <2>3. OneRowPerKey' /\ Collected'  BY <2>1, <2>2 DEF OneRowPerKey, Collected, PromiseInv
  <2>4. Promise!Expire(S)  BY <2>1, <2>2 DEF Promise!Expire
  <2> QED  BY <2>1, <2>2, <2>3, <2>4, NothingForgotten DEF Promise!Next
<1>4. CASE Crash
  <2>1. UNCHANGED <<rows, cpc, got, seen, confirmed, expired>> /\ pc' = [q \in Request |-> "idle"]
    BY <1>4 DEF Crash, clients
  <2>2. Held' = Held  BY <2>1 DEF Held
  <2> QED
    BY <2>1, <2>2 DEF OneRowPerKey, Collected, Answered, Succeeded, ConfirmedKept, PromiseInv
<1> QED  BY <1>2, <1>3, <1>4, HandlerPromise, ClientPromise DEF Next

(* At-least-once: when message ids are unique, an envelope whose sender got  *)
(* a 2xx reply is stored, was handed over or expired.                       *)
THEOREM NothingLost == ASSUME IdsUnique PROVE Spec => []ConfirmedKept
<1>1. PromiseInv /\ [Next]_vars => PromiseInv'  BY NextPromise
<1>2. PromiseInv => ConfirmedKept  BY DEF PromiseInv
<1> QED  BY <1>1, <1>2, InitPromise, PTL DEF Spec

(* The server, its transactions, crashes and the paging clients implement    *)
(* the atomic at-least-once store, when message ids are unique.             *)
THEOREM Refinement == ASSUME IdsUnique PROVE Spec => KeepsPromise
<1>1. PromiseInv /\ [Next]_vars => PromiseInv'  BY NextPromise
<1>2. PromiseInv /\ [Next]_vars => [Promise!Next]_<<Held, seen, confirmed, expired>>  BY NextPromise
<1>3. Init => Promise!Init  BY DEF Init, Promise!Init, Held
<1> QED  BY <1>1, <1>2, <1>3, InitPromise, PTL DEF Spec, KeepsPromise, Promise!Spec, Promise!vars

-----------------------------------------------------------------------------
(* Paging.                                                                 *)

\* The rows of S that come before x.
Before(S, x) == {y \in S : y.seq < x.seq}

\* ORDER BY sequence LIMIT n
FirstRows(S, n) == {x \in S : Cardinality(Before(S, x)) < n}

\* The rows before a row can be counted.
LEMMA BeforeFinite ==
    ASSUME NEW S, IsFiniteSet(S), NEW x
    PROVE  IsFiniteSet(Before(S, x)) /\ Cardinality(Before(S, x)) \in Nat
BY FS_Subset, FS_CardinalityType DEF Before

\* A row that a page leaves out comes after the whole page.
LEMMA LeftOutAfter ==
    ASSUME NEW S \in SUBSET Row, IsFiniteSet(S), NEW n \in Nat,
           NEW x \in S \ FirstRows(S, n), NEW z \in FirstRows(S, n)
    PROVE  z.seq < x.seq
<1>1. z \in S /\ z.seq \in Nat /\ x.seq \in Nat  BY DEF FirstRows, Row
<1> SUFFICES ASSUME x.seq <= z.seq PROVE FALSE  BY <1>1
<1>2. Before(S, x) \in SUBSET Before(S, z)
  <2>1. \A y \in S : y.seq \in Nat  BY DEF Row
  <2> QED  BY <1>1, <2>1 DEF Before
<1>3. Cardinality(Before(S, x)) <= Cardinality(Before(S, z))  BY <1>2, BeforeFinite, FS_Subset
<1>4. Cardinality(Before(S, z)) < n /\ ~(Cardinality(Before(S, x)) < n)  BY DEF FirstRows
<1>5. Cardinality(Before(S, x)) \in Nat /\ Cardinality(Before(S, z)) \in Nat  BY BeforeFinite
<1> QED  BY <1>3, <1>4, <1>5

\* A page is no longer than its limit when sequences are distinct: the rank is an injection.
LEMMA PageAtMost ==
    ASSUME NEW S \in SUBSET Row, IsFiniteSet(S), NEW n \in Nat,
           \A x, y \in S : x.seq = y.seq => x = y
    PROVE  Cardinality(FirstRows(S, n)) <= n
<1> DEFINE P == FirstRows(S, n)
           rank == [x \in P |-> Cardinality(Before(S, x))]
<1>1. \A x \in P : x \in S /\ Cardinality(Before(S, x)) \in 0 .. n - 1
  BY BeforeFinite DEF FirstRows
<1>2. ASSUME NEW x \in S, NEW y \in S, x.seq < y.seq
      PROVE  Cardinality(Before(S, x)) # Cardinality(Before(S, y))
  <2>1. \A z \in S : z.seq \in Nat  BY DEF Row
  <2>2. Before(S, x) \in SUBSET Before(S, y)  BY <1>2, <2>1 DEF Before
  <2>3. x \in Before(S, y) /\ x \notin Before(S, x)  BY <1>2, <2>1 DEF Before
  <2> QED  BY <2>2, <2>3, BeforeFinite, FS_Subset
<1>3. \A x, y \in P : Cardinality(Before(S, x)) = Cardinality(Before(S, y)) => x = y
  <2>1. \A x \in S : x.seq \in Nat  BY DEF Row
  <2>2. \A x, y \in S : x.seq < y.seq \/ y.seq < x.seq \/ x = y  BY <2>1
  <2> QED  BY <1>1, <1>2, <2>2
<1> HIDE DEF P
<1>4. rank \in Injection(P, 0 .. n - 1)
  <2>1. rank \in [P -> 0 .. n - 1]  BY <1>1
  <2>2. \A x, y \in P : rank[x] = rank[y] => x = y  BY <1>3
  <2> QED  BY <2>1, <2>2 DEF Injection, IsInjective
<1>5. IsFiniteSet(0 .. n - 1) /\ Cardinality(0 .. n - 1) = n  BY FS_Interval
<1> QED  BY <1>4, <1>5, FS_Injection DEF P

\* A least row exists in every set of rows that is not empty.
LEMMA LeastExists ==
    ASSUME NEW S \in SUBSET Row, S # {}
    PROVE  \E m \in S : \A x \in S : m.seq <= x.seq
<1> DEFINE R == {ss \in Nat \X Nat : ss[1] < ss[2]}
<1>1. Seqs(S) \in SUBSET Nat /\ Seqs(S) # {}
  <2>1. Seqs(S) # {}  BY DEF Seqs
  <2> QED  BY <2>1, SeqsType
<1>2. \E m \in Seqs(S) : \A n \in Seqs(S) : ~(<<n, m>> \in R)
  <2>1. IsWellFoundedOn(R, Nat)  BY NatLessThanWellFounded DEF OpToRel
  <2> HIDE DEF R
  <2> QED  BY <1>1, <2>1, WFMin
<1>3. PICK m \in Seqs(S) : \A n \in Seqs(S) : ~(n < m)  BY <1>1, <1>2
<1>4. PICK x \in S : x.seq = m  BY <1>3 DEF Seqs
<1>5. \A y \in S : y.seq \in Seqs(S)  BY DEF Seqs
<1>6. \A y \in S : x.seq <= y.seq  BY <1>1, <1>3, <1>4, <1>5
<1> QED  BY <1>6

\* A page that leaves a row out is full: this is what has_more rests on.
LEMMA LeftOutFull ==
    ASSUME NEW S \in SUBSET Row, IsFiniteSet(S), NEW n \in Nat,
           \A x, y \in S : x.seq = y.seq => x = y,
           S \ FirstRows(S, n) # {}
    PROVE  Cardinality(FirstRows(S, n)) = n
<1> DEFINE P == FirstRows(S, n)
<1>1. P \in SUBSET S  BY DEF FirstRows
<1>2. S \ P \in SUBSET Row /\ S \ P # {}  OBVIOUS
<1>3. PICK m \in S \ P : \A x \in S \ P : m.seq <= x.seq
  <2> HIDE DEF P
  <2> QED  BY <1>2, LeastExists
<1>4. \A x \in S : x.seq \in Nat  BY DEF Row
<1>5. Before(S, m) \in SUBSET P  BY <1>3, <1>4 DEF Before
<1>6. IsFiniteSet(P) /\ Cardinality(P) \in Nat /\ Cardinality(Before(S, m)) <= Cardinality(P)
  <2> HIDE DEF P
  <2>1. IsFiniteSet(P)  BY <1>1, FS_Subset
  <2> QED  BY <2>1, <1>5, FS_Subset, FS_CardinalityType
<1>7. ~(Cardinality(Before(S, m)) < n) /\ Cardinality(Before(S, m)) \in Nat
  BY <1>3, BeforeFinite DEF FirstRows
<1>8. Cardinality(P) <= n  BY PageAtMost
<1> QED  BY <1>6, <1>7, <1>8

\* What a pull_all under way owes it has collected or will still meet.
PullInv ==
    \A r \in Recipient : \A x \in owed[r] :
        /\ cpc[r] = "pull" => x \in got[r] \/ (x \in RowsOf(r) /\ x.seq > cursor[r])
        /\ cpc[r] = "ack" => x \in got[r]

\* The rows a page is taken from.
After(r) == {x \in RowsOf(r) : x.seq > cursor[r]}

\* A page is the first PageSize rows after the cursor, and their sequences differ.
LEMMA PageIsFirst ==
    ASSUME StoreInv, NEW r \in Recipient
    PROVE  /\ Page(r) = FirstRows(After(r), PageSize)
           /\ After(r) \in SUBSET Row /\ IsFiniteSet(After(r))
           /\ \A x, y \in After(r) : x.seq = y.seq => x = y
<1>1. Page(r) = FirstRows(After(r), PageSize)  BY DEF Page, FirstRows, Before, After
<1>2. After(r) \in SUBSET rows /\ rows \in SUBSET Row  BY DEF After, RowsOf, StoreInv, TypeOK
<1>3. IsFiniteSet(After(r))  BY <1>2, FS_Subset DEF StoreInv, SeqsBounded
<1>4. \A x, y \in After(r) : x.seq = y.seq => x = y
  BY DEF After, RowsOf, StoreInv, SequencesUnique
<1> QED  BY <1>1, <1>2, <1>3, <1>4

\* The page of a pull_all, and the place of the next one.
LEMMA PagePull ==
    ASSUME StoreInv, PullInv, NEW r \in Recipient, PullPage(r)
    PROVE  PullInv'
<1> DEFINE page == Page(r)
<1>1. /\ cpc[r] = "pull" /\ got' = [got EXCEPT ![r] = got[r] \cup page]
      /\ rows' = rows /\ owed' = owed
  BY DEF PullPage
<1>2. /\ page = FirstRows(After(r), PageSize)
      /\ After(r) \in SUBSET Row /\ IsFiniteSet(After(r))
      /\ \A x, y \in After(r) : x.seq = y.seq => x = y
  BY PageIsFirst
<1>3. PageSize \in Nat  BY MailboxAssumption
<1>4. /\ cpc \in [Recipient -> ClientPC] /\ cursor \in [Recipient -> Nat]
      /\ got \in [Recipient -> SUBSET Row]
  BY DEF StoreInv, TypeOK
<1>5. \A x \in owed[r] : x \in got[r] \/ x \in After(r)  BY <1>1 DEF PullInv, After
<1>6. \A p : RowsOf(p)' = RowsOf(p)  BY <1>1 DEF RowsOf
<1>7. CASE HasMore(page)
  <2>1. cpc' = cpc /\ cursor' = [cursor EXCEPT ![r] = Highest(Seqs(page), cursor[r])]
    BY <1>4, <1>7 DEF PullPage
  <2>2. ASSUME NEW x \in After(r) \ page
        PROVE  x.seq > Highest(Seqs(page), cursor[r])
    <3>1. \A z \in page : z.seq < x.seq
      <4> HIDE DEF page
      <4> QED  BY <1>2, <1>3, <2>2, LeftOutAfter
    <3>2. page \in SUBSET Row /\ Bounded(Seqs(page)) /\ Seqs(page) \in SUBSET Nat
      <4>1. page \subseteq rows /\ page \in SUBSET Row  BY PageTypes
      <4> HIDE DEF page
      <4> QED  BY <4>1, SeqsType, BoundedPart DEF StoreInv, SeqsBounded
    <3>3. CASE page = {}
      <4>1. Highest(Seqs(page), cursor[r]) = cursor[r]  BY <3>3 DEF Highest, Seqs
      <4> QED  BY <2>2, <4>1 DEF After
    <3>4. CASE page # {}
      <4>1. Seqs(page) # {}  BY <3>4 DEF Seqs
      <4>2. Highest(Seqs(page), cursor[r]) \in Seqs(page)
        <5> HIDE DEF page
        <5> QED  BY <1>4, <3>2, <4>1, HighestIsMax
      <4>3. \A n \in Seqs(page) : n < x.seq
        <5> HIDE DEF page
        <5> QED  BY <3>1 DEF Seqs
      <4>4. x.seq \in Nat  BY <1>2, <2>2 DEF Row
      <4> HIDE DEF page
      <4> QED  BY <3>2, <4>2, <4>3, <4>4
    <3> QED  BY <3>3, <3>4
  <2>3. \A x \in owed[r] : x \in got'[r] \/ (x \in RowsOf(r) /\ x.seq > cursor'[r])
    <3> HIDE DEF page
    <3> QED  BY <1>1, <1>4, <1>5, <2>1, <2>2 DEF After
  <2>4. \A p \in Recipient : p # r => cursor'[p] = cursor[p] /\ got'[p] = got[p]
    BY <1>1, <1>4, <2>1
  <2> HIDE DEF page
  <2> QED  BY <1>1, <1>6, <2>1, <2>3, <2>4 DEF PullInv
<1>8. CASE ~HasMore(page)
  <2>1. cpc' = [cpc EXCEPT ![r] = "ack"] /\ cursor' = cursor  BY <1>8 DEF PullPage
  <2>2. After(r) \ page = {}
    <3> SUFFICES ASSUME After(r) \ page # {} PROVE FALSE  OBVIOUS
    <3>1. Cardinality(page) = PageSize
      <4> HIDE DEF page
      <4> QED  BY <1>2, <1>3, LeftOutFull
    <3> QED  BY <1>8, <3>1 DEF HasMore
  <2>3. \A x \in owed[r] : x \in got'[r]
    <3> HIDE DEF page
    <3> QED  BY <1>1, <1>4, <1>5, <2>2
  <2>4. \A p \in Recipient : p # r => cpc'[p] = cpc[p] /\ got'[p] = got[p]
    BY <1>1, <1>4, <2>1
  <2>5. cpc'[r] = "ack"  BY <1>4, <2>1
  <2> HIDE DEF page
  <2> QED  BY <1>1, <1>6, <2>1, <2>3, <2>4, <2>5 DEF PullInv
<1> QED  BY <1>7, <1>8

\* No page, enqueue, ack or sweep makes a pull_all miss what it owes.
LEMMA NextPull == StoreInv /\ PullInv /\ [Next]_vars => PullInv'
<1> SUFFICES ASSUME StoreInv, PullInv, [Next]_vars PROVE PullInv'  OBVIOUS
<1>1. /\ cpc \in [Recipient -> ClientPC] /\ cursor \in [Recipient -> Nat]
      /\ got \in [Recipient -> SUBSET Row] /\ owed \in [Recipient -> SUBSET Row]
  BY DEF StoreInv, TypeOK
\* Handlers only add rows.
<1>2. ASSUME rows \subseteq rows', UNCHANGED <<cpc, cursor, got, owed>>
      PROVE  PullInv'
  BY <1>2 DEF PullInv, RowsOf
<1>3. CASE UNCHANGED vars \/ Crash \/ Tick
  BY <1>2, <1>3 DEF vars, Crash, Tick, clients
<1>4. ASSUME NEW q \in Request, HandlerStep(q) \/ Disconnect(q) \/ \E k \in Key : Enqueue(q, k)
      PROVE  PullInv'
  <2>1. rows \subseteq rows' /\ UNCHANGED <<cpc, cursor, got, owed>>
    BY <1>4 DEF HandlerStep, Disconnect, Enqueue, CheckQuota, Select, StorageFails, Insert, Reply,
                Return, clients
  <2> QED  BY <1>2, <2>1
<1>5. CASE Sweep
  <2>1. /\ rows' = rows \ Expired /\ UNCHANGED <<cpc, cursor, got>>
        /\ \A r \in Recipient : owed'[r] = owed[r] \ Expired
    BY <1>5 DEF Sweep
  <2> QED  BY <2>1 DEF PullInv, RowsOf
<1>6. ASSUME NEW r \in Recipient, StartPull(r)
      PROVE  PullInv'
  <2>1. /\ cpc[r] = "idle" /\ cpc' = [cpc EXCEPT ![r] = "pull"] /\ rows' = rows /\ got' = got
        /\ owed' = [owed EXCEPT ![r] = {x \in RowsOf(r) : x.seq > cursor'[r]}]
        /\ \A p \in Recipient : p # r => cursor'[p] = cursor[p]
    BY <1>1, <1>6 DEF StartPull
  <2>2. \A p : RowsOf(p)' = RowsOf(p)  BY <2>1 DEF RowsOf
  <2>3. /\ cpc'[r] = "pull" /\ owed'[r] = {x \in RowsOf(r) : x.seq > cursor'[r]}
        /\ \A p \in Recipient : p # r => cpc'[p] = cpc[p] /\ owed'[p] = owed[p]
    BY <1>1, <2>1
  <2> QED  BY <2>1, <2>2, <2>3 DEF PullInv
\* The rows another recipient acknowledges are of its own inbox.
<1>7. ASSUME NEW r \in Recipient, Ack(r) \/ ClientFails(r)
      PROVE  PullInv'
  <2>1. /\ cpc' = [cpc EXCEPT ![r] = "idle"] /\ owed' = [owed EXCEPT ![r] = {}]
        /\ got' = [got EXCEPT ![r] = {}] /\ cursor' = [cursor EXCEPT ![r] = 0]
        /\ rows' = rows \ Acked(r) \/ rows' = rows
    BY <1>7 DEF Ack, ClientFails
  <2>2. \A p \in Recipient : p # r => RowsOf(p)' = RowsOf(p)
    BY <2>1 DEF RowsOf, Acked
  <2>3. /\ owed'[r] = {}
        /\ \A p \in Recipient : p # r =>
               cpc'[p] = cpc[p] /\ owed'[p] = owed[p] /\ got'[p] = got[p] /\ cursor'[p] = cursor[p]
    BY <1>1, <2>1
  <2> QED  BY <2>2, <2>3 DEF PullInv
<1> QED  BY <1>3, <1>4, <1>5, <1>6, <1>7, PagePull DEF Next, ClientStep

(* pull_all is complete for every page size and any number of recipients,    *)
(* enqueues, acks and sweeps in between.  It rests on SequencesUnique: with  *)
(* two rows of one sequence a full page could be cut between them.          *)
THEOREM PullsAreComplete == Spec => []PullComplete
<1>1. Init => PullInv  BY DEF Init, PullInv
<1>2. PullInv => PullComplete  BY DEF PullInv, PullComplete
<1> QED  BY <1>1, <1>2, InitStore, NextStore, NextPull, PTL DEF Spec

-----------------------------------------------------------------------------
(* The quota.                                                              *)

\* The handlers that have passed the quota check of r's inbox and may still insert.
Admitted(r) == {q \in Request : pc[q] \in {"select", "insert"} /\ To(key[q]) = r}

\* Live envelopes and admitted ones together keep the bound.
QuotaInv ==
    \A r \in Recipient :
        Cardinality(Live(r)) + Cardinality(Admitted(r)) <= MaxInflight + Cardinality(Request) - 1

\* Live envelopes and admitted handlers can be counted.
LEMMA QuotaTypes ==
    ASSUME StoreInv, NEW r \in Recipient
    PROVE  /\ IsFiniteSet(Live(r)) /\ Cardinality(Live(r)) \in Nat
           /\ IsFiniteSet(Admitted(r)) /\ Cardinality(Admitted(r)) \in Nat
           /\ Cardinality(Admitted(r)) <= Cardinality(Request)
           /\ Cardinality(Request) \in Nat /\ Cardinality(Request) >= 1
<1>1. Live(r) \in SUBSET rows /\ IsFiniteSet(rows)  BY DEF Live, RowsOf, StoreInv, SeqsBounded
<1>2. Admitted(r) \in SUBSET Request /\ IsFiniteSet(Request) /\ Request # {}
  BY MailboxAssumption DEF Admitted
<1>3. IsFiniteSet(Live(r)) /\ Cardinality(Live(r)) \in Nat  BY <1>1, FS_Subset, FS_CardinalityType
<1>4. /\ IsFiniteSet(Admitted(r)) /\ Cardinality(Admitted(r)) \in Nat
      /\ Cardinality(Admitted(r)) <= Cardinality(Request) /\ Cardinality(Request) \in Nat
  BY <1>2, FS_Subset, FS_CardinalityType
<1>5. Cardinality(Request) # 0  BY <1>2, FS_EmptySet
<1> QED  BY <1>3, <1>4, <1>5

\* While no envelope goes live and no handler is admitted, the bound stands.
LEMMA QuotaShrinks ==
    ASSUME StoreInv, StoreInv', QuotaInv, NEW r \in Recipient,
           Live(r)' \subseteq Live(r), Admitted(r)' \subseteq Admitted(r)
    PROVE  (Cardinality(Live(r)) + Cardinality(Admitted(r)))'
               <= MaxInflight + Cardinality(Request) - 1
<1>1. /\ Cardinality(Live(r)') <= Cardinality(Live(r))
      /\ Cardinality(Admitted(r)') <= Cardinality(Admitted(r))
      /\ Cardinality(Live(r)') \in Nat /\ Cardinality(Admitted(r)') \in Nat
  <2>1. IsFiniteSet(Live(r)) /\ IsFiniteSet(Admitted(r))  BY QuotaTypes
  <2> QED  BY <2>1, FS_Subset, FS_CardinalityType
<1>2. Cardinality(Live(r)) + Cardinality(Admitted(r)) <= MaxInflight + Cardinality(Request) - 1
  BY DEF QuotaInv
<1>3. /\ Cardinality(Live(r)) \in Nat /\ Cardinality(Admitted(r)) \in Nat
      /\ MaxInflight \in Nat /\ Cardinality(Request) \in Nat
  BY QuotaTypes, MailboxAssumption
<1>4. (Cardinality(Live(r)) + Cardinality(Admitted(r)))' = Cardinality(Live(r)') + Cardinality(Admitted(r)')
  OBVIOUS
<1> QED  BY <1>1, <1>2, <1>3, <1>4

\* The check admits a handler only below the quota.
LEMMA CheckKeepsQuota ==
    ASSUME StoreInv, StoreInv', QuotaInv, NEW q \in Request, CheckQuota(q)
    PROVE  QuotaInv'
<1> SUFFICES ASSUME NEW r \in Recipient
             PROVE  (Cardinality(Live(r)) + Cardinality(Admitted(r)))'
                        <= MaxInflight + Cardinality(Request) - 1
  BY DEF QuotaInv
<1>1. /\ UNCHANGED <<rows, key, now>> /\ pc[q] = "usage"
      /\ pc' = [pc EXCEPT ![q] = IF QuotaAllows(To(key[q])) THEN "select" ELSE "rejected"]
      /\ pc \in [Request -> HandlerPC]
  BY DEF CheckQuota, Handled, bounds, StoreInv, TypeOK
<1>2. Live(r)' = Live(r)  BY <1>1 DEF Live, RowsOf
<1>3. CASE r = To(key[q]) /\ QuotaAllows(r)
  <2>1. Cardinality(Live(r)) + 1 <= MaxInflight  BY <1>3 DEF QuotaAllows
  <2>2. Cardinality(Admitted(r)') <= Cardinality(Request) /\ Cardinality(Admitted(r)') \in Nat
    <3>1. Admitted(r)' \in SUBSET Request  BY DEF Admitted
    <3> QED  BY <3>1, MailboxAssumption, FS_Subset, FS_CardinalityType
  <2>3. Cardinality(Live(r)) \in Nat /\ Cardinality(Request) \in Nat /\ MaxInflight \in Nat
    BY QuotaTypes, MailboxAssumption
  <2>4. (Cardinality(Live(r)) + Cardinality(Admitted(r)))' = Cardinality(Live(r)') + Cardinality(Admitted(r)')
    OBVIOUS
  <2> QED  BY <1>2, <2>1, <2>2, <2>3, <2>4
<1>4. CASE ~(r = To(key[q]) /\ QuotaAllows(r))
  <2>1. Admitted(r)' \subseteq Admitted(r)  BY <1>1, <1>4 DEF Admitted
  <2> QED  BY <1>2, <2>1, QuotaShrinks
<1> QED  BY <1>3, <1>4

\* An insert turns an admitted handler into an envelope.
LEMMA InsertKeepsQuota ==
    ASSUME StoreInv, StoreInv', QuotaInv, NEW q \in Request, Insert(q)
    PROVE  QuotaInv'
<1> SUFFICES ASSUME NEW r \in Recipient
             PROVE  (Cardinality(Live(r)) + Cardinality(Admitted(r)))'
                        <= MaxInflight + Cardinality(Request) - 1
  BY DEF QuotaInv
<1> DEFINE x == [key |-> key[q], seq |-> seq[q], exp |-> exp[q]]
<1>1. /\ UNCHANGED <<key, now>> /\ pc[q] = "insert"
      /\ pc' = [pc EXCEPT ![q] = "accepted"] /\ rows' = rows \cup {x}
      /\ pc \in [Request -> HandlerPC]
  BY DEF Insert, Handled, bounds, StoreInv, TypeOK
<1>2. x.key = key[q]  OBVIOUS
<1> HIDE DEF x
<1>3. CASE r = To(key[q])
  <2>1. Live(r)' \in SUBSET (Live(r) \cup {x})  BY <1>1 DEF Live, RowsOf
  <2>2. q \in Admitted(r) /\ Admitted(r)' = Admitted(r) \ {q}  BY <1>1, <1>3 DEF Admitted
  <2>3. /\ IsFiniteSet(Live(r)) /\ IsFiniteSet(Admitted(r))
        /\ Cardinality(Live(r)) \in Nat /\ Cardinality(Admitted(r)) \in Nat
        /\ Cardinality(Request) \in Nat /\ MaxInflight \in Nat
    BY QuotaTypes, MailboxAssumption
  <2>4. Cardinality(Admitted(r)') = Cardinality(Admitted(r)) - 1  BY <2>2, <2>3, FS_RemoveElement
  <2>5. /\ IsFiniteSet(Live(r) \cup {x})
        /\ Cardinality(Live(r) \cup {x}) <= Cardinality(Live(r)) + 1
        /\ Cardinality(Live(r) \cup {x}) \in Nat
    BY <2>3, FS_AddElement
  <2>6. Cardinality(Live(r)') <= Cardinality(Live(r) \cup {x}) /\ Cardinality(Live(r)') \in Nat
    BY <2>1, <2>5, FS_Subset, FS_CardinalityType
  <2>7. Cardinality(Live(r)) + Cardinality(Admitted(r)) <= MaxInflight + Cardinality(Request) - 1
    BY DEF QuotaInv
  <2>8. (Cardinality(Live(r)) + Cardinality(Admitted(r)))' = Cardinality(Live(r)') + Cardinality(Admitted(r)')
    OBVIOUS
  <2> QED  BY <2>3, <2>4, <2>5, <2>6, <2>7, <2>8
<1>4. CASE r # To(key[q])
  <2>1. Live(r)' \subseteq Live(r)  BY <1>1, <1>2, <1>4 DEF Live, RowsOf
  <2>2. Admitted(r)' \subseteq Admitted(r)  BY <1>1 DEF Admitted
  <2> QED  BY <2>1, <2>2, QuotaShrinks
<1> QED  BY <1>3, <1>4

\* Every step keeps the bound on live envelopes and admitted handlers together.
LEMMA NextQuota == StoreInv /\ QuotaInv /\ [Next]_vars => QuotaInv'
<1> SUFFICES ASSUME StoreInv, QuotaInv, [Next]_vars PROVE QuotaInv'  OBVIOUS
<1>1. StoreInv'  BY NextStore
<1>2. /\ pc \in [Request -> HandlerPC] /\ key \in [Request -> Key] /\ rows \subseteq Row
      /\ now \in Nat
  BY DEF StoreInv, TypeOK
<1>3. ASSUME rows' \subseteq rows, now' = now \/ now' = now + 1,
             \A p \in Request : pc'[p] \in {"select", "insert"} =>
                 pc[p] \in {"select", "insert"} /\ key'[p] = key[p]
      PROVE  QuotaInv'
  <2> SUFFICES ASSUME NEW r \in Recipient
               PROVE  (Cardinality(Live(r)) + Cardinality(Admitted(r)))'
                          <= MaxInflight + Cardinality(Request) - 1
    BY DEF QuotaInv
  <2>1. Live(r)' \subseteq Live(r)
    <3>1. \A x \in rows : x.exp \in Nat  BY <1>2 DEF Row
    <3> QED  BY <1>2, <1>3, <3>1 DEF Live, RowsOf
  <2>2. Admitted(r)' \subseteq Admitted(r)  BY <1>3 DEF Admitted
  <2> QED  BY <1>1, <2>1, <2>2, QuotaShrinks
<1>4. ASSUME NEW q \in Request, Select(q) \/ StorageFails(q) \/ Reply(q) \/ Disconnect(q)
      PROVE  QuotaInv'
  <2>1. rows' = rows /\ now' = now
    BY <1>4 DEF Select, StorageFails, Reply, Disconnect, Return, bounds
  <2>2. \A p \in Request : pc'[p] \in {"select", "insert"} =>
            pc[p] \in {"select", "insert"} /\ key'[p] = key[p]
    BY <1>2, <1>4 DEF Select, StorageFails, Reply, Disconnect, Return, Handled
  <2> QED  BY <1>3, <2>1, <2>2
<1>5. ASSUME NEW q \in Request, NEW k \in Key, Enqueue(q, k)
      PROVE  QuotaInv'
  <2>1. rows' = rows /\ now' = now  BY <1>5 DEF Enqueue
  <2>2. \A p \in Request : pc'[p] \in {"select", "insert"} =>
            pc[p] \in {"select", "insert"} /\ key'[p] = key[p]
    BY <1>2, <1>5 DEF Enqueue, Handled
  <2> QED  BY <1>3, <2>1, <2>2
<1>6. CASE \/ \E r \in Recipient : ClientStep(r) \/ ClientFails(r)
           \/ Sweep \/ Crash \/ Tick \/ UNCHANGED vars
  <2>1. rows' \subseteq rows /\ (now' = now \/ now' = now + 1)
    BY <1>6 DEF ClientStep, StartPull, PullPage, Ack, ClientFails, Sweep, Crash, Tick, vars, bounds
  <2>2. \A p \in Request : pc'[p] \in {"select", "insert"} =>
            pc[p] \in {"select", "insert"} /\ key'[p] = key[p]
    BY <1>6 DEF ClientStep, StartPull, PullPage, Ack, ClientFails, Sweep, Crash, Tick, vars, handlers
  <2> QED  BY <1>3, <2>1, <2>2
<1> QED
  BY <1>1, <1>4, <1>5, <1>6, CheckKeepsQuota, InsertKeepsQuota DEF Next, HandlerStep

(* The race between quota_usage and enqueue is bounded for every number of   *)
(* handlers: the inbox exceeds max_inflight_per_user by less than the        *)
(* number of requests in flight.                                            *)
THEOREM OvershootBounded == Spec => []QuotaOvershoot
<1>1. Init => QuotaInv
  <2> SUFFICES ASSUME Init, NEW r \in Recipient
               PROVE  Cardinality(Live(r)) + Cardinality(Admitted(r))
                          <= MaxInflight + Cardinality(Request) - 1
    BY DEF QuotaInv
  <2>1. Live(r) = {} /\ Admitted(r) = {}  BY DEF Init, Live, RowsOf, Admitted
  <2>2. StoreInv  BY InitStore
  <2>3. Cardinality(Request) \in Nat /\ Cardinality(Request) >= 1 /\ MaxInflight \in Nat
    BY <2>2, QuotaTypes, MailboxAssumption
  <2>4. Cardinality({}) = 0  BY FS_EmptySet
  <2> QED  BY <2>1, <2>3, <2>4
<1>2. StoreInv /\ QuotaInv => QuotaOvershoot
  <2> SUFFICES ASSUME StoreInv, QuotaInv, NEW r \in Recipient
               PROVE  Cardinality(Live(r)) <= MaxInflight + Cardinality(Request) - 1
    BY DEF QuotaOvershoot
  <2>1. Cardinality(Live(r)) + Cardinality(Admitted(r)) <= MaxInflight + Cardinality(Request) - 1
    BY DEF QuotaInv
  <2>2. Cardinality(Live(r)) \in Nat /\ Cardinality(Admitted(r)) \in Nat
        /\ Cardinality(Request) \in Nat /\ MaxInflight \in Nat
    BY QuotaTypes, MailboxAssumption
  <2> QED  BY <2>1, <2>2
<1> QED  BY <1>1, <1>2, InitStore, NextStore, NextQuota, PTL DEF Spec
=============================================================================
