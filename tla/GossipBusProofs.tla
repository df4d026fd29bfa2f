-------------------------- MODULE GossipBusProofs ---------------------------
(***************************************************************************)
(* Proofs about GossipBus, for every set of subscriptions, senders and     *)
(* messages and every size of the channel, the cache and the store.        *)
(***************************************************************************)
EXTENDS GossipBus, FiniteSetTheorems, SequenceTheorems, WellFoundedInduction, TLAPS

\* The elements of a sequence after an append.
LEMMA AppendToSet ==
    ASSUME NEW S, NEW s \in Seq(S), NEW x \in S
    PROVE  ToSet(Append(s, x)) = ToSet(s) \cup {x}
BY AppendProperties, LenProperties DEF ToSet

\* The elements of a sequence are of its type.
LEMMA ToSetType ==
    ASSUME NEW S, NEW s \in Seq(S)
    PROVE  ToSet(s) \subseteq S
BY LenProperties DEF ToSet

-----------------------------------------------------------------------------
(* The deduplication cache.                                                *)

Entry == [id : MsgId, old : BOOLEAN]

\* What remove_expired takes out, what it leaves, and where that goes.
Batch(cache, i) == cache[i].old /\ Cardinality({j \in 1..i : cache[j].old}) <= BatchSize
Kept(cache) == {i \in DOMAIN cache : ~Batch(cache, i)}
Rank(cache, i) == Cardinality({j \in 1..i : ~Batch(cache, j)})

\* Ranks number what is left: the renumbering is one to one and onto.
LEMMA RanksNumber ==
    ASSUME NEW c \in Seq(Entry)
    PROVE  /\ Cardinality(Kept(c)) \in 0..Len(c)
           /\ \A i \in Kept(c) : Rank(c, i) \in 1..Cardinality(Kept(c))
           /\ \A i, j \in Kept(c) : Rank(c, i) = Rank(c, j) => i = j
           /\ \A k \in 1..Cardinality(Kept(c)) : \E i \in Kept(c) : Rank(c, i) = k
<1> DEFINE K == Kept(c)
           Upto(i) == {j \in 1..i : ~Batch(c, j)}
<1>1. Len(c) \in Nat /\ DOMAIN c = 1..Len(c)  BY LenProperties
<1>2. K \in SUBSET (1..Len(c)) /\ IsFiniteSet(1..Len(c)) /\ Cardinality(1..Len(c)) = Len(c)
  BY <1>1, FS_Interval DEF Kept
<1>3. IsFiniteSet(K) /\ Cardinality(K) \in 0..Len(c)
  <2> HIDE DEF K
  <2>1. IsFiniteSet(K) /\ Cardinality(K) <= Cardinality(1..Len(c))  BY <1>2, FS_Subset
  <2>2. Cardinality(K) \in Nat  BY <2>1, FS_CardinalityType
  <2> QED  BY <1>1, <1>2, <2>1, <2>2
<1>4. \A i \in K : Upto(i) \in SUBSET K /\ i \in Upto(i)  BY <1>1, <1>2 DEF Kept
<1>5. \A i \in K : IsFiniteSet(Upto(i)) /\ Cardinality(Upto(i)) \in 1..Cardinality(K)
  <2> SUFFICES ASSUME NEW i \in K
               PROVE  IsFiniteSet(Upto(i)) /\ Cardinality(Upto(i)) \in 1..Cardinality(K)
    OBVIOUS
  <2>1. Upto(i) \in SUBSET K /\ i \in Upto(i)  BY <1>4
  <2> HIDE DEF K, Upto
  <2>2. IsFiniteSet(Upto(i)) /\ Cardinality(Upto(i)) <= Cardinality(K)  BY <1>3, <2>1, FS_Subset
  <2>3. Cardinality(Upto(i)) \in Nat /\ Cardinality(Upto(i)) # 0
    BY <2>1, <2>2, FS_CardinalityType, FS_EmptySet
  <2> QED  BY <1>3, <2>2, <2>3
<1>6. ASSUME NEW i \in K, NEW j \in K, i < j
      PROVE  Cardinality(Upto(i)) # Cardinality(Upto(j))
  <2>1. Upto(i) \in SUBSET Upto(j) /\ j \in Upto(j) /\ j \notin Upto(i)
    BY <1>2, <1>4, <1>6
  <2> HIDE DEF K, Upto
  <2> QED  BY <1>5, <2>1, FS_Subset
<1>7. \A i, j \in K : Cardinality(Upto(i)) = Cardinality(Upto(j)) => i = j
  <2>1. \A i, j \in K : i < j \/ j < i \/ i = j  BY <1>2
  <2> HIDE DEF K, Upto
  <2> QED  BY <1>6, <2>1
<1> DEFINE rank == [i \in K |-> Cardinality(Upto(i))]
<1>8. rank \in Injection(K, 1..Cardinality(K))
  <2> HIDE DEF K, Upto
  <2>1. rank \in [K -> 1..Cardinality(K)]  BY <1>5
  <2>2. \A i, j \in K : rank[i] = rank[j] => i = j  BY <1>7
  <2> QED  BY <2>1, <2>2 DEF Injection, IsInjective
<1>9. rank \in Surjection(K, 1..Cardinality(K))
  <2> HIDE DEF K, rank
  <2>1. IsFiniteSet(1..Cardinality(K)) /\ Cardinality(1..Cardinality(K)) = Cardinality(K)
    BY <1>3, FS_Interval
  <2> QED  BY <1>8, <2>1, FS_Injection
<1>10. \A k \in 1..Cardinality(K) : \E i \in K : Cardinality(Upto(i)) = k
  <2> HIDE DEF K, Upto
  <2> QED  BY <1>9 DEF Surjection
<1>11. \A i : Rank(c, i) = Cardinality(Upto(i))  BY DEF Rank
<1> HIDE DEF Upto
<1> QED  BY <1>3, <1>5, <1>7, <1>10, <1>11

\* remove_expired shortens the cache and keeps exactly what is not in the batch.
LEMMA RemoveExpiredIs ==
    ASSUME NEW c \in Seq(Entry)
    PROVE  /\ RemoveExpired(c) \in Seq(Entry)
           /\ Len(RemoveExpired(c)) <= Len(c)
           /\ ToSet(RemoveExpired(c)) \subseteq ToSet(c)
           /\ \A e \in ToSet(c) : ~e.old => e \in ToSet(RemoveExpired(c))
<1> DEFINE n == Cardinality(Kept(c))
           At(k) == CHOOSE i \in DOMAIN c : ~Batch(c, i) /\ Rank(c, i) = k
           new == [k \in 1..n |-> c[At(k)]]
<1>1. RemoveExpired(c) = new  BY DEF RemoveExpired, Batch, Kept, Rank
<1>2. Len(c) \in Nat /\ DOMAIN c = 1..Len(c) /\ n \in 0..Len(c)  BY LenProperties, RanksNumber
<1>3. \A k \in 1..n : At(k) \in Kept(c) /\ Rank(c, At(k)) = k
  <2> SUFFICES ASSUME NEW k \in 1..n PROVE At(k) \in Kept(c) /\ Rank(c, At(k)) = k  OBVIOUS
  <2>1. \E i \in DOMAIN c : ~Batch(c, i) /\ Rank(c, i) = k  BY RanksNumber DEF Kept
  <2>2. At(k) \in DOMAIN c /\ ~Batch(c, At(k)) /\ Rank(c, At(k)) = k  BY <2>1
  <2> HIDE DEF At
  <2> QED  BY <2>2 DEF Kept
<1> HIDE DEF At
<1>4. \A k \in 1..n : c[At(k)] \in Entry /\ c[At(k)] \in ToSet(c)
  BY <1>2, <1>3, ElementOfSeq DEF Kept, ToSet
<1>5. new \in Seq(Entry) /\ Len(new) = n /\ DOMAIN new = 1..n
  <2> HIDE DEF n
  <2>1. n \in Nat  BY <1>2
  <2> QED  BY <1>4, <2>1
<1>6. ToSet(new) \subseteq ToSet(c)
  <2> HIDE DEF n
  <2> QED  BY <1>4 DEF ToSet
<1>7. ASSUME NEW e \in ToSet(c), ~e.old
      PROVE  e \in ToSet(new)
  <2>1. PICK i \in DOMAIN c : c[i] = e  BY DEF ToSet
  <2>2. i \in Kept(c)  BY <1>7, <2>1 DEF Kept, Batch
  <2>3. Rank(c, i) \in 1..n  BY <2>2, RanksNumber
  <2>4. At(Rank(c, i)) = i  BY <1>3, <2>2, <2>3, RanksNumber
  <2>5. new[Rank(c, i)] = e  BY <2>1, <2>3, <2>4
  <2> HIDE DEF n
  <2> QED  BY <2>3, <2>5 DEF ToSet
<1> HIDE DEF n, new
<1> QED  BY <1>1, <1>2, <1>5, <1>6, <1>7

\* evict_if_needed makes room and adds nothing.
LEMMA DropOldestIs ==
    ASSUME NEW c \in Seq(Entry)
    PROVE  /\ DropOldest(c) \in Seq(Entry)
           /\ Len(DropOldest(c)) < Capacity
           /\ ToSet(DropOldest(c)) \subseteq ToSet(c)
<1>1. Capacity \in Nat \ {0} /\ Len(c) \in Nat  BY GossipAssumption, LenProperties
<1>2. CASE Len(c) < Capacity  BY <1>2 DEF DropOldest
<1>3. CASE ~(Len(c) < Capacity)
  <2> DEFINE a == Len(c) - Capacity + 2
             d == SubSeq(c, a, Len(c))
  <2>1. DropOldest(c) = d  BY <1>3 DEF DropOldest
  <2>2. a \in Int /\ a >= 2 /\ Len(c) - a + 1 = Capacity - 1  BY <1>1, <1>3
  <2>3. \A i \in a..Len(c) : i \in DOMAIN c /\ c[i] \in Entry
    BY <1>1, <2>2, LenProperties, ElementOfSeq
  <2>4. /\ d \in Seq(Entry) /\ Len(d) = (IF a <= Len(c) THEN Len(c) - a + 1 ELSE 0)
        /\ \A i \in 1..Len(c) - a + 1 : d[i] = c[a + i - 1]
    <3> HIDE DEF a
    <3> QED  BY <1>1, <2>2, <2>3, SubSeqProperties
  <2>5. Len(d) < Capacity  BY <1>1, <2>2, <2>4
  <2>6. ToSet(d) \subseteq ToSet(c)
    <3> SUFFICES ASSUME NEW i \in DOMAIN d PROVE d[i] \in ToSet(c)  BY DEF ToSet
    <3>1. i \in 1..Len(d)  BY <2>4, LenProperties
    <3> HIDE DEF a, d
    <3>2. i \in 1..Len(c) - a + 1 /\ a + i - 1 \in a..Len(c)  BY <1>1, <2>2, <2>4, <3>1
    <3> QED  BY <2>3, <2>4, <3>2 DEF ToSet
  <2> QED  BY <2>1, <2>4, <2>5, <2>6
<1> QED  BY <1>2, <1>3

\* The periodic clean-up of the cache keeps every entry that is not expired.
LEMMA PeriodicIs ==
    ASSUME NEW c \in Seq(Entry)
    PROVE  /\ Periodic(c) \in Seq(Entry)
           /\ Len(Periodic(c)) <= Len(c)
           /\ ToSet(Periodic(c)) \subseteq ToSet(c)
           /\ \A e \in ToSet(c) : ~e.old => e \in ToSet(Periodic(c))
<1>1. Len(c) \in Nat  BY LenProperties
<1> QED  BY <1>1, RemoveExpiredIs DEF Periodic

\* check_and_insert stays within the capacity, adds at most the id it is given, and
\* adds that one when it was not there.
LEMMA CheckAndInsertIs ==
    ASSUME seen \in Seq(Entry), Len(seen) <= Capacity, NEW id \in MsgId
    PROVE  /\ CheckAndInsert(id) \in Seq(Entry)
           /\ Len(CheckAndInsert(id)) <= Capacity
           /\ Ids(CheckAndInsert(id)) \subseteq Ids(seen) \cup {id}
           /\ id \notin Ids(seen) => id \in Ids(CheckAndInsert(id))
<1>1. Capacity \in Nat \ {0} /\ Len(seen) \in Nat  BY GossipAssumption, LenProperties
<1>2. CASE id \in Ids(seen)
  <2>1. CheckAndInsert(id) = Periodic(seen)  BY <1>2 DEF CheckAndInsert
  <2>2. Len(Periodic(seen)) \in Nat  BY PeriodicIs, LenProperties
  <2> QED  BY <1>1, <1>2, <2>1, <2>2, PeriodicIs DEF Ids
<1>3. CASE id \notin Ids(seen)
  <2> DEFINE e == [id |-> id, old |-> FALSE]
             d == DropOldest(RemoveExpired(seen))
             c == Append(d, e)
  <2>1. e \in Entry /\ ~e.old /\ e.id = id  BY DEF Entry
  <2>2. d \in Seq(Entry) /\ Len(d) < Capacity /\ ToSet(d) \subseteq ToSet(seen) /\ Len(d) \in Nat
    BY RemoveExpiredIs, DropOldestIs, LenProperties
  <2>3. CheckAndInsert(id) = Periodic(c)  BY <1>3 DEF CheckAndInsert
  <2> HIDE DEF d, e
  <2>4. c \in Seq(Entry) /\ Len(c) = Len(d) + 1 /\ ToSet(c) = ToSet(d) \cup {e}
    BY <2>1, <2>2, AppendProperties, AppendToSet
  <2> HIDE DEF c
  <2>5. /\ Periodic(c) \in Seq(Entry) /\ Len(Periodic(c)) <= Len(c)
        /\ ToSet(Periodic(c)) \subseteq ToSet(c) /\ e \in ToSet(Periodic(c))
        /\ Len(Periodic(c)) \in Nat
    BY <2>1, <2>4, PeriodicIs, LenProperties
  <2>6. Ids(Periodic(c)) \subseteq Ids(seen) \cup {id}  BY <2>1, <2>2, <2>4, <2>5 DEF Ids
  <2>7. id \in Ids(Periodic(c))  BY <2>1, <2>5 DEF Ids
  <2> QED  BY <1>1, <2>2, <2>3, <2>4, <2>5, <2>6, <2>7
<1> QED  BY <1>2, <1>3

-----------------------------------------------------------------------------
(* The store.                                                              *)

Message == [seq : Nat, at : Nat, old : BOOLEAN]

Numbers(S) == {x.seq : x \in S}
Fresh(S) == {x \in S : ~x.old}
Newer(S, k) == {y \in S : y.seq > k}

\* A list of the store: finite, its numbers distinct and at most b.
GoodList(S, b) ==
    /\ S \subseteq Message /\ IsFiniteSet(S)
    /\ \A x, y \in S : x.seq = y.seq => x = y
    /\ \A x \in S : x.seq <= b

\* A list of messages has a newest one.
LEMMA NewestExists ==
    ASSUME NEW S \in SUBSET Message, S # {}, NEW b \in Nat, \A x \in S : x.seq <= b
    PROVE  \E m \in S : \A x \in S : x.seq <= m.seq
<1> DEFINE T == {b - x.seq : x \in S}
           R == {ss \in Nat \X Nat : ss[1] < ss[2]}
<1>1. \A x \in S : x.seq \in Nat /\ b - x.seq \in Nat /\ b - x.seq \in T  BY DEF Message
<1>2. T \in SUBSET Nat /\ T # {}  BY <1>1
<1>3. \E t \in T : \A u \in T : ~(<<u, t>> \in R)
  <2>1. IsWellFoundedOn(R, Nat)  BY NatLessThanWellFounded DEF OpToRel
  <2> HIDE DEF T, R
  <2> QED  BY <1>2, <2>1, WFMin
<1>4. PICK t \in T : \A u \in T : ~(u < t)  BY <1>2, <1>3
<1>5. PICK m \in S : t = b - m.seq  BY <1>4
<1>6. \A x \in S : x.seq <= m.seq
  <2> HIDE DEF T
  <2> SUFFICES ASSUME NEW x \in S PROVE x.seq <= m.seq  OBVIOUS
  <2>1. ~(b - x.seq < b - m.seq)  BY <1>1, <1>4, <1>5
  <2>2. x.seq \in Nat /\ m.seq \in Nat  BY <1>1
  <2> QED  BY <2>1, <2>2
<1> QED  BY <1>6

\* The newer messages of a list can be counted.
LEMMA NewerFinite ==
    ASSUME NEW S, IsFiniteSet(S), NEW k
    PROVE  IsFiniteSet(Newer(S, k)) /\ Cardinality(Newer(S, k)) \in Nat
BY FS_Subset, FS_CardinalityType DEF Newer

\* cleanup_internal keeps the newest of the messages that have not expired.
LEMMA CleanupPart ==
    ASSUME NEW S
    PROVE  /\ CleanupInternal(S) \subseteq Fresh(S)
           /\ \A x \in Fresh(S) \ CleanupInternal(S) : ~(Cardinality(Newer(Fresh(S), x.seq)) < MaxPerRoom)
           /\ \A x \in CleanupInternal(S) : Cardinality(Newer(Fresh(S), x.seq)) < MaxPerRoom
           /\ Aged(CleanupInternal(S)) = {}
BY DEF CleanupInternal, Fresh, Newer, Aged

\* Clean-up keeps the numbers of a list distinct and bounded.
LEMMA FreshGood ==
    ASSUME NEW b, NEW S, GoodList(S, b)
    PROVE  GoodList(Fresh(S), b) /\ GoodList(CleanupInternal(S), b)
<1>1. Fresh(S) \in SUBSET S /\ CleanupInternal(S) \in SUBSET S  BY CleanupPart DEF Fresh
<1>2. IsFiniteSet(Fresh(S)) /\ IsFiniteSet(CleanupInternal(S))  BY <1>1, FS_Subset DEF GoodList
<1> QED  BY <1>1, <1>2 DEF GoodList

\* cleanup_internal leaves no more than max_messages_per_room.
LEMMA CleanupAtMost ==
    ASSUME NEW b, NEW S, GoodList(S, b)
    PROVE  Cardinality(CleanupInternal(S)) <= MaxPerRoom
<1> DEFINE F == Fresh(S)
           C == CleanupInternal(S)
           rank == [x \in C |-> Cardinality(Newer(F, x.seq))]
<1>1. MaxPerRoom \in Nat  BY GossipAssumption
<1>2. GoodList(F, b) /\ C \subseteq F  BY FreshGood, CleanupPart
<1>3. \A x \in C : Cardinality(Newer(F, x.seq)) < MaxPerRoom  BY CleanupPart
<1> HIDE DEF F, C
<1>4. \A x \in C : Cardinality(Newer(F, x.seq)) \in 0..MaxPerRoom - 1
  BY <1>1, <1>2, <1>3, NewerFinite DEF GoodList
<1>5. ASSUME NEW x \in F, NEW y \in F, x.seq < y.seq
      PROVE  Cardinality(Newer(F, x.seq)) # Cardinality(Newer(F, y.seq))
  <2>1. \A z \in F : z.seq \in Nat  BY <1>2 DEF GoodList, Message
  <2>2. /\ Newer(F, y.seq) \in SUBSET Newer(F, x.seq)
        /\ y \in Newer(F, x.seq) /\ y \notin Newer(F, y.seq)
    BY <1>5, <2>1 DEF Newer
  <2>3. IsFiniteSet(Newer(F, x.seq))  BY <1>2, NewerFinite DEF GoodList
  <2> QED  BY <2>2, <2>3, FS_Subset
<1>6. \A x, y \in C : Cardinality(Newer(F, x.seq)) = Cardinality(Newer(F, y.seq)) => x = y
  <2>1. \A x \in F : x.seq \in Nat  BY <1>2 DEF GoodList, Message
  <2>2. \A x, y \in F : x.seq < y.seq \/ y.seq < x.seq \/ x = y  BY <1>2, <2>1 DEF GoodList
  <2> QED  BY <1>2, <1>5, <2>2
<1>7. rank \in Injection(C, 0..MaxPerRoom - 1)
  <2>1. rank \in [C -> 0..MaxPerRoom - 1]  BY <1>4
  <2>2. \A x, y \in C : rank[x] = rank[y] => x = y  BY <1>6
  <2> QED  BY <2>1, <2>2 DEF Injection, IsInjective
<1>8. IsFiniteSet(0..MaxPerRoom - 1) /\ Cardinality(0..MaxPerRoom - 1) = MaxPerRoom
  BY <1>1, FS_Interval
<1> QED  BY <1>7, <1>8, FS_Injection DEF C

\* If a list held max_messages_per_room fresh messages above k, it still does.
LEMMA CleanupKeepsFull ==
    ASSUME NEW b \in Nat, NEW S, GoodList(S, b), NEW k \in Nat,
           Cardinality(Newer(Fresh(S), k)) >= MaxPerRoom
    PROVE  Cardinality(Newer(CleanupInternal(S), k)) >= MaxPerRoom
<1> DEFINE F == Fresh(S)
           C == CleanupInternal(S)
           U == Newer(F, k)
<1>1. MaxPerRoom \in Nat  BY GossipAssumption
<1>2. GoodList(F, b) /\ GoodList(C, b) /\ C \subseteq F  BY FreshGood, CleanupPart
<1>3. \A x \in F \ C : ~(Cardinality(Newer(F, x.seq)) < MaxPerRoom)  BY CleanupPart
<1>4. IsFiniteSet(Newer(C, k)) /\ Cardinality(Newer(C, k)) \in Nat  BY <1>2, NewerFinite DEF GoodList
<1> HIDE DEF F, C
<1>5. CASE U \subseteq C
  <2>1. Newer(C, k) = U  BY <1>2, <1>5 DEF Newer
  <2> QED  BY <2>1 DEF F, C
<1>6. CASE ~(U \subseteq C)
  <2>1. U \ C \in SUBSET Message /\ U \ C # {} /\ \A x \in U \ C : x.seq <= b
    BY <1>2, <1>6 DEF GoodList, Newer
  <2>2. PICK z \in U \ C : \A x \in U \ C : x.seq <= z.seq
    <3> HIDE DEF U
    <3> QED  BY <2>1, NewestExists
  <2>3. z \in F /\ z.seq > k /\ z.seq \in Nat  BY <1>2, <2>2 DEF Newer, GoodList, Message
  <2>4. Newer(F, z.seq) \in SUBSET Newer(C, k)
    <3> SUFFICES ASSUME NEW y \in F, y.seq > z.seq PROVE y \in C /\ y.seq > k  BY DEF Newer
    <3>1. y.seq \in Nat  BY <1>2 DEF GoodList, Message
    <3>2. y.seq > k  BY <2>3, <3>1
    <3>3. y \in C
      <4> SUFFICES ASSUME y \notin C PROVE FALSE  OBVIOUS
      <4>1. y \in U \ C  BY <3>2 DEF Newer
      <4>2. y.seq <= z.seq  BY <2>2, <4>1
      <4> QED  BY <2>3, <3>1, <4>2
    <3> QED  BY <3>2, <3>3
  <2>5. ~(Cardinality(Newer(F, z.seq)) < MaxPerRoom)  BY <1>3, <2>2, <2>3
  <2>6. Cardinality(Newer(F, z.seq)) <= Cardinality(Newer(C, k))  BY <1>4, <2>4, FS_Subset
  <2>7. Cardinality(Newer(F, z.seq)) \in Nat  BY <1>2, NewerFinite DEF GoodList
  <2>8. Cardinality(Newer(C, k)) >= MaxPerRoom  BY <1>1, <1>4, <2>5, <2>6, <2>7
  <2> QED  BY <2>8 DEF C
<1> QED  BY <1>5, <1>6

\* A number that was given out is in the list, about to be, has expired or is below one
\* that has, or is older than a full list.
Accounted(S, pending, gone, k) ==
    \/ k \in Numbers(S)
    \/ k \in pending
    \/ \E j \in gone : j >= k
    \/ Cardinality(Newer(S, k)) >= MaxPerRoom

\* cleanup_internal loses account of nothing.
LEMMA CleanupAccounts ==
    ASSUME NEW b \in Nat, NEW S, GoodList(S, b), NEW P, NEW A, NEW k \in Nat,
           Accounted(S, P, A, k)
    PROVE  Accounted(CleanupInternal(S), P, A \cup Aged(S), k)
<1> DEFINE F == Fresh(S)
           C == CleanupInternal(S)
<1>1. \A x \in S : x.seq \in Nat  BY DEF GoodList, Message
<1>2. CASE \E x \in S : x.old /\ x.seq >= k
  <2>1. \E j \in Aged(S) : j >= k  BY <1>2 DEF Aged
  <2> QED  BY <2>1 DEF Accounted
<1>3. CASE ~\E x \in S : x.old /\ x.seq >= k
  <2>1. \A x \in S : x.seq >= k => x \in F  BY <1>3 DEF Fresh
  <2>2. Newer(F, k) = Newer(S, k)  BY <1>1, <2>1 DEF Newer, Fresh
  <2>3. CASE k \in Numbers(S)
    <3>1. PICK x \in S : x.seq = k  BY <2>3 DEF Numbers
    <3>2. x \in F  BY <1>1, <2>1, <3>1
    <3>3. CASE x \in C  BY <3>1, <3>3 DEF Accounted, Numbers
    <3>4. CASE x \notin C
      <4>1. ~(Cardinality(Newer(F, k)) < MaxPerRoom)  BY <3>1, <3>2, <3>4, CleanupPart
      <4>2. Cardinality(Newer(F, k)) \in Nat /\ MaxPerRoom \in Nat
        BY FreshGood, NewerFinite, GossipAssumption DEF GoodList
      <4>3. Cardinality(Newer(F, k)) >= MaxPerRoom
        <5> HIDE DEF F
        <5> QED  BY <4>1, <4>2
      <4>4. Cardinality(Newer(C, k)) >= MaxPerRoom  BY <4>3, CleanupKeepsFull
      <4> QED  BY <4>4 DEF Accounted
    <3> QED  BY <3>3, <3>4
  <2>4. CASE Cardinality(Newer(S, k)) >= MaxPerRoom
    <3>1. Cardinality(Newer(C, k)) >= MaxPerRoom  BY <2>2, <2>4, CleanupKeepsFull
    <3> QED  BY <3>1 DEF Accounted
  <2>5. CASE k \in P \/ \E j \in A : j >= k  BY <2>5 DEF Accounted
  <2> QED  BY <2>3, <2>4, <2>5 DEF Accounted
<1> QED  BY <1>2, <1>3

\* store_message cleans the list it pushed to, once or twice, and the others or not.
LEMMA EnforceLimitsIs ==
    ASSUME NEW all \in [Node -> SUBSET Message], NEW n \in Node
    PROVE  /\ EnforceLimits(all, n) \in [Node -> SUBSET Message]
           /\ EnforceLimits(all, n)[n] \in {CleanupInternal(all[n]), CleanupInternal(CleanupInternal(all[n]))}
           /\ \A m \in Node \ {n} : EnforceLimits(all, n)[m] \in {all[m], CleanupInternal(all[m])}
<1> DEFINE one == [all EXCEPT ![n] = CleanupInternal(all[n])]
           every == [m \in Node |-> CleanupInternal(one[m])]
<1>1. \A S : CleanupInternal(S) \subseteq S  BY CleanupPart DEF Fresh
<1>2. one \in [Node -> SUBSET Message] /\ one[n] = CleanupInternal(all[n])
      /\ \A m \in Node \ {n} : one[m] = all[m]
  BY <1>1
<1>3. EnforceLimits(all, n) \in {one, every}  BY DEF EnforceLimits
<1> HIDE DEF one
<1>4. every \in [Node -> SUBSET Message]  BY <1>1, <1>2
<1> QED  BY <1>2, <1>3, <1>4

-----------------------------------------------------------------------------
(* Types.                                                                  *)

\* The lists are functions of the sender.
StoreShape == stored \in [Node -> SUBSET Message] /\ aged \in [Node -> SUBSET Nat]

\* What a task has in hand at each place of its loop.
TasksInHand ==
    \A s \in Sub :
        /\ task[s].pc = "recv" => task[s].at = 0
        /\ task[s].pc # "recv" => task[s].at \in 1..pos[s]
        /\ task[s].pc = "check" => s \in Filters
        /\ task[s].pc = "push" => task[s].seq \in 1..counter[SenderOf(s)]

TypeInv == TypeOK /\ StoreShape /\ TasksInHand

TaskRecord == [pc : {"recv", "check", "count", "push", "send"}, at : 0..Len(raw), seq : Nat]

\* What a task past recv has in hand.
LEMMA InHandTypes ==
    ASSUME TypeInv, NEW s \in Sub
    PROVE  /\ Len(raw) \in Nat /\ pos[s] \in 0..Len(raw) /\ task[s] \in TaskRecord
           /\ task[s].pc # "recv" =>
                  /\ task[s].at \in Place /\ raw[task[s].at] \in MsgId
                  /\ SenderOf(s) \in Node /\ counter[SenderOf(s)] \in Nat
<1>1. raw \in Seq(MsgId) /\ Len(raw) \in Nat  BY LenProperties DEF TypeInv, TypeOK
<1>2. pos[s] \in 0..Len(raw) /\ task[s] \in TaskRecord  BY DEF TypeInv, TypeOK, TaskRecord
<1>3. ASSUME task[s].pc # "recv"
      PROVE  /\ task[s].at \in Place /\ raw[task[s].at] \in MsgId
             /\ SenderOf(s) \in Node /\ counter[SenderOf(s)] \in Nat
  <2>1. task[s].at \in 1..pos[s]  BY <1>3 DEF TypeInv, TasksInHand
  <2>2. task[s].at \in 1..Len(raw)  BY <1>1, <1>2, <2>1
  <2>3. raw[task[s].at] \in MsgId  BY <1>1, <2>2, ElementOfSeq
  <2>4. SenderOf(s) \in Node  BY <2>3, GossipAssumption DEF SenderOf
  <2>5. counter[SenderOf(s)] \in Nat  BY <2>4 DEF TypeInv, TypeOK
  <2> QED  BY <2>2, <2>3, <2>4, <2>5 DEF Place
<1> QED  BY <1>1, <1>2, <1>3

\* Types hold on a new bus.
LEMMA InitTypes == Init => TypeInv
<1> SUFFICES ASSUME Init PROVE TypeInv  OBVIOUS
<1>1. raw = <<>> /\ Len(raw) = 0 /\ raw \in Seq(MsgId)  BY EmptySeq DEF Init
<1>2. seen \in Seq(Entry) /\ Len(seen) = 0  BY EmptySeq DEF Init
<1>3. out \in [Sub -> Seq(Place)]
  <2>1. <<>> \in Seq(Place)  BY EmptySeq
  <2> QED  BY <2>1 DEF Init
<1>4. TypeOK  BY <1>1, <1>2, <1>3, GossipAssumption DEF Init, TypeOK, Waiting, Entry
<1>5. StoreShape  BY DEF Init, StoreShape
<1>6. TasksInHand  BY DEF Init, TasksInHand, Waiting
<1> QED  BY <1>4, <1>5, <1>6 DEF TypeInv

\* A broadcast adds a place and leaves the others.
LEMMA PublishAppends ==
    ASSUME TypeInv, NEW m \in MsgId, Publish(m)
    PROVE  /\ raw' \in Seq(MsgId) /\ Len(raw') = Len(raw) + 1 /\ Len(raw) \in Nat
           /\ Place \subseteq Place'
           /\ \A i \in Place : raw'[i] = raw[i]
           /\ \A s \in Sub : task[s].pc # "recv" => SenderOf(s)' = SenderOf(s)
<1>1. raw \in Seq(MsgId) /\ raw' = Append(raw, m) /\ task' = task  BY DEF TypeInv, TypeOK, Publish
<1>2. /\ raw' \in Seq(MsgId) /\ Len(raw') = Len(raw) + 1 /\ Len(raw) \in Nat
      /\ \A i \in Place : raw'[i] = raw[i]
  BY <1>1, AppendProperties, LenProperties DEF Place
<1>3. Place \subseteq Place'
  <2>1. Place' = 1..Len(raw')  BY DEF Place
  <2> QED  BY <1>2, <2>1 DEF Place
<1>4. \A s \in Sub : task[s].pc # "recv" => SenderOf(s)' = SenderOf(s)
  <2> SUFFICES ASSUME NEW s \in Sub, task[s].pc # "recv" PROVE SenderOf(s)' = SenderOf(s)  OBVIOUS
  <2>1. task[s].at \in Place  BY InHandTypes
  <2>2. SenderOf(s)' = FromOf[raw'[task[s].at]]  BY <1>1 DEF SenderOf
  <2> QED  BY <1>2, <2>1, <2>2 DEF SenderOf
<1> QED  BY <1>2, <1>3, <1>4

\* publish keeps the types.
LEMMA PublishTypes ==
    ASSUME TypeInv, NEW m \in MsgId, Publish(m)
    PROVE  TypeInv'
<1>1. /\ raw' \in Seq(MsgId) /\ Len(raw') = Len(raw) + 1 /\ Len(raw) \in Nat
      /\ Place \subseteq Place'
      /\ \A s \in Sub : task[s].pc # "recv" => SenderOf(s)' = SenderOf(s)
  BY PublishAppends
<1>2. UNCHANGED <<pos, task, out, seen, dead, counter, stored, expiries, lagged, forgotten, aged>>
  BY DEF Publish
<1>3. Len(raw') <= MaxPublish  BY <1>1, GossipAssumption DEF Publish
<1>4. out' \in [Sub -> Seq(Place')]
  <2>1. \A s \in Sub : out[s] \in Seq(Place')
    <3>1. \A s \in Sub : out[s] \in Seq(Place)  BY DEF TypeInv, TypeOK
    <3> QED  BY <1>1, <3>1, SeqMonotonic
  <2>2. out' = out /\ out = [s \in Sub |-> out[s]]  BY <1>2 DEF TypeInv, TypeOK
  <2> QED  BY <2>1, <2>2
<1>5. pos' \in [Sub -> 0..Len(raw')]  BY <1>1, <1>2 DEF TypeInv, TypeOK
<1>6. task' \in [Sub -> [pc : {"recv", "check", "count", "push", "send"}, at : 0..Len(raw'), seq : Nat]]
  <2>1. \A s \in Sub : task[s] \in [pc : {"recv", "check", "count", "push", "send"},
                                    at : 0..Len(raw'), seq : Nat]
    BY <1>1, InHandTypes DEF TaskRecord
  <2>2. task' = task /\ task = [s \in Sub |-> task[s]]  BY <1>2 DEF TypeInv, TypeOK
  <2> QED  BY <2>1, <2>2
<1>7. \A n \in Node : stored'[n] \subseteq [seq : 1..counter'[n], at : Place', old : BOOLEAN]
  BY <1>1, <1>2 DEF TypeInv, TypeOK
<1>8. lagged' \in [Sub -> SUBSET Place']  BY <1>1, <1>2 DEF TypeInv, TypeOK
<1>9. TypeOK'
  BY <1>1, <1>2, <1>3, <1>4, <1>5, <1>6, <1>7, <1>8 DEF TypeInv, TypeOK
<1>10. TasksInHand'  BY <1>1, <1>2 DEF TypeInv, TasksInHand
<1>11. StoreShape'  BY <1>2 DEF TypeInv, StoreShape
<1> QED  BY <1>9, <1>10, <1>11 DEF TypeInv

\* A task that keeps its announcement keeps its sender.
LEMMA SenderKept ==
    ASSUME NEW s, raw' = raw, task'[s].at = task[s].at
    PROVE  SenderOf(s)' = SenderOf(s)
BY DEF SenderOf

\* Receiving, or being told Lagged, keeps the types.
LEMMA ReceiveTypes ==
    ASSUME TypeInv, NEW s \in Sub, Lag(s) \/ Recv(s)
    PROVE  TypeInv'
<1>1. UNCHANGED <<raw, out, seen, dead, counter, stored, expiries, forgotten, aged>>
  BY DEF Lag, Recv
<1>2. Len(raw) \in Nat /\ pos[s] \in 0..Len(raw) /\ task[s].pc = "recv"
  BY InHandTypes DEF Lag, Recv
<1>3. Place' = Place  BY <1>1 DEF Place
<1>4. Oldest \in 0..Len(raw)  BY <1>2, GossipAssumption DEF Oldest
<1>5. StoreShape'  BY <1>1 DEF TypeInv, StoreShape
<1>6. CASE Lag(s)
  <2>1. /\ pos' = [pos EXCEPT ![s] = Oldest] /\ task' = task
        /\ lagged' = [lagged EXCEPT ![s] = lagged[s] \cup (pos[s] + 1)..Oldest]
    BY <1>6 DEF Lag
  <2>2. (pos[s] + 1)..Oldest \subseteq Place  BY <1>2, <1>4 DEF Place
  <2>3. pos' \in [Sub -> 0..Len(raw)]  BY <1>4, <2>1 DEF TypeInv, TypeOK
  <2>4. lagged' \in [Sub -> SUBSET Place]
    <3> DEFINE I == (pos[s] + 1)..Oldest
    <3>1. lagged' = [lagged EXCEPT ![s] = lagged[s] \cup I] /\ I \subseteq Place  BY <2>1, <2>2
    <3> HIDE DEF I
    <3> QED  BY <3>1 DEF TypeInv, TypeOK
  <2>5. TypeOK'  BY <1>1, <1>3, <2>1, <2>3, <2>4 DEF TypeInv, TypeOK
  <2>6. TasksInHand'
    <3>1. \A t \in Sub : task[t].pc # "recv" => pos'[t] = pos[t]
      BY <1>2, <2>1 DEF TypeInv, TypeOK
    <3>2. \A t \in Sub : SenderOf(t)' = SenderOf(t)  BY <1>1, <2>1, SenderKept
    <3> QED  BY <1>1, <2>1, <3>1, <3>2 DEF TypeInv, TasksInHand
  <2> QED  BY <1>5, <2>5, <2>6 DEF TypeInv
<1>7. CASE Recv(s)
  <2> DEFINE r == [pc |-> IF s \in Filters THEN "check" ELSE IF s \in Stores THEN "count" ELSE "send",
                   at |-> pos[s] + 1, seq |-> 0]
  <2>1. /\ pos' = [pos EXCEPT ![s] = pos[s] + 1] /\ pos[s] < Len(raw) /\ lagged' = lagged
        /\ task' = [task EXCEPT ![s] = r]
    BY <1>7 DEF Recv
  <2>2. r \in TaskRecord /\ r.at = pos[s] + 1 /\ r.pc \in {"check", "count", "send"}
        /\ (r.pc = "check" => s \in Filters)
    BY <1>2, <2>1 DEF TaskRecord
  <2> HIDE DEF r
  <2>3. task \in [Sub -> TaskRecord] /\ pos \in [Sub -> 0..Len(raw)]
    BY DEF TypeInv, TypeOK, TaskRecord
  <2>4. task' \in [Sub -> TaskRecord]  BY <2>1, <2>2, <2>3
  <2>5. pos' \in [Sub -> 0..Len(raw)]  BY <1>2, <2>1, <2>3
  <2>6. TypeOK'  BY <1>1, <1>3, <2>1, <2>4, <2>5 DEF TypeInv, TypeOK, TaskRecord
  <2>7. TasksInHand'
    <3> SUFFICES ASSUME NEW t \in Sub
                 PROVE  /\ task'[t].pc = "recv" => task'[t].at = 0
                        /\ task'[t].pc # "recv" => task'[t].at \in 1..pos'[t]
                        /\ task'[t].pc = "check" => t \in Filters
                        /\ task'[t].pc = "push" => task'[t].seq \in 1..counter'[SenderOf(t)']
      BY DEF TasksInHand
    <3>1. CASE t = s
      <4>1. task'[t] = r /\ pos'[t] = pos[s] + 1  BY <2>1, <2>3, <3>1
      <4>2. pos[s] + 1 \in 1..pos[s] + 1  BY <1>2
      <4> QED  BY <2>2, <3>1, <4>1, <4>2
    <3>2. CASE t # s
      <4>1. task'[t] = task[t] /\ pos'[t] = pos[t]  BY <2>1, <2>3, <3>2
      <4>2. SenderOf(t)' = SenderOf(t)  BY <1>1, <4>1, SenderKept
      <4> QED  BY <1>1, <4>1, <4>2 DEF TypeInv, TasksInHand
    <3> QED  BY <3>1, <3>2
  <2> QED  BY <1>5, <2>6, <2>7 DEF TypeInv
<1> QED  BY <1>6, <1>7

\* What a step of a task that moves it on has to keep.
LEMMA TaskMoves ==
    ASSUME TypeInv, NEW s \in Sub, NEW r \in TaskRecord,
           raw' = raw, pos' = pos, task' = [task EXCEPT ![s] = r],
           \A n \in Node : counter[n] <= counter'[n], counter' \in [Node -> Nat],
           \/ r = Waiting
           \/ /\ task[s].pc # "recv" /\ r.at = task[s].at /\ r.pc \in {"count", "push", "send"}
              /\ r.pc = "push" => r.seq \in 1..counter'[SenderOf(s)]
    PROVE  /\ TasksInHand' /\ task' \in [Sub -> TaskRecord]
           /\ task'[s] = r /\ \A t \in Sub \ {s} : task'[t] = task[t]
<1>1. task \in [Sub -> TaskRecord] /\ pos \in [Sub -> 0..Len(raw)] /\ counter \in [Node -> Nat]
  BY DEF TypeInv, TypeOK, TaskRecord
<1>2. /\ task' \in [Sub -> TaskRecord]
      /\ task'[s] = r /\ \A t \in Sub \ {s} : task'[t] = task[t]
  BY <1>1
<1>3. TasksInHand'
  <2> SUFFICES ASSUME NEW t \in Sub
               PROVE  /\ task'[t].pc = "recv" => task'[t].at = 0
                      /\ task'[t].pc # "recv" => task'[t].at \in 1..pos'[t]
                      /\ task'[t].pc = "check" => t \in Filters
                      /\ task'[t].pc = "push" => task'[t].seq \in 1..counter'[SenderOf(t)']
    BY DEF TasksInHand
  <2>1. CASE t = s /\ r = Waiting  BY <1>2, <2>1 DEF Waiting
  <2>2. CASE t = s /\ r # Waiting
    <3>1. task'[t] = r /\ task[s].pc # "recv" /\ r.at = task[s].at  BY <1>2, <2>2
    <3>2. SenderOf(t)' = SenderOf(s)  BY <2>2, <3>1, SenderKept
    <3>3. task[s].at \in 1..pos[s]  BY <3>1 DEF TypeInv, TasksInHand
    <3> QED  BY <2>2, <3>1, <3>2, <3>3
  <2>3. CASE t # s
    <3>1. task'[t] = task[t]  BY <1>2, <2>3
    <3>2. SenderOf(t)' = SenderOf(t)  BY <3>1, SenderKept
    <3>3. task[t].pc = "push" => counter[SenderOf(t)] <= counter'[SenderOf(t)]
                                 /\ counter'[SenderOf(t)] \in Nat /\ counter[SenderOf(t)] \in Nat
      BY InHandTypes
    <3>4. task[t].pc = "push" => task[t].seq \in 1..counter'[SenderOf(t)]
      BY <3>3 DEF TypeInv, TasksInHand
    <3> QED  BY <3>1, <3>2, <3>4 DEF TypeInv, TasksInHand
  <2> QED  BY <2>1, <2>2, <2>3
<1> QED  BY <1>2, <1>3

\* The filter and the delivery keep the types.
LEMMA FilterTypes ==
    ASSUME TypeInv, NEW s \in Sub, Check(s) \/ Send(s)
    PROVE  TypeInv'
<1>1. UNCHANGED <<raw, pos, dead, counter, stored, expiries, lagged, aged>>  BY DEF Check, Send
<1>2. task[s].pc # "recv" /\ task[s] \in TaskRecord /\ Len(raw) \in Nat
      /\ task[s].at \in Place /\ raw[task[s].at] \in MsgId
  BY InHandTypes DEF Check, Send
<1>3. Waiting \in TaskRecord  BY <1>2 DEF Waiting, TaskRecord
<1>4. \A n \in Node : counter[n] <= counter'[n]  BY <1>1 DEF TypeInv, TypeOK
<1>5. counter' \in [Node -> Nat]  BY <1>1 DEF TypeInv, TypeOK
<1>6. Place' = Place /\ StoreShape'  BY <1>1 DEF Place, TypeInv, StoreShape
<1>7. \E r \in TaskRecord :
          /\ task' = [task EXCEPT ![s] = r]
          /\ r = Waiting \/ (r.at = task[s].at /\ r.pc \in {"count", "send"})
  <2>1. CASE Check(s)
    <3> DEFINE r == [task[s] EXCEPT !.pc = IF s \in Stores THEN "count" ELSE "send"]
    <3>1. task' = [task EXCEPT ![s] = Waiting] \/ task' = [task EXCEPT ![s] = r]
      BY <2>1 DEF Check
    <3>2. r \in TaskRecord /\ r.at = task[s].at /\ r.pc \in {"count", "send"}
      BY <1>2 DEF TaskRecord
    <3> HIDE DEF r
    <3> QED  BY <1>3, <3>1, <3>2
  <2>2. CASE Send(s)  BY <1>3, <2>2 DEF Send
  <2> QED  BY <2>1, <2>2
<1>8. TasksInHand' /\ task' \in [Sub -> TaskRecord]
  <2>1. PICK r \in TaskRecord :
          /\ task' = [task EXCEPT ![s] = r]
          /\ r = Waiting \/ (r.at = task[s].at /\ r.pc \in {"count", "send"})
    BY <1>7
  <2> QED  BY <1>1, <1>2, <1>4, <1>5, <2>1, TaskMoves
<1>9. CASE Check(s)
  <2>1. /\ seen \in Seq(Entry) /\ Len(seen) <= Capacity
        /\ seen' = CheckAndInsert(raw[task[s].at])
        /\ forgotten' = forgotten \cup (Ids(seen) \ Ids(seen')) /\ out' = out
    BY <1>9 DEF Check, TypeInv, TypeOK, Entry
  <2>2. seen' \in Seq(Entry) /\ Len(seen') <= Capacity  BY <1>2, <2>1, CheckAndInsertIs
  <2>3. Ids(seen) \subseteq MsgId
    <3>1. ToSet(seen) \subseteq Entry  BY <2>1, ToSetType
    <3> QED  BY <3>1 DEF Ids, Entry
  <2>4. TypeOK'
    BY <1>1, <1>6, <1>8, <2>1, <2>2, <2>3 DEF TypeInv, TypeOK, TaskRecord, Entry
  <2> QED  BY <1>6, <1>8, <2>4 DEF TypeInv
<1>10. CASE Send(s)
  <2>1. out' = [out EXCEPT ![s] = Append(out[s], task[s].at)] /\ UNCHANGED <<seen, forgotten>>
    BY <1>10 DEF Send
  <2>2. Append(out[s], task[s].at) \in Seq(Place)
    <3>1. out[s] \in Seq(Place)  BY DEF TypeInv, TypeOK
    <3> QED  BY <1>2, <3>1, AppendProperties
  <2>3. out' \in [Sub -> Seq(Place)]  BY <2>1, <2>2 DEF TypeInv, TypeOK
  <2>4. TypeOK'  BY <1>1, <1>6, <1>8, <2>1, <2>3 DEF TypeInv, TypeOK, TaskRecord
  <2> QED  BY <1>6, <1>8, <2>4 DEF TypeInv
<1> QED  BY <1>9, <1>10

\* What Count does, in terms of the task and its sender.
LEMMA CountDoes ==
    ASSUME TypeInv, NEW s \in Sub, Count(s)
    PROVE  LET n == SenderOf(s)
               r == [task[s] EXCEPT !.pc = "push", !.seq = counter[n] + 1]
           IN  /\ n \in Node /\ r \in TaskRecord /\ task[s].pc = "count"
               /\ r.pc = "push" /\ r.at = task[s].at /\ r.seq = counter[n] + 1
               /\ counter' = [counter EXCEPT ![n] = counter[n] + 1]
               /\ counter' \in [Node -> Nat] /\ \A m \in Node : counter[m] <= counter'[m]
               /\ counter'[n] = counter[n] + 1 /\ \A m \in Node \ {n} : counter'[m] = counter[m]
               /\ task' = [task EXCEPT ![s] = r]
<1> DEFINE n == SenderOf(s)
           r == [task[s] EXCEPT !.pc = "push", !.seq = counter[n] + 1]
<1>1. task[s].pc = "count" /\ n \in Node /\ counter[n] \in Nat /\ task[s] \in TaskRecord
  BY InHandTypes DEF Count
<1>2. r \in TaskRecord /\ r.pc = "push" /\ r.at = task[s].at /\ r.seq = counter[n] + 1
  <2> DEFINE k == counter[n] + 1
  <2>1. k \in Nat  BY <1>1
  <2> HIDE DEF k
  <2>2. [task[s] EXCEPT !.pc = "push", !.seq = k] \in TaskRecord  BY <1>1, <2>1 DEF TaskRecord
  <2>3. /\ [task[s] EXCEPT !.pc = "push", !.seq = k].pc = "push"
        /\ [task[s] EXCEPT !.pc = "push", !.seq = k].at = task[s].at
        /\ [task[s] EXCEPT !.pc = "push", !.seq = k].seq = k
    BY <1>1 DEF TaskRecord
  <2> QED  BY <2>2, <2>3 DEF k
<1>3. counter' = [counter EXCEPT ![n] = counter[n] + 1]  BY DEF Count
<1>4. counter \in [Node -> Nat] /\ task \in [Sub -> TaskRecord]  BY DEF TypeInv, TypeOK, TaskRecord
<1>5. /\ counter' \in [Node -> Nat] /\ \A m \in Node : counter[m] <= counter'[m]
      /\ counter'[n] = counter[n] + 1 /\ \A m \in Node \ {n} : counter'[m] = counter[m]
  BY <1>1, <1>3, <1>4
<1>6. task' = [task EXCEPT ![s] = r]  BY <1>4 DEF Count
<1> QED  BY <1>1, <1>2, <1>3, <1>5, <1>6

\* Numbering a message keeps the types.
LEMMA CountTypes ==
    ASSUME TypeInv, NEW s \in Sub, Count(s)
    PROVE  TypeInv'
<1> DEFINE n == SenderOf(s)
           r == [task[s] EXCEPT !.pc = "push", !.seq = counter[n] + 1]
<1>1. /\ n \in Node /\ r \in TaskRecord /\ task[s].pc = "count"
      /\ r.pc = "push" /\ r.at = task[s].at /\ r.seq = counter[n] + 1
      /\ counter' \in [Node -> Nat] /\ \A m \in Node : counter[m] <= counter'[m]
      /\ counter'[n] = counter[n] + 1
      /\ task' = [task EXCEPT ![s] = r]
  BY CountDoes
<1>2. UNCHANGED <<raw, pos, out, seen, dead, stored, expiries, lagged, forgotten, aged>>
  BY DEF Count
<1>3. counter \in [Node -> Nat]  BY DEF TypeInv, TypeOK
<1> HIDE DEF n, r
<1>4. r.seq \in 1..counter'[n]  BY <1>1, <1>3
<1>5. TasksInHand' /\ task' \in [Sub -> TaskRecord]  BY <1>1, <1>2, <1>4, TaskMoves DEF n
<1>6. \A m \in Node : 1..counter[m] \subseteq 1..counter'[m]  BY <1>1, <1>3
<1>7. Place' = Place /\ StoreShape'  BY <1>2 DEF Place, TypeInv, StoreShape
<1>8. \A m \in Node : stored'[m] \subseteq [seq : 1..counter'[m], at : Place, old : BOOLEAN]
  <2> SUFFICES ASSUME NEW m \in Node, NEW x \in stored[m]
               PROVE  x \in [seq : 1..counter'[m], at : Place, old : BOOLEAN]
    BY <1>2
  <2>1. x \in [seq : 1..counter[m], at : Place, old : BOOLEAN]  BY DEF TypeInv, TypeOK
  <2> QED  BY <1>6, <2>1
<1>9. \A m \in Node : aged'[m] \subseteq 1..counter'[m]  BY <1>2, <1>6 DEF TypeInv, TypeOK
<1>10. TypeOK'  BY <1>1, <1>2, <1>5, <1>7, <1>8, <1>9 DEF TypeInv, TypeOK, TaskRecord
<1> QED  BY <1>5, <1>7, <1>10 DEF TypeInv

\* What Push does.
LEMMA PushDoes ==
    ASSUME TypeInv, NEW s \in Sub, Push(s)
    PROVE  LET n == SenderOf(s)
               x == [seq |-> task[s].seq, at |-> task[s].at, old |-> FALSE]
               r == [task[s] EXCEPT !.pc = "send"]
               S == stored[n] \cup {x}
           IN  /\ n \in Node /\ r \in TaskRecord /\ task[s].pc = "push"
               /\ r.pc = "send" /\ r.at = task[s].at
               /\ task' = [task EXCEPT ![s] = r]
               /\ x \in Message /\ x.seq \in 1..counter[n] /\ x.at \in Place
               /\ x.seq = task[s].seq /\ ~x.old
               /\ stored' \in [Node -> SUBSET Message]
               /\ stored'[n] \in {CleanupInternal(S), CleanupInternal(CleanupInternal(S))}
               /\ \A m \in Node \ {n} : stored'[m] \in {stored[m], CleanupInternal(stored[m])}
               /\ aged' = [m \in Node |-> aged[m] \cup (Aged(stored[m]) \ Aged(stored'[m]))]
<1> DEFINE n == SenderOf(s)
           x == [seq |-> task[s].seq, at |-> task[s].at, old |-> FALSE]
           r == [task[s] EXCEPT !.pc = "send"]
           S == stored[n] \cup {x}
           all == [stored EXCEPT ![n] = S]
<1>1. task[s].pc = "push" /\ n \in Node /\ task[s] \in TaskRecord /\ Len(raw) \in Nat /\ task[s].at \in Place
  BY InHandTypes DEF Push
<1>2. r \in TaskRecord /\ r.pc = "send" /\ r.at = task[s].at  BY <1>1 DEF TaskRecord
<1>3. task' = [task EXCEPT ![s] = r]
  <2>1. task \in [Sub -> TaskRecord]  BY DEF TypeInv, TypeOK, TaskRecord
  <2> QED  BY <2>1 DEF Push
<1>4. task[s].seq \in 1..counter[n]  BY <1>1 DEF TypeInv, TasksInHand
<1>5. x \in Message /\ x.seq = task[s].seq /\ x.at = task[s].at /\ ~x.old
  BY <1>1 DEF Message, TaskRecord
<1>6. stored' = EnforceLimits(all, n)  BY DEF Push
<1>7. stored \in [Node -> SUBSET Message]  BY DEF TypeInv, StoreShape
<1>8. all \in [Node -> SUBSET Message] /\ all[n] = S /\ \A m \in Node \ {n} : all[m] = stored[m]
  <2> HIDE DEF x, n
  <2> QED  BY <1>1, <1>5, <1>7
<1>9. /\ stored' \in [Node -> SUBSET Message]
      /\ stored'[n] \in {CleanupInternal(S), CleanupInternal(CleanupInternal(S))}
      /\ \A m \in Node \ {n} : stored'[m] \in {stored[m], CleanupInternal(stored[m])}
  <2> HIDE DEF all, S, n
  <2> QED  BY <1>1, <1>6, <1>8, EnforceLimitsIs
<1>10. aged' = [m \in Node |-> aged[m] \cup (Aged(stored[m]) \ Aged(stored'[m]))]  BY DEF Push
<1> HIDE DEF x, r, S, n
<1> QED  BY <1>1, <1>2, <1>3, <1>4, <1>5, <1>9, <1>10 DEF x, r, S, n

\* Storing a message keeps the types.
LEMMA PushTypes ==
    ASSUME TypeInv, NEW s \in Sub, Push(s)
    PROVE  TypeInv'
<1> DEFINE n == SenderOf(s)
           x == [seq |-> task[s].seq, at |-> task[s].at, old |-> FALSE]
           r == [task[s] EXCEPT !.pc = "send"]
           S == stored[n] \cup {x}
<1>1. /\ n \in Node /\ r \in TaskRecord /\ task[s].pc = "push"
      /\ r.pc = "send" /\ r.at = task[s].at
      /\ task' = [task EXCEPT ![s] = r]
      /\ x \in Message /\ x.seq \in 1..counter[n] /\ x.at \in Place
      /\ stored' \in [Node -> SUBSET Message]
      /\ stored'[n] \in {CleanupInternal(S), CleanupInternal(CleanupInternal(S))}
      /\ \A m \in Node \ {n} : stored'[m] \in {stored[m], CleanupInternal(stored[m])}
      /\ aged' = [m \in Node |-> aged[m] \cup (Aged(stored[m]) \ Aged(stored'[m]))]
  BY PushDoes
<1>2. UNCHANGED <<raw, pos, out, seen, dead, counter, expiries, lagged, forgotten>>  BY DEF Push
<1> HIDE DEF x, r, n
<1>3. \A T : CleanupInternal(T) \subseteq T  BY CleanupPart DEF Fresh
<1>4. counter \in [Node -> Nat] /\ aged \in [Node -> SUBSET Nat] /\ stored \in [Node -> SUBSET Message]
  BY DEF TypeInv, TypeOK, StoreShape
<1>5. TasksInHand' /\ task' \in [Sub -> TaskRecord]
  <2>1. \A m \in Node : counter[m] <= counter'[m]  BY <1>2, <1>4
  <2> QED  BY <1>1, <1>2, <1>4, <2>1, TaskMoves
<1>6. stored'[n] \subseteq S /\ \A m \in Node \ {n} : stored'[m] \subseteq stored[m]
  <2> HIDE DEF S
  <2> QED  BY <1>1, <1>3
<1>7. \A m \in Node : stored[m] \subseteq [seq : 1..counter[m], at : Place, old : BOOLEAN]
  BY DEF TypeInv, TypeOK
<1>8. x \in [seq : 1..counter[n], at : Place, old : BOOLEAN]  BY <1>1 DEF Message
<1>9. \A m \in Node : stored'[m] \subseteq [seq : 1..counter[m], at : Place, old : BOOLEAN]
  BY <1>1, <1>6, <1>7, <1>8
<1>10. \A m \in Node : Aged(stored[m]) \subseteq 1..counter[m]  BY <1>7 DEF Aged
<1>11. \A m \in Node : aged'[m] \subseteq 1..counter[m]  BY <1>1, <1>10 DEF TypeInv, TypeOK
<1>12. aged' \in [Node -> SUBSET Nat]
  <2>1. \A m \in Node : Aged(stored[m]) \subseteq Nat  BY <1>4 DEF Aged, Message
  <2> QED  BY <1>1, <1>4, <2>1
<1>13. Place' = Place /\ StoreShape'  BY <1>1, <1>2, <1>12 DEF Place, StoreShape
<1>14. TypeOK'  BY <1>2, <1>5, <1>9, <1>11, <1>13 DEF TypeInv, TypeOK, TaskRecord
<1> QED  BY <1>5, <1>13, <1>14 DEF TypeInv

\* The cleanup, and what time does, leave the channel and the tasks alone.
LEMMA TimeTypes ==
    ASSUME TypeInv, Cleanup \/ EntryExpires \/ StoredExpires \/ \E m \in MsgId : TtlExpires(m)
    PROVE  TypeInv'
<1>1. UNCHANGED <<raw, pos, task, out, counter, lagged, forgotten>>
  BY DEF Cleanup, EntryExpires, StoredExpires, TtlExpires
<1>2. Place' = Place  BY <1>1 DEF Place
<1>3. TasksInHand'
  <2>1. \A s \in Sub : SenderOf(s)' = SenderOf(s)  BY <1>1, SenderKept
  <2> QED  BY <1>1, <2>1 DEF TypeInv, TasksInHand
<1>4. /\ stored \in [Node -> SUBSET Message] /\ aged \in [Node -> SUBSET Nat]
      /\ \A n \in Node : stored[n] \subseteq [seq : 1..counter[n], at : Place, old : BOOLEAN]
      /\ \A n \in Node : aged[n] \subseteq 1..counter[n]
  BY DEF TypeInv, TypeOK, StoreShape
<1>5. expiries' \in 0..MaxExpiries
  BY GossipAssumption DEF TypeInv, TypeOK, TimePasses, Cleanup, EntryExpires, StoredExpires, TtlExpires
<1>6. CASE Cleanup
  <2>1. /\ UNCHANGED <<seen, dead>>
        /\ stored' = [n \in Node |-> CleanupInternal(stored[n])]
        /\ aged' = [n \in Node |-> aged[n] \cup Aged(stored[n])]
    BY <1>6 DEF Cleanup
  <2>2. \A T : CleanupInternal(T) \subseteq T  BY CleanupPart DEF Fresh
  <2>3. \A n \in Node : stored'[n] \subseteq stored[n]  BY <2>1, <2>2
  <2>4. \A n \in Node : Aged(stored[n]) \subseteq 1..counter[n] /\ Aged(stored[n]) \subseteq Nat
    BY <1>4 DEF Aged, Message
  <2>5. StoreShape'
    <3>1. stored' \in [Node -> SUBSET Message]  BY <1>4, <2>1, <2>3
    <3>2. aged' \in [Node -> SUBSET Nat]  BY <1>4, <2>1, <2>4
    <3> QED  BY <3>1, <3>2 DEF StoreShape
  <2>6. /\ \A n \in Node : stored'[n] \subseteq [seq : 1..counter[n], at : Place, old : BOOLEAN]
        /\ \A n \in Node : aged'[n] \subseteq 1..counter[n]
    BY <1>4, <2>1, <2>3, <2>4
  <2>7. TypeOK'  BY <1>1, <1>2, <1>5, <2>1, <2>6 DEF TypeInv, TypeOK
  <2> QED  BY <1>3, <2>5, <2>7 DEF TypeInv
<1>7. CASE EntryExpires
  <2>1. UNCHANGED <<dead, stored, aged>>  BY <1>7 DEF EntryExpires
  <2>2. PICK i \in DOMAIN seen : seen' = [seen EXCEPT ![i] = [seen[i] EXCEPT !.old = TRUE]]
    BY <1>7 DEF EntryExpires
  <2>3. seen \in Seq(Entry) /\ Len(seen) <= Capacity  BY DEF TypeInv, TypeOK, Entry
  <2>4. i \in 1..Len(seen) /\ seen[i] \in Entry  BY <2>3, LenProperties, ElementOfSeq
  <2>5. [seen[i] EXCEPT !.old = TRUE] \in Entry  BY <2>4 DEF Entry
  <2>6. seen' \in Seq(Entry) /\ Len(seen') = Len(seen)  BY <2>2, <2>3, <2>4, <2>5, ExceptSeq
  <2>7. TypeOK'  BY <1>1, <1>2, <1>5, <2>1, <2>3, <2>6 DEF TypeInv, TypeOK, Entry
  <2> QED  BY <1>3, <2>1, <2>7 DEF TypeInv, StoreShape
<1>8. CASE StoredExpires
  <2>1. UNCHANGED <<seen, dead, aged>>  BY <1>8 DEF StoredExpires
  <2>2. PICK n \in Node : \E x \in stored[n] :
            stored' = [stored EXCEPT ![n] = (stored[n] \ {x}) \cup {[x EXCEPT !.old = TRUE]}]
    BY <1>8 DEF StoredExpires
  <2>3. PICK x \in stored[n] :
            stored' = [stored EXCEPT ![n] = (stored[n] \ {x}) \cup {[x EXCEPT !.old = TRUE]}]
    BY <2>2
  <2> DEFINE y == [x EXCEPT !.old = TRUE]
  <2>4. y \in Message /\ y \in [seq : 1..counter[n], at : Place, old : BOOLEAN]
    <3>1. x \in Message /\ x \in [seq : 1..counter[n], at : Place, old : BOOLEAN]  BY <1>4, <2>2, <2>3
    <3>2. y \in Message  BY <3>1 DEF Message
    <3>3. y \in [seq : 1..counter[n], at : Place, old : BOOLEAN]
      <4> DEFINE I == 1..counter[n]
      <4>1. x \in [seq : I, at : Place, old : BOOLEAN]  BY <3>1
      <4> HIDE DEF I
      <4>2. y \in [seq : I, at : Place, old : BOOLEAN]  BY <4>1
      <4> QED  BY <4>2 DEF I
    <3> QED  BY <3>2, <3>3
  <2> HIDE DEF y
  <2>5. stored' = [stored EXCEPT ![n] = (stored[n] \ {x}) \cup {y}]  BY <2>3 DEF y
  <2>6. stored' \in [Node -> SUBSET Message]  BY <1>4, <2>2, <2>4, <2>5
  <2>7. stored'[n] = (stored[n] \ {x}) \cup {y} /\ \A m \in Node \ {n} : stored'[m] = stored[m]
    BY <1>4, <2>2, <2>5
  <2>8. \A m \in Node : stored'[m] \subseteq [seq : 1..counter[m], at : Place, old : BOOLEAN]
    BY <1>4, <2>2, <2>4, <2>7
  <2>9. TypeOK'  BY <1>1, <1>2, <1>5, <2>1, <2>8 DEF TypeInv, TypeOK
  <2>10. StoreShape'  BY <1>4, <2>1, <2>6 DEF StoreShape
  <2> QED  BY <1>3, <2>9, <2>10 DEF TypeInv
<1>9. CASE \E m \in MsgId : TtlExpires(m)
  <2>1. UNCHANGED <<seen, stored, aged>> /\ dead' \subseteq MsgId
    BY <1>9 DEF TtlExpires, TypeInv, TypeOK
  <2>2. TypeOK'  BY <1>1, <1>2, <1>5, <2>1 DEF TypeInv, TypeOK
  <2> QED  BY <1>3, <2>1, <2>2 DEF TypeInv, StoreShape
<1> QED  BY <1>6, <1>7, <1>8, <1>9

\* Every step keeps the types.
LEMMA NextTypes == TypeInv /\ [Next]_vars => TypeInv'
<1> SUFFICES ASSUME TypeInv, [Next]_vars PROVE TypeInv'  OBVIOUS
<1>1. CASE UNCHANGED vars
  <2>1. Place' = Place  BY <1>1 DEF vars, Place
  <2>2. \A s \in Sub : SenderOf(s)' = SenderOf(s)  BY <1>1, SenderKept DEF vars
  <2>3. TypeOK'  BY <1>1, <2>1 DEF vars, TypeInv, TypeOK
  <2>4. StoreShape' /\ TasksInHand'  BY <1>1, <2>2 DEF vars, TypeInv, StoreShape, TasksInHand
  <2> QED  BY <2>3, <2>4 DEF TypeInv
<1> QED
  BY <1>1, PublishTypes, ReceiveTypes, FilterTypes, CountTypes, PushTypes, TimeTypes DEF Next

(* In every reachable state the channel, the tasks, the cache and the store  *)
(* have their types: the cache never exceeds its capacity and every stored   *)
(* message carries a number its sender's counter has given out.             *)
THEOREM BusTypes == Spec => []TypeOK
<1>1. TypeInv => TypeOK  BY DEF TypeInv
<1> QED  BY <1>1, InitTypes, NextTypes, PTL DEF Spec

-----------------------------------------------------------------------------
(* The filter.                                                             *)

\* A filtering task has let announcement i pass: it passed it on, or is about to.
Accepts(s, i) ==
    /\ s \in Filters /\ i \in Place
    /\ i \in ToSet(out[s]) \/ (task[s].pc \in {"count", "push", "send"} /\ task[s].at = i)

Taken(m) == \E t \in Filters, j \in Place : raw[j] = m /\ Accepts(t, j)

\* While an id is remembered, one task has let one announcement of it pass.
AcceptedOnce ==
    \A s, t \in Filters : \A i, j \in Place :
        Accepts(s, i) /\ Accepts(t, j) /\ raw[i] = raw[j] /\ raw[i] \notin forgotten => s = t /\ i = j

\* What was let pass is remembered, and what is remembered was let pass or had expired.
AcceptedSeen == \A s \in Filters : \A i \in Place : Accepts(s, i) => raw[i] \in Ids(seen) \cup forgotten
SeenTaken == \A m \in Ids(seen) : m \in dead \/ Taken(m)

\* Where every announcement a task has received went; a witness that is still being
\* looked up in the cache, which NothingElseLost admits, would be lost with it.
Whereabouts ==
    \A s \in Sub : \A i \in 1..pos[s] :
        \/ i \in ToSet(out[s]) \cup lagged[s] \cup {task[s].at}
        \/ s \in Filters /\ (raw[i] \in dead \/ Taken(raw[i]))

FilterInv == AcceptedOnce /\ AcceptedSeen /\ SeenTaken /\ Whereabouts

\* Steps that accept nothing and forget nothing.
LEMMA FilterIdle ==
    ASSUME FilterInv, Place \subseteq Place', \A i \in Place : raw'[i] = raw[i],
           \A t \in Filters : \A i : Accepts(t, i)' <=> Accepts(t, i),
           Ids(seen)' = Ids(seen), forgotten' = forgotten, dead \subseteq dead'
    PROVE  /\ AcceptedOnce' /\ AcceptedSeen' /\ SeenTaken'
           /\ \A m : Taken(m) => Taken(m)'
<1>1. \A t, i : Accepts(t, i) => i \in Place  BY DEF Accepts
<1>2. \A m : Taken(m) => Taken(m)'
  <2> SUFFICES ASSUME NEW m, NEW t \in Filters, NEW j \in Place, raw[j] = m, Accepts(t, j)
               PROVE  Taken(m)'
    BY DEF Taken
  <2>1. Accepts(t, j)' /\ j \in Place' /\ raw'[j] = m  OBVIOUS
  <2> QED  BY <2>1 DEF Taken
<1>3. AcceptedOnce'  BY <1>1 DEF FilterInv, AcceptedOnce
<1>4. AcceptedSeen'  BY <1>1 DEF FilterInv, AcceptedSeen
<1>5. SeenTaken'  BY <1>2 DEF FilterInv, SeenTaken
<1> QED  BY <1>2, <1>3, <1>4, <1>5

\* What was delivered, and what was passed, was broadcast.
LEMMA OutTypes ==
    ASSUME TypeInv, NEW s \in Sub
    PROVE  ToSet(out[s]) \subseteq Place /\ 1..pos[s] \subseteq Place
<1>1. out[s] \in Seq(Place) /\ pos[s] \in 0..Len(raw) /\ Len(raw) \in Nat
  BY InHandTypes DEF TypeInv, TypeOK
<1>2. 1..pos[s] \subseteq Place  BY <1>1 DEF Place
<1> QED  BY <1>1, <1>2, ToSetType

\* publish does not touch what the filter has accepted.
LEMMA PublishFilter ==
    ASSUME TypeInv, FilterInv, NEW m \in MsgId, Publish(m)
    PROVE  FilterInv'
<1>1. Place \subseteq Place' /\ \A i \in Place : raw'[i] = raw[i]  BY PublishAppends
<1>2. UNCHANGED <<pos, task, out, seen, dead, lagged, forgotten>>  BY DEF Publish
<1>3. ASSUME NEW t \in Filters, NEW i
      PROVE  Accepts(t, i)' <=> Accepts(t, i)
  <2>1. t \in Sub  BY DEF Filters
  <2>2. Accepts(t, i)' => i \in Place  BY <1>2, <2>1, InHandTypes, OutTypes DEF Accepts
  <2> QED  BY <1>1, <1>2, <2>2 DEF Accepts
<1>4. Ids(seen)' = Ids(seen)  BY <1>2 DEF Ids
<1>5. AcceptedOnce' /\ AcceptedSeen' /\ SeenTaken' /\ \A k : Taken(k) => Taken(k)'
  BY <1>1, <1>2, <1>3, <1>4, FilterIdle
<1>6. \A s \in Sub : \A i \in 1..pos[s] : raw'[i] = raw[i]  BY <1>1, OutTypes
<1>7. Whereabouts'  BY <1>2, <1>5, <1>6 DEF FilterInv, Whereabouts
<1> QED  BY <1>5, <1>7 DEF FilterInv

\* Expiry only makes the filter forget, which the invariant allows.
LEMMA TimeFilter ==
    ASSUME TypeInv, FilterInv, Cleanup \/ EntryExpires \/ StoredExpires \/ \E m \in MsgId : TtlExpires(m)
    PROVE  FilterInv'
<1>1. UNCHANGED <<raw, pos, task, out, lagged, forgotten>> /\ dead \subseteq dead'
  BY DEF Cleanup, EntryExpires, StoredExpires, TtlExpires
<1>2. Place' = Place /\ \A t, i : Accepts(t, i)' <=> Accepts(t, i)  BY <1>1 DEF Place, Accepts
<1>3. Ids(seen)' = Ids(seen)
  <2>1. CASE EntryExpires
    <3>1. PICK i \in DOMAIN seen : seen' = [seen EXCEPT ![i] = [seen[i] EXCEPT !.old = TRUE]]
      BY <2>1 DEF EntryExpires
    <3>2. seen \in Seq(Entry)  BY DEF TypeInv, TypeOK, Entry
    <3>3. DOMAIN seen' = DOMAIN seen  BY <3>1
    <3>4. \A j \in DOMAIN seen : seen'[j].id = seen[j].id
      <4> SUFFICES ASSUME NEW j \in DOMAIN seen PROVE seen'[j].id = seen[j].id  OBVIOUS
      <4>1. seen[j] \in Entry  BY <3>2, LenProperties, ElementOfSeq
      <4>2. CASE j = i
        <5>1. seen'[j] = [seen[j] EXCEPT !.old = TRUE]  BY <3>1, <4>2
        <5> QED  BY <4>1, <5>1 DEF Entry
      <4>3. CASE j # i  BY <3>1, <4>3
      <4> QED  BY <4>2, <4>3
    <3>5. Ids(seen) = {seen[j].id : j \in DOMAIN seen}  BY DEF Ids, ToSet
    <3>6. Ids(seen)' = {seen'[j].id : j \in DOMAIN seen'}  BY DEF Ids, ToSet
    <3> QED  BY <3>3, <3>4, <3>5, <3>6
  <2>2. CASE seen' = seen  BY <2>2 DEF Ids
  <2> QED  BY <2>1, <2>2 DEF Cleanup, StoredExpires, TtlExpires
<1>4. AcceptedOnce' /\ AcceptedSeen' /\ SeenTaken' /\ \A k : Taken(k) => Taken(k)'
  BY <1>1, <1>2, <1>3, FilterIdle
<1>5. Whereabouts'  BY <1>1, <1>4 DEF FilterInv, Whereabouts
<1> QED  BY <1>4, <1>5 DEF FilterInv

\* The steps of a task apart from the filter's.
LEMMA TaskFilter ==
    ASSUME TypeInv, FilterInv, NEW s \in Sub, Lag(s) \/ Recv(s) \/ Count(s) \/ Push(s) \/ Send(s)
    PROVE  FilterInv'
<1>1. UNCHANGED <<raw, seen, dead, forgotten>>  BY DEF Lag, Recv, Count, Push, Send
<1>2. /\ Place' = Place /\ Ids(seen)' = Ids(seen)
      /\ task \in [Sub -> TaskRecord] /\ pos \in [Sub -> 0..Len(raw)]
      /\ lagged \in [Sub -> SUBSET Place] /\ out \in [Sub -> Seq(Place)] /\ Len(raw) \in Nat
      /\ pos[s] \in 0..Len(raw)
  BY <1>1, InHandTypes DEF Place, Ids, TypeInv, TypeOK, TaskRecord
<1>3. \A t \in Sub \ {s} : /\ task'[t] = task[t] /\ out'[t] = out[t] /\ pos'[t] = pos[t]
                           /\ lagged'[t] = lagged[t]
  BY <1>2 DEF Lag, Recv, Count, Push, Send
<1>4. CASE Lag(s) \/ Recv(s)
  <2>1. task[s].pc = "recv" /\ task[s].at = 0 /\ out' = out
    BY <1>4 DEF Lag, Recv, TypeInv, TasksInHand
  <2>2. s \in Filters => task'[s].pc \in {"recv", "check"}
    BY <1>2, <1>4 DEF Lag, Recv
  <2>3. \A t \in Filters : \A i : Accepts(t, i)' <=> Accepts(t, i)
    <3> SUFFICES ASSUME NEW t \in Filters, NEW i PROVE Accepts(t, i)' <=> Accepts(t, i)  OBVIOUS
    <3>1. t \in Sub  BY DEF Filters
    <3>2. CASE t = s  BY <1>2, <2>1, <2>2, <3>2 DEF Accepts
    <3>3. CASE t # s  BY <1>2, <1>3, <2>1, <3>1, <3>3 DEF Accepts
    <3> QED  BY <3>2, <3>3
  <2>4. AcceptedOnce' /\ AcceptedSeen' /\ SeenTaken' /\ \A k : Taken(k) => Taken(k)'
    BY <1>1, <1>2, <2>3, FilterIdle
  <2>5. \A i \in 1..pos'[s] : i \in 1..pos[s] \/ i \in lagged'[s] \cup {task'[s].at}
    <3>1. CASE Lag(s)
      <4>1. pos'[s] = Oldest /\ lagged'[s] = lagged[s] \cup (pos[s] + 1)..Oldest
        BY <1>2, <3>1 DEF Lag
      <4>2. Oldest \in Nat  BY <1>2, GossipAssumption DEF Oldest
      <4> QED  BY <1>2, <4>1, <4>2
    <3>2. CASE Recv(s)
      <4>1. pos'[s] = pos[s] + 1 /\ task'[s].at = pos[s] + 1  BY <1>2, <3>2 DEF Recv
      <4> QED  BY <1>2, <4>1
    <3> QED  BY <1>4, <3>1, <3>2
  <2>6. lagged[s] \subseteq lagged'[s]  BY <1>2, <1>4 DEF Lag, Recv
  <2>7. \A t \in Sub : ToSet(out[t])' = ToSet(out[t])  BY <2>1 DEF ToSet
  <2>8. Whereabouts'
    <3> SUFFICES ASSUME NEW t \in Sub, NEW i \in 1..pos'[t],
                        i \notin ToSet(out[t]) \cup lagged'[t] \cup {task'[t].at}
                 PROVE  t \in Filters /\ (raw[i] \in dead \/ Taken(raw[i]))'
      BY <2>7 DEF Whereabouts
    <3>1. t \in Filters /\ (raw[i] \in dead \/ Taken(raw[i]))
      <4>1. CASE t # s  BY <1>3, <4>1 DEF FilterInv, Whereabouts
      <4>2. CASE t = s
        <5>1. i \in 1..pos[s] /\ i # 0  BY <2>5, <4>2
        <5>2. i \notin ToSet(out[s]) \cup lagged[s] \cup {task[s].at}  BY <2>1, <2>6, <4>2, <5>1
        <5> QED  BY <4>2, <5>1, <5>2 DEF FilterInv, Whereabouts
      <4> QED  BY <4>1, <4>2
    <3> QED  BY <1>1, <2>4, <3>1
  <2> QED  BY <2>4, <2>8 DEF FilterInv
<1>5. CASE Count(s) \/ Push(s)
  <2>1. /\ task[s].pc \in {"count", "push"} /\ task'[s].pc \in {"push", "send"}
        /\ task'[s].at = task[s].at /\ UNCHANGED <<out, pos, lagged>>
    BY <1>2, <1>5 DEF Count, Push, TaskRecord
  <2>2. \A t \in Sub : task'[t].at = task[t].at  BY <1>3, <2>1
  <2>3. \A t \in Filters : \A i : Accepts(t, i)' <=> Accepts(t, i)
    <3> SUFFICES ASSUME NEW t \in Filters, NEW i PROVE Accepts(t, i)' <=> Accepts(t, i)  OBVIOUS
    <3>1. t \in Sub  BY DEF Filters
    <3>2. CASE t = s  BY <1>2, <2>1, <3>2 DEF Accepts
    <3>3. CASE t # s  BY <1>2, <1>3, <2>1, <3>1, <3>3 DEF Accepts
    <3> QED  BY <3>2, <3>3
  <2>4. AcceptedOnce' /\ AcceptedSeen' /\ SeenTaken' /\ \A k : Taken(k) => Taken(k)'
    BY <1>1, <1>2, <2>3, FilterIdle
  <2>5. Whereabouts'  BY <1>1, <2>1, <2>2, <2>4 DEF FilterInv, Whereabouts
  <2> QED  BY <2>4, <2>5 DEF FilterInv
<1>6. CASE Send(s)
  <2>1. /\ task[s].pc = "send" /\ task'[s] = Waiting /\ UNCHANGED <<pos, lagged>>
        /\ out'[s] = Append(out[s], task[s].at) /\ task[s].at \in Place
    BY <1>2, <1>6, InHandTypes DEF Send
  <2>2. ToSet(out'[s]) = ToSet(out[s]) \cup {task[s].at}
    <3>1. out[s] \in Seq(Place)  BY <1>2
    <3> QED  BY <2>1, <3>1, AppendToSet
  <2>3. \A t \in Filters : \A i : Accepts(t, i)' <=> Accepts(t, i)
    <3> SUFFICES ASSUME NEW t \in Filters, NEW i PROVE Accepts(t, i)' <=> Accepts(t, i)  OBVIOUS
    <3>1. t \in Sub  BY DEF Filters
    <3>2. CASE t = s
      <4>1. task'[s].pc = "recv"  BY <2>1 DEF Waiting
      <4>2. Accepts(s, i)' <=> s \in Filters /\ i \in Place /\ i \in ToSet(out'[s])
        BY <1>2, <4>1 DEF Accepts
      <4>3. Accepts(s, i) <=> s \in Filters /\ i \in Place /\ i \in ToSet(out[s]) \cup {task[s].at}
        BY <2>1 DEF Accepts
      <4> QED  BY <2>2, <3>2, <4>2, <4>3
    <3>3. CASE t # s
      <4>1. task'[t] = task[t] /\ out'[t] = out[t]  BY <1>3, <3>1, <3>3
      <4> QED  BY <1>2, <4>1 DEF Accepts
    <3> QED  BY <3>2, <3>3
  <2>4. AcceptedOnce' /\ AcceptedSeen' /\ SeenTaken' /\ \A k : Taken(k) => Taken(k)'
    BY <1>1, <1>2, <2>3, FilterIdle
  <2>5. \A t \in Sub : ToSet(out[t]) \cup {task[t].at} \subseteq ToSet(out'[t]) \cup {task'[t].at}
    BY <1>3, <2>2
  <2>6. Whereabouts'  BY <1>1, <2>1, <2>4, <2>5 DEF FilterInv, Whereabouts
  <2> QED  BY <2>4, <2>6 DEF FilterInv
<1> QED  BY <1>4, <1>5, <1>6

\* The filter itself, under its lock.
LEMMA CheckFilter ==
    ASSUME TypeInv, FilterInv, NEW s \in Sub, Check(s)
    PROVE  FilterInv'
<1>0. task[s].pc = "check" /\ task[s].at \in Place /\ raw[task[s].at] \in MsgId
  BY InHandTypes DEF Check
<1>a. PICK a \in Place : a = task[s].at  BY <1>0
<1>b. PICK id \in MsgId : id = raw[a]  BY <1>0, <1>a
<1> DEFINE passes == id \notin Ids(seen) /\ id \notin dead
<1>1. /\ task[s].pc = "check" /\ UNCHANGED <<raw, pos, out, dead, lagged>>
      /\ seen' = CheckAndInsert(id) /\ forgotten' = forgotten \cup (Ids(seen) \ Ids(seen'))
  BY <1>a, <1>b DEF Check
<1>2. s \in Filters  BY <1>1 DEF TypeInv, TasksInHand
<1>3. task \in [Sub -> TaskRecord] /\ seen \in Seq(Entry) /\ Len(seen) <= Capacity
  BY DEF TypeInv, TypeOK, TaskRecord, Entry
<1>4. /\ \A t \in Sub \ {s} : task'[t] = task[t]
      /\ passes => task'[s].pc \in {"count", "send"} /\ task'[s].at = a
      /\ ~passes => task'[s].pc = "recv"
  <2>1. \A t \in Sub \ {s} : task'[t] = task[t]  BY <1>3 DEF Check
  <2>2. ASSUME passes PROVE task'[s].pc \in {"count", "send"} /\ task'[s].at = a
    <3>1. task'[s] = [task[s] EXCEPT !.pc = IF s \in Stores THEN "count" ELSE "send"]
      BY <1>3, <1>a, <1>b, <2>2 DEF Check
    <3>2. task[s] \in TaskRecord  BY <1>3
    <3> QED  BY <1>a, <3>1, <3>2 DEF TaskRecord
  <2>3. ASSUME ~passes PROVE task'[s].pc = "recv"
    <3>1. task'[s] = Waiting  BY <1>3, <1>a, <1>b, <2>3 DEF Check
    <3> QED  BY <3>1 DEF Waiting
  <2> QED  BY <2>1, <2>2, <2>3
<1>5. /\ Ids(seen') \subseteq Ids(seen) \cup {id}
      /\ id \notin Ids(seen) => id \in Ids(seen')
  BY <1>1, <1>2, <1>3, CheckAndInsertIs
<1>6. Place' = Place /\ Ids(seen)' = Ids(seen') /\ \A t : ToSet(out[t])' = ToSet(out[t])
  BY <1>1 DEF Place, Ids, ToSet
<1> HIDE DEF passes
<1>7. \A t \in Filters : \A i : Accepts(t, i)' <=> Accepts(t, i) \/ (passes /\ t = s /\ i = a)
  <2> SUFFICES ASSUME NEW t \in Filters, NEW i
               PROVE  Accepts(t, i)' <=> Accepts(t, i) \/ (passes /\ t = s /\ i = a)
    OBVIOUS
  <2>1. t \in Sub  BY DEF Filters
  <2>2. Accepts(t, i)' <=> /\ i \in Place
                           /\ \/ i \in ToSet(out[t])
                              \/ task'[t].pc \in {"count", "push", "send"} /\ task'[t].at = i
    BY <1>6 DEF Accepts
  <2>3. CASE t = s  BY <1>1, <1>4, <1>a, <2>2, <2>3 DEF Accepts
  <2>4. CASE t # s  BY <1>4, <2>1, <2>2, <2>4 DEF Accepts
  <2> QED  BY <2>3, <2>4
<1>8. \A m : Taken(m) => Taken(m)'
  <2> SUFFICES ASSUME NEW m, NEW t \in Filters, NEW j \in Place, raw[j] = m, Accepts(t, j)
               PROVE  Taken(m)'
    BY DEF Taken
  <2>1. Accepts(t, j)' /\ j \in Place' /\ raw'[j] = m  BY <1>1, <1>6, <1>7
  <2> QED  BY <2>1 DEF Taken
<1>9. \A t \in Filters : \A j \in Place : Accepts(t, j) /\ raw[j] = id /\ passes => id \in forgotten
  BY DEF FilterInv, AcceptedSeen, passes
<1>11. AcceptedOnce'
  <2> SUFFICES ASSUME NEW t \in Filters, NEW u \in Filters, NEW i \in Place, NEW j \in Place,
                      Accepts(t, i)', Accepts(u, j)', raw[i] = raw[j], raw[i] \notin forgotten'
               PROVE  t = u /\ i = j
    BY <1>1, <1>6 DEF AcceptedOnce
  <2>1. raw[i] \notin forgotten  BY <1>1
  <2> QED  BY <1>7, <1>9, <1>b, <2>1 DEF FilterInv, AcceptedOnce
<1>12. AcceptedSeen'
  <2> SUFFICES ASSUME NEW t \in Filters, NEW i \in Place, Accepts(t, i)'
               PROVE  raw[i] \in Ids(seen') \cup forgotten'
    BY <1>1, <1>6 DEF AcceptedSeen
  <2>1. CASE Accepts(t, i)  BY <1>1, <2>1 DEF FilterInv, AcceptedSeen
  <2>2. CASE passes /\ i = a  BY <1>5, <1>b, <2>2 DEF passes
  <2> QED  BY <1>7, <2>1, <2>2
<1>13. passes => Taken(id)'
  <2> SUFFICES ASSUME passes PROVE Taken(id)'  OBVIOUS
  <2>1. Accepts(s, a)' /\ a \in Place' /\ raw'[a] = id  BY <1>1, <1>2, <1>6, <1>7, <1>b
  <2> QED  BY <1>2, <2>1 DEF Taken
<1>14. SeenTaken'
  <2> SUFFICES ASSUME NEW m \in Ids(seen') PROVE m \in dead \/ Taken(m)'
    BY <1>1, <1>6 DEF SeenTaken
  <2>1. CASE m \in Ids(seen)  BY <1>8, <2>1 DEF FilterInv, SeenTaken
  <2>2. CASE m \notin Ids(seen)
    <3>1. m = id  BY <1>5, <2>2
    <3> QED  BY <1>13, <2>2, <3>1 DEF passes
  <2> QED  BY <2>1, <2>2
<1>15. Whereabouts'
  <2> SUFFICES ASSUME NEW t \in Sub, NEW i \in 1..pos[t],
                      i \notin ToSet(out[t]) \cup lagged[t] \cup {task'[t].at}
               PROVE  t \in Filters /\ (raw[i] \in dead \/ Taken(raw[i])')
    BY <1>1, <1>6 DEF Whereabouts
  <2>1. CASE i # task[t].at
    <3>1. t \in Filters /\ (raw[i] \in dead \/ Taken(raw[i]))
      BY <2>1 DEF FilterInv, Whereabouts
    <3> QED  BY <1>1, <1>8, <3>1
  <2>2. CASE i = task[t].at
    <3>1. t = s /\ i = a /\ raw[i] = id /\ ~passes  BY <1>4, <1>a, <1>b, <2>2
    <3>2. id \in dead \/ Taken(id)  BY <3>1 DEF passes, FilterInv, SeenTaken
    <3>3. Taken(id) => Taken(id)'  BY <1>8
    <3>4. raw'[i] = id  BY <1>1, <3>1
    <3> QED  BY <1>2, <3>1, <3>2, <3>3, <3>4
  <2> QED  BY <2>1, <2>2
<1> QED  BY <1>11, <1>12, <1>14, <1>15 DEF FilterInv

\* Every step preserves what NoDuplicates and NothingElseLost rest on.
LEMMA NextFilter == TypeInv /\ FilterInv /\ [Next]_vars => FilterInv'
<1> SUFFICES ASSUME TypeInv, FilterInv, [Next]_vars PROVE FilterInv'  OBVIOUS
<1>1. CASE UNCHANGED vars
  <2>1. UNCHANGED <<raw, pos, task, out, seen, dead, lagged, forgotten>>  BY <1>1 DEF vars
  <2>2. Place' = Place /\ Ids(seen)' = Ids(seen) /\ \A t, i : Accepts(t, i)' <=> Accepts(t, i)
    BY <2>1 DEF Place, Ids, Accepts
  <2>3. AcceptedOnce' /\ AcceptedSeen' /\ SeenTaken' /\ \A k : Taken(k) => Taken(k)'
    BY <2>1, <2>2, FilterIdle
  <2>4. Whereabouts'  BY <2>1, <2>3 DEF FilterInv, Whereabouts
  <2> QED  BY <2>3, <2>4 DEF FilterInv
<1> QED  BY <1>1, PublishFilter, TaskFilter, CheckFilter, TimeFilter DEF Next

\* A new bus has accepted nothing.
LEMMA InitFilter == Init => FilterInv
<1> SUFFICES ASSUME Init PROVE FilterInv  OBVIOUS
<1>1. Place = {} /\ Ids(seen) = {} /\ \A s \in Sub : 1..pos[s] = {}
  <2>1. Len(<<>>) = 0 /\ DOMAIN <<>> = {}  BY EmptySeq
  <2>2. 1..0 = {}  OBVIOUS
  <2> QED  BY <2>1, <2>2 DEF Init, Place, Ids, ToSet
<1> QED  BY <1>1 DEF FilterInv, AcceptedOnce, AcceptedSeen, SeenTaken, Whereabouts

(* A message id passes the shared filter once while the cache remembers it,  *)
(* for any number of tasks and rebroadcasts and any size of the cache: the   *)
(* look and the insertion are one step under the lock.                      *)
THEOREM DeliveredOnce == Spec => []NoDuplicates
<1>1. TypeInv /\ FilterInv => NoDuplicates
  <2> SUFFICES ASSUME TypeInv, FilterInv, NEW m \in MsgId \ forgotten
               PROVE  Cardinality({d \in Filters \X Place :
                                     raw[d[2]] = m /\ d[2] \in ToSet(out[d[1]])}) <= 1
    BY DEF NoDuplicates
  <2> DEFINE D == {d \in Filters \X Place : raw[d[2]] = m /\ d[2] \in ToSet(out[d[1]])}
  <2>1. \A c, d \in D : c = d
    <3> SUFFICES ASSUME NEW c \in D, NEW d \in D PROVE c = d  OBVIOUS
    <3>1. Accepts(c[1], c[2]) /\ Accepts(d[1], d[2])  BY DEF Accepts
    <3>2. c[1] = d[1] /\ c[2] = d[2]  BY <3>1 DEF FilterInv, AcceptedOnce
    <3> QED  BY <3>2
  <2>2. CASE D = {}  BY <2>2, FS_EmptySet
  <2>3. CASE D # {}
    <3>1. PICK d \in D : TRUE  BY <2>3
    <3>2. D = {d}  BY <2>1, <3>1
    <3>3. Cardinality({d}) = 1  BY FS_Singleton
    <3> QED  BY <3>2, <3>3
  <2> QED  BY <2>2, <2>3
<1> QED  BY <1>1, InitTypes, NextTypes, InitFilter, NextFilter, PTL DEF Spec

(* A subscriber misses only what Lagged skipped or the filter dropped, for   *)
(* every size of the channel.                                               *)
THEOREM OnlyLagLoses == Spec => []NothingElseLost
<1>1. FilterInv => NothingElseLost
  <2> SUFFICES ASSUME FilterInv, NEW s \in Sub, NEW i \in 1..pos[s],
                      i \notin ToSet(out[s]) \cup lagged[s] \cup {task[s].at}
               PROVE  s \in Filters /\ \/ raw[i] \in dead
                                       \/ \E t \in Filters, j \in Place :
                                            raw[j] = raw[i] /\ j \in ToSet(out[t]) \cup {task[t].at}
    BY DEF NothingElseLost
  <2>1. s \in Filters /\ (raw[i] \in dead \/ Taken(raw[i]))  BY DEF FilterInv, Whereabouts
  <2> QED  BY <2>1 DEF Taken, Accepts
<1> QED  BY <1>1, InitTypes, NextTypes, InitFilter, NextFilter, PTL DEF Spec

-----------------------------------------------------------------------------
(* The store keeps the newest.                                             *)

\* The numbers given out for sender n and not stored yet.
Pushing(n) == {s \in Sub : task[s].pc = "push" /\ SenderOf(s) = n}
Pending(n) == {task[s].seq : s \in Pushing(n)}

ListsGood == \A n \in Node : GoodList(stored[n], counter[n]) /\ Cardinality(stored[n]) <= MaxPerRoom

\* No number is given out twice.
PendingApart ==
    \A n \in Node :
        /\ Pending(n) \cap Numbers(stored[n]) = {}
        /\ \A s, t \in Pushing(n) : task[s].seq = task[t].seq => s = t

\* Every number given out is accounted for; NewestKept speaks only of those above a
\* number that is kept, and a task that was overtaken brings new ones of these.
AllAccounted ==
    \A n \in Node : \A k \in 1..counter[n] : Accounted(stored[n], Pending(n), aged[n], k)

StoreInv == ListsGood /\ PendingApart /\ AllAccounted

\* A number stays accounted for when a list, its pending numbers and the expired ones grow.
LEMMA AccountedMore ==
    ASSUME NEW S, NEW T, NEW P, NEW Q, NEW A, NEW B, NEW k,
           Numbers(S) \cup P \subseteq Numbers(T) \cup Q, A \subseteq B,
           Cardinality(Newer(S, k)) >= MaxPerRoom => Cardinality(Newer(T, k)) >= MaxPerRoom,
           Accounted(S, P, A, k)
    PROVE  Accounted(T, Q, B, k)
BY DEF Accounted

\* Steps that leave the store and the tasks about to store alone.
LEMMA StoreIdle ==
    ASSUME StoreInv, UNCHANGED <<counter, stored, aged>>,
           \A s \in Sub : (task'[s].pc = "push") <=> (task[s].pc = "push"),
           \A s \in Sub : task[s].pc = "push" =>
               task'[s].seq = task[s].seq /\ SenderOf(s)' = SenderOf(s)
    PROVE  StoreInv'
<1>1. \A n : Pushing(n)' = Pushing(n)  BY DEF Pushing
<1>2. \A n : Pending(n)' = Pending(n)
  <2> SUFFICES ASSUME NEW n PROVE Pending(n)' = Pending(n)  OBVIOUS
  <2>1. Pending(n)' = {task'[s].seq : s \in Pushing(n)'}  BY DEF Pending
  <2>2. \A s \in Pushing(n) : task'[s].seq = task[s].seq  BY DEF Pushing
  <2> QED  BY <1>1, <2>1, <2>2 DEF Pending
<1>3. ListsGood'  BY DEF StoreInv, ListsGood
<1>4. PendingApart'
  <2>1. \A n : \A s \in Pushing(n) : task'[s].seq = task[s].seq  BY DEF Pushing
  <2> QED  BY <1>1, <1>2, <2>1 DEF StoreInv, PendingApart
<1>5. AllAccounted'  BY <1>2 DEF StoreInv, AllAccounted
<1> QED  BY <1>3, <1>4, <1>5 DEF StoreInv

\* Steps that leave the store, its counters and the pending numbers alone.
LEMMA QuietStore ==
    ASSUME TypeInv, StoreInv,
           \/ \E s \in Sub : Lag(s) \/ Recv(s) \/ Check(s) \/ Send(s)
           \/ EntryExpires \/ (\E m \in MsgId : Publish(m) \/ TtlExpires(m)) \/ UNCHANGED vars
    PROVE  StoreInv'
<1>1. UNCHANGED <<counter, stored, aged>>
  BY DEF Lag, Recv, Check, Send, EntryExpires, Publish, TtlExpires, vars
<1>2. task \in [Sub -> TaskRecord]  BY DEF TypeInv, TypeOK, TaskRecord
<1>3. ASSUME NEW s \in Sub, Lag(s) \/ Recv(s) \/ Check(s) \/ Send(s)
      PROVE  StoreInv'
  <2>1. raw' = raw /\ task[s].pc # "push" /\ \A t \in Sub \ {s} : task'[t] = task[t]
    BY <1>2, <1>3 DEF Lag, Recv, Check, Send
  <2>2. task'[s].pc # "push"
    <3>1. task[s] \in TaskRecord  BY <1>2
    <3> QED  BY <1>2, <1>3, <3>1 DEF Lag, Recv, Check, Send, Waiting, TaskRecord
  <2>3. \A t \in Sub : task[t].pc = "push" => task'[t] = task[t]  BY <2>1
  <2>4. \A t \in Sub : task[t].pc = "push" => SenderOf(t)' = SenderOf(t)  BY <2>1, <2>3, SenderKept
  <2>5. \A t \in Sub : (task'[t].pc = "push") <=> (task[t].pc = "push")  BY <2>1, <2>2
  <2> QED  BY <1>1, <2>3, <2>4, <2>5, StoreIdle
<1>4. ASSUME NEW m \in MsgId, Publish(m)
      PROVE  StoreInv'
  <2>1. task' = task  BY <1>4 DEF Publish
  <2>2. \A t \in Sub : task[t].pc = "push" => SenderOf(t)' = SenderOf(t)  BY <1>4, PublishAppends
  <2> QED  BY <1>1, <2>1, <2>2, StoreIdle
<1>5. ASSUME EntryExpires \/ (\E m \in MsgId : TtlExpires(m)) \/ UNCHANGED vars
      PROVE  StoreInv'
  <2>1. task' = task /\ raw' = raw  BY <1>5 DEF EntryExpires, TtlExpires, vars
  <2>2. \A t \in Sub : SenderOf(t)' = SenderOf(t)  BY <2>1, SenderKept
  <2> QED  BY <1>1, <2>1, <2>2, StoreIdle
<1> QED  BY <1>3, <1>4, <1>5

\* A number is taken.
LEMMA CountStore ==
    ASSUME TypeInv, StoreInv, NEW s \in Sub, Count(s)
    PROVE  StoreInv'
<1>0. SenderOf(s) \in Node  BY CountDoes
<1>a. PICK n \in Node : n = SenderOf(s)  BY <1>0
<1>b. counter[n] \in Nat  BY DEF TypeInv, TypeOK
<1>c. PICK c \in Nat : c = counter[n]  BY <1>b
<1> DEFINE r == [task[s] EXCEPT !.pc = "push", !.seq = counter[SenderOf(s)] + 1]
<1>1. /\ r.pc = "push" /\ r.at = task[s].at /\ r.seq = counter[SenderOf(s)] + 1
      /\ task[s].pc = "count" /\ task' = [task EXCEPT ![s] = r]
      /\ counter'[SenderOf(s)] = counter[SenderOf(s)] + 1
      /\ \A m \in Node \ {SenderOf(s)} : counter'[m] = counter[m]
  BY CountDoes
<1> HIDE DEF r
<1>2. counter'[n] = c + 1 /\ \A m \in Node \ {n} : counter'[m] = counter[m]  BY <1>1, <1>a, <1>c
<1>3. UNCHANGED <<raw, stored, aged>>  BY DEF Count
<1>4. /\ task'[s].pc = "push" /\ task'[s].seq = c + 1 /\ task'[s].at = task[s].at
      /\ task[s].pc = "count" /\ \A t \in Sub \ {s} : task'[t] = task[t]
  <2>1. task \in [Sub -> TaskRecord]  BY DEF TypeInv, TypeOK, TaskRecord
  <2> QED  BY <1>1, <1>a, <1>c, <2>1
<1>5. \A t \in Sub : SenderOf(t)' = SenderOf(t)
  <2>1. \A t \in Sub : task'[t].at = task[t].at  BY <1>4
  <2> QED  BY <1>3, <2>1, SenderKept
<1>6. Pushing(n)' = Pushing(n) \cup {s} /\ s \notin Pushing(n)
  BY <1>4, <1>5, <1>a DEF Pushing
<1>7. \A m \in Node \ {n} : Pushing(m)' = Pushing(m) /\ s \notin Pushing(m)
  BY <1>4, <1>5, <1>a DEF Pushing
<1>8. \A m \in Node : \A t \in Pushing(m) : task'[t].seq = task[t].seq
  BY <1>4, <1>6, <1>7 DEF Pushing
<1>9. \A m : Pending(m)' = {task'[t].seq : t \in Pushing(m)'}  BY DEF Pending
<1>10. Pending(n)' = Pending(n) \cup {c + 1}
  BY <1>4, <1>6, <1>8, <1>9 DEF Pending
<1>11. \A m \in Node \ {n} : Pending(m)' = Pending(m)  BY <1>7, <1>8, <1>9 DEF Pending
<1>12. \A t \in Pushing(n) : task[t].seq \in 1..c
  BY <1>c DEF Pushing, TypeInv, TasksInHand
<1>13. \A x \in stored[n] : x.seq \in 1..c
  <2>1. stored[n] \subseteq [seq : 1..c, at : Place, old : BOOLEAN]  BY <1>c DEF TypeInv, TypeOK
  <2> QED  BY <2>1
<1>14. ListsGood'
  <2>1. GoodList(stored[n], c + 1)
    <3>1. GoodList(stored[n], c)  BY <1>c DEF StoreInv, ListsGood
    <3>2. \A x \in stored[n] : x.seq <= c + 1  BY <1>13
    <3> QED  BY <3>1, <3>2 DEF GoodList
  <2> QED  BY <1>2, <1>3, <2>1 DEF StoreInv, ListsGood
<1>15. PendingApart'
  <2> SUFFICES ASSUME NEW m \in Node
               PROVE  /\ Pending(m)' \cap Numbers(stored[m]) = {}
                      /\ \A t, u \in Pushing(m)' : task'[t].seq = task'[u].seq => t = u
    BY <1>3 DEF PendingApart
  <2>1. CASE m = n
    <3>1. c + 1 \notin Numbers(stored[n])  BY <1>13 DEF Numbers
    <3>2. Pending(n) \cap Numbers(stored[n]) = {}  BY DEF StoreInv, PendingApart
    <3>3. \A t \in Pushing(n) : task[t].seq # c + 1  BY <1>12
    <3>4. \A t, u \in Pushing(n)' : task'[t].seq = task'[u].seq => t = u
      BY <1>4, <1>6, <1>8, <3>3 DEF StoreInv, PendingApart
    <3> QED  BY <1>10, <2>1, <3>1, <3>2, <3>4
  <2>2. CASE m # n  BY <1>7, <1>8, <1>11, <2>2 DEF StoreInv, PendingApart
  <2> QED  BY <2>1, <2>2
<1>16. AllAccounted'
  <2> SUFFICES ASSUME NEW m \in Node, NEW k \in 1..counter'[m]
               PROVE  Accounted(stored[m], Pending(m)', aged[m], k)
    BY <1>3 DEF AllAccounted
  <2>1. CASE m # n  BY <1>2, <1>11, <2>1 DEF StoreInv, AllAccounted
  <2>2. CASE m = n /\ k = c + 1  BY <1>10, <2>2 DEF Accounted
  <2>3. CASE m = n /\ k # c + 1
    <3>1. k \in 1..counter[n]  BY <1>2, <1>c, <2>3
    <3>2. Accounted(stored[n], Pending(n), aged[n], k)  BY <3>1 DEF StoreInv, AllAccounted
    <3> QED  BY <1>10, <2>3, <3>2 DEF Accounted
  <2> QED  BY <2>1, <2>2, <2>3
<1> QED  BY <1>14, <1>15, <1>16 DEF StoreInv

\* A number is stored; the list it goes to is cleaned, and others may be.
LEMMA PushStore ==
    ASSUME TypeInv, StoreInv, NEW s \in Sub, Push(s)
    PROVE  StoreInv'
<1> DEFINE rr == [task[s] EXCEPT !.pc = "send"]
           xx == [seq |-> task[s].seq, at |-> task[s].at, old |-> FALSE]
           SS == stored[SenderOf(s)] \cup {xx}
<1>1. /\ SenderOf(s) \in Node /\ task[s].pc = "push"
      /\ rr.pc = "send" /\ rr.at = task[s].at /\ task' = [task EXCEPT ![s] = rr]
      /\ xx \in Message /\ xx.seq \in 1..counter[SenderOf(s)]
      /\ xx.seq = task[s].seq /\ ~xx.old
      /\ stored'[SenderOf(s)] \in {CleanupInternal(SS), CleanupInternal(CleanupInternal(SS))}
      /\ \A m \in Node \ {SenderOf(s)} : stored'[m] \in {stored[m], CleanupInternal(stored[m])}
      /\ aged' = [m \in Node |-> aged[m] \cup (Aged(stored[m]) \ Aged(stored'[m]))]
  BY PushDoes
<1>a. PICK n \in Node : n = SenderOf(s)  BY <1>1
<1>b. PICK x \in Message : x = xx  BY <1>1
<1>c. \E S : S = stored[n] \cup {x}  OBVIOUS
<1>d. PICK S : S = stored[n] \cup {x}  BY <1>c
<1> HIDE DEF xx, rr
<1>2. UNCHANGED <<raw, counter>>  BY DEF Push
<1>3. counter[n] \in Nat  BY DEF TypeInv, TypeOK
<1>4. /\ \A t \in Sub \ {s} : task'[t] = task[t]
      /\ task'[s].pc = "send" /\ task'[s].at = task[s].at
  <2>1. task \in [Sub -> TaskRecord]  BY DEF TypeInv, TypeOK, TaskRecord
  <2> QED  BY <1>1, <2>1
<1>5. \A t \in Sub : SenderOf(t)' = SenderOf(t)
  <2>1. \A t \in Sub : task'[t].at = task[t].at  BY <1>4
  <2> QED  BY <1>2, <2>1, SenderKept
<1>6. s \in Pushing(n) /\ \A m \in Node : Pushing(m)' = Pushing(m) \ {s}
  BY <1>1, <1>4, <1>5, <1>a DEF Pushing
<1>7. \A m \in Node \ {n} : s \notin Pushing(m)  BY <1>a DEF Pushing
<1>8. \A m : Pending(m)' = {task'[t].seq : t \in Pushing(m)'}  BY DEF Pending
<1>9. \A m \in Node : \A t \in Pushing(m) \ {s} : task'[t].seq = task[t].seq  BY <1>4 DEF Pushing
<1>10. \A m \in Node : Pending(m)' \subseteq Pending(m)  BY <1>6, <1>8, <1>9 DEF Pending
<1>11. \A m \in Node \ {n} : Pending(m)' = Pending(m)  BY <1>6, <1>7, <1>8, <1>9 DEF Pending
<1>12. x.seq = task[s].seq /\ x.seq \in 1..counter[n] /\ ~x.old  BY <1>1, <1>a, <1>b
<1>13. Pending(n) \subseteq Pending(n)' \cup {x.seq} /\ x.seq \notin Pending(n)' /\ x.seq \in Pending(n)
  <2>1. Pending(n) \subseteq Pending(n)' \cup {x.seq}  BY <1>6, <1>8, <1>9, <1>12 DEF Pending
  <2>2. \A t \in Pushing(n) \ {s} : task[t].seq # x.seq  BY <1>6, <1>12 DEF StoreInv, PendingApart
  <2>3. x.seq \notin Pending(n)'  BY <1>6, <1>8, <1>9, <2>2
  <2>4. x.seq \in Pending(n)  BY <1>6, <1>12 DEF Pending
  <2> QED  BY <2>1, <2>3, <2>4
<1>14. x.seq \notin Numbers(stored[n])  BY <1>13 DEF StoreInv, PendingApart
<1>15. GoodList(S, counter[n])
  <2>1. GoodList(stored[n], counter[n])  BY DEF StoreInv, ListsGood
  <2>2. IsFiniteSet(S)  BY <1>d, <2>1, FS_AddElement DEF GoodList
  <2>3. \A y \in stored[n] : y.seq # x.seq  BY <1>14 DEF Numbers
  <2>4. x.seq <= counter[n]  BY <1>3, <1>12
  <2> QED  BY <1>d, <2>1, <2>2, <2>3, <2>4 DEF GoodList
<1>16. Aged(S) = Aged(stored[n])  BY <1>d, <1>12 DEF Aged
<1>17. \A k \in 1..counter[n] : Accounted(S, Pending(n)', aged[n], k)
  <2> SUFFICES ASSUME NEW k \in 1..counter[n] PROVE Accounted(S, Pending(n)', aged[n], k)  OBVIOUS
  <2>1. Accounted(stored[n], Pending(n), aged[n], k)  BY DEF StoreInv, AllAccounted
  <2>2. Numbers(S) = Numbers(stored[n]) \cup {x.seq}  BY <1>d DEF Numbers
  <2>3. Numbers(stored[n]) \cup Pending(n) \subseteq Numbers(S) \cup Pending(n)'  BY <1>13, <2>2
  <2>4. Cardinality(Newer(stored[n], k)) <= Cardinality(Newer(S, k))
    <3>1. Newer(stored[n], k) \in SUBSET Newer(S, k)  BY <1>d DEF Newer
    <3>2. IsFiniteSet(Newer(S, k))  BY <1>15, NewerFinite DEF GoodList
    <3> QED  BY <3>1, <3>2, FS_Subset
  <2>5. /\ Cardinality(Newer(stored[n], k)) \in Nat /\ Cardinality(Newer(S, k)) \in Nat
        /\ MaxPerRoom \in Nat
    BY <1>15, NewerFinite, GossipAssumption DEF GoodList, StoreInv, ListsGood
  <2>6. Cardinality(Newer(stored[n], k)) >= MaxPerRoom => Cardinality(Newer(S, k)) >= MaxPerRoom
    BY <2>4, <2>5
  <2> QED  BY <2>1, <2>3, <2>6, AccountedMore
<1>18. stored'[n] \in {CleanupInternal(S), CleanupInternal(CleanupInternal(S))}
  BY <1>1, <1>a, <1>b, <1>d
<1>19. \A m \in Node \ {n} : stored'[m] \in {stored[m], CleanupInternal(stored[m])}
  BY <1>1, <1>a
<1>20. \A m \in Node : aged'[m] = aged[m] \cup (Aged(stored[m]) \ Aged(stored'[m]))  BY <1>1
<1>21. /\ GoodList(stored'[n], counter[n]) /\ Cardinality(stored'[n]) <= MaxPerRoom
       /\ Aged(stored'[n]) = {} /\ stored'[n] \subseteq S
  <2>1. \A T : CleanupInternal(T) \subseteq T  BY CleanupPart DEF Fresh
  <2>2. /\ GoodList(CleanupInternal(S), counter[n])
        /\ GoodList(CleanupInternal(CleanupInternal(S)), counter[n])
    BY <1>15, FreshGood
  <2>3. /\ Cardinality(CleanupInternal(S)) <= MaxPerRoom
        /\ Cardinality(CleanupInternal(CleanupInternal(S))) <= MaxPerRoom
    BY <1>15, <2>2, CleanupAtMost
  <2>4. \A T : Aged(CleanupInternal(T)) = {}  BY CleanupPart
  <2>5. CleanupInternal(S) \subseteq S /\ CleanupInternal(CleanupInternal(S)) \subseteq S  BY <2>1
  <2> QED  BY <1>18, <2>2, <2>3, <2>4, <2>5
<1>22. \A k \in 1..counter[n] : Accounted(stored'[n], Pending(n)', aged'[n], k)
  <2> SUFFICES ASSUME NEW k \in 1..counter[n]
               PROVE  Accounted(stored'[n], Pending(n)', aged'[n], k)
    OBVIOUS
  <2>1. k \in Nat  BY <1>3
  <2>2. Accounted(CleanupInternal(S), Pending(n)', aged[n] \cup Aged(S), k)
    BY <1>3, <1>15, <1>17, <2>1, CleanupAccounts
  <2>3. Accounted(CleanupInternal(CleanupInternal(S)), Pending(n)',
                  (aged[n] \cup Aged(S)) \cup Aged(CleanupInternal(S)), k)
    <3>1. GoodList(CleanupInternal(S), counter[n])  BY <1>15, FreshGood
    <3> QED  BY <1>3, <2>1, <2>2, <3>1, CleanupAccounts
  <2>4. Aged(CleanupInternal(S)) = {}  BY CleanupPart
  <2>5. aged'[n] = aged[n] \cup Aged(S)  BY <1>16, <1>20, <1>21
  <2>6. (aged[n] \cup Aged(S)) \cup Aged(CleanupInternal(S)) = aged'[n]  BY <2>4, <2>5
  <2> QED  BY <1>18, <2>2, <2>3, <2>5, <2>6
<1>23. ASSUME NEW m \in Node \ {n}
       PROVE  /\ GoodList(stored'[m], counter[m]) /\ Cardinality(stored'[m]) <= MaxPerRoom
              /\ stored'[m] \subseteq stored[m]
              /\ \A k \in 1..counter[m] : Accounted(stored'[m], Pending(m)', aged'[m], k)
  <2>1. /\ GoodList(stored[m], counter[m]) /\ Cardinality(stored[m]) <= MaxPerRoom
        /\ counter[m] \in Nat
        /\ \A k \in 1..counter[m] : Accounted(stored[m], Pending(m)', aged[m], k)
    BY <1>11 DEF StoreInv, ListsGood, AllAccounted, TypeInv, TypeOK
  <2>2. CASE stored'[m] = stored[m]
    <3>1. aged'[m] = aged[m]  BY <1>20, <2>2
    <3> QED  BY <2>1, <2>2, <3>1
  <2>3. CASE stored'[m] = CleanupInternal(stored[m])
    <3>1. Aged(stored'[m]) = {}  BY <2>3, CleanupPart
    <3>2. aged'[m] = aged[m] \cup Aged(stored[m])  BY <1>20, <3>1
    <3>3. \A k \in 1..counter[m] : k \in Nat  BY <2>1
    <3>4. \A k \in 1..counter[m] : Accounted(stored'[m], Pending(m)', aged'[m], k)
      BY <2>1, <2>3, <3>2, <3>3, CleanupAccounts
    <3>5. GoodList(stored'[m], counter[m]) /\ Cardinality(stored'[m]) <= MaxPerRoom
      BY <2>1, <2>3, FreshGood, CleanupAtMost
    <3>6. stored'[m] \subseteq stored[m]  BY <2>3, CleanupPart DEF Fresh
    <3> QED  BY <3>4, <3>5, <3>6
  <2> QED  BY <1>19, <2>2, <2>3
<1>24. ListsGood'
  <2> SUFFICES ASSUME NEW m \in Node
               PROVE  GoodList(stored'[m], counter[m]) /\ Cardinality(stored'[m]) <= MaxPerRoom
    BY <1>2 DEF ListsGood
  <2> QED  BY <1>21, <1>23
<1>25. PendingApart'
  <2> SUFFICES ASSUME NEW m \in Node
               PROVE  /\ Pending(m)' \cap Numbers(stored'[m]) = {}
                      /\ \A t, u \in Pushing(m)' : task'[t].seq = task'[u].seq => t = u
    BY DEF PendingApart, Numbers
  <2>1. \A t, u \in Pushing(m)' : task'[t].seq = task'[u].seq => t = u
    BY <1>6, <1>9 DEF StoreInv, PendingApart
  <2>2. Pending(m) \cap Numbers(stored[m]) = {}  BY DEF StoreInv, PendingApart
  <2>3. CASE m = n
    <3>1. Numbers(stored'[n]) \subseteq Numbers(stored[n]) \cup {x.seq}  BY <1>21, <1>d DEF Numbers
    <3> QED  BY <1>10, <1>13, <2>1, <2>2, <2>3, <3>1
  <2>4. CASE m # n
    <3>1. Numbers(stored'[m]) \subseteq Numbers(stored[m])  BY <1>23, <2>4 DEF Numbers
    <3> QED  BY <1>10, <2>1, <2>2, <3>1
  <2> QED  BY <2>3, <2>4
<1>26. AllAccounted'
  <2> SUFFICES ASSUME NEW m \in Node, NEW k \in 1..counter[m]
               PROVE  Accounted(stored'[m], Pending(m)', aged'[m], k)
    BY <1>2 DEF AllAccounted, Accounted, Numbers, Newer
  <2> QED  BY <1>22, <1>23
<1> QED  BY <1>24, <1>25, <1>26 DEF StoreInv

\* The periodic cleanup.
LEMMA CleanupStore ==
    ASSUME TypeInv, StoreInv, Cleanup
    PROVE  StoreInv'
<1>1. UNCHANGED <<raw, task, counter>>  BY DEF Cleanup
<1>2. \A n \in Node : /\ stored'[n] = CleanupInternal(stored[n])
                      /\ aged'[n] = aged[n] \cup Aged(stored[n])
  BY DEF Cleanup
<1>3. \A n : Pushing(n)' = Pushing(n) /\ Pending(n)' = Pending(n)
  BY <1>1 DEF Pushing, Pending, SenderOf
<1>4. \A n \in Node : GoodList(stored[n], counter[n]) /\ counter[n] \in Nat
  BY DEF StoreInv, ListsGood, TypeInv, TypeOK
<1>5. ListsGood'
  <2> SUFFICES ASSUME NEW n \in Node
               PROVE  GoodList(stored'[n], counter[n]) /\ Cardinality(stored'[n]) <= MaxPerRoom
    BY <1>1 DEF ListsGood
  <2> QED  BY <1>2, <1>4, FreshGood, CleanupAtMost
<1>6. PendingApart'
  <2>1. \A n \in Node : Numbers(stored[n])' \subseteq Numbers(stored[n])
    <3> SUFFICES ASSUME NEW n \in Node PROVE Numbers(stored[n])' \subseteq Numbers(stored[n])  OBVIOUS
    <3>1. stored'[n] \subseteq stored[n]  BY <1>2, CleanupPart DEF Fresh
    <3> QED  BY <3>1 DEF Numbers
  <2> QED  BY <1>1, <1>3, <2>1 DEF StoreInv, PendingApart
<1>7. AllAccounted'
  <2> SUFFICES ASSUME NEW n \in Node, NEW k \in 1..counter[n]
               PROVE  Accounted(stored'[n], Pending(n)', aged'[n], k)
    BY <1>1 DEF AllAccounted, Accounted, Numbers, Newer
  <2>1. Accounted(stored[n], Pending(n), aged[n], k)  BY DEF StoreInv, AllAccounted
  <2>2. k \in Nat  BY <1>4
  <2>3. Accounted(CleanupInternal(stored[n]), Pending(n), aged[n] \cup Aged(stored[n]), k)
    BY <1>4, <2>1, <2>2, CleanupAccounts
  <2> QED  BY <1>2, <1>3, <2>3
<1> QED  BY <1>5, <1>6, <1>7 DEF StoreInv

\* Replacing a message by itself with another flag does not change how many there are.
LEMMA MarkKeepsCount ==
    ASSUME NEW S, IsFiniteSet(S), NEW x \in S, NEW y, y \notin S \ {x}
    PROVE  /\ IsFiniteSet((S \ {x}) \cup {y})
           /\ Cardinality((S \ {x}) \cup {y}) = Cardinality(S)
<1>1. IsFiniteSet(S \ {x}) /\ Cardinality(S \ {x}) = Cardinality(S) - 1  BY FS_RemoveElement
<1>2. Cardinality(S) \in Nat  BY FS_CardinalityType
<1> DEFINE T == S \ {x}
<1>3. IsFiniteSet(T \cup {y}) /\ Cardinality(T \cup {y}) = Cardinality(T) + 1
  <2>1. IsFiniteSet(T) /\ y \notin T  BY <1>1
  <2> HIDE DEF T
  <2> QED  BY <2>1, FS_AddElement
<1> QED  BY <1>1, <1>2, <1>3

\* A stored message that expires accounts for the numbers below it.
LEMMA ExpireStore ==
    ASSUME TypeInv, StoreInv, StoredExpires
    PROVE  StoreInv'
<1>1. UNCHANGED <<raw, task, counter, aged>>  BY DEF StoredExpires
<1>2. PICK n \in Node : \E x \in stored[n] :
          stored' = [stored EXCEPT ![n] = (stored[n] \ {x}) \cup {[x EXCEPT !.old = TRUE]}]
  BY DEF StoredExpires
<1>3. PICK x \in stored[n] :
          stored' = [stored EXCEPT ![n] = (stored[n] \ {x}) \cup {[x EXCEPT !.old = TRUE]}]
  BY <1>2
<1>4. stored \in [Node -> SUBSET Message] /\ \A m \in Node : counter[m] \in Nat
  BY DEF TypeInv, StoreShape, TypeOK
<1>5. x \in Message  BY <1>2, <1>3, <1>4
<1>6. PICK y \in Message : y = [x EXCEPT !.old = TRUE]  BY <1>5 DEF Message
<1>7. y.seq = x.seq  BY <1>5, <1>6 DEF Message
<1>8. /\ stored'[n] = (stored[n] \ {x}) \cup {y}
      /\ \A m \in Node \ {n} : stored'[m] = stored[m]
  BY <1>2, <1>3, <1>4, <1>6
<1>9. \A m : Pushing(m)' = Pushing(m) /\ Pending(m)' = Pending(m)
  BY <1>1 DEF Pushing, Pending, SenderOf
<1>10. GoodList(stored[n], counter[n]) /\ Cardinality(stored[n]) <= MaxPerRoom
  BY DEF StoreInv, ListsGood
<1>11. y \notin stored[n] \ {x}  BY <1>3, <1>7, <1>10 DEF GoodList
<1>12. IsFiniteSet(stored'[n]) /\ Cardinality(stored'[n]) = Cardinality(stored[n])
  BY <1>3, <1>8, <1>10, <1>11, MarkKeepsCount DEF GoodList
<1>13. GoodList(stored'[n], counter[n])
  <2>1. stored'[n] \subseteq Message  BY <1>8, <1>10 DEF GoodList
  <2>2. \A u \in stored'[n] : u.seq <= counter[n]  BY <1>3, <1>7, <1>8, <1>10 DEF GoodList
  <2>3. \A u, v \in stored'[n] : u.seq = v.seq => u = v  BY <1>3, <1>7, <1>8, <1>10 DEF GoodList
  <2> QED  BY <1>12, <2>1, <2>2, <2>3 DEF GoodList
<1>14. \A m \in Node : Numbers(stored'[m]) = Numbers(stored[m])
  <2>1. Numbers(stored'[n]) = Numbers(stored[n])  BY <1>3, <1>7, <1>8 DEF Numbers
  <2> QED  BY <1>8, <2>1
<1>15. ListsGood'
  <2> SUFFICES ASSUME NEW m \in Node
               PROVE  GoodList(stored'[m], counter[m]) /\ Cardinality(stored'[m]) <= MaxPerRoom
    BY <1>1 DEF ListsGood
  <2> QED  BY <1>8, <1>10, <1>12, <1>13 DEF StoreInv, ListsGood
<1>16. PendingApart'
  <2>1. \A m \in Node : Numbers(stored[m])' = Numbers(stored'[m])  BY DEF Numbers
  <2> QED  BY <1>1, <1>9, <1>14, <2>1 DEF StoreInv, PendingApart
<1>17. ASSUME NEW k \in Nat
       PROVE  Cardinality(Newer(stored'[n], k)) = Cardinality(Newer(stored[n], k))
  <2>1. CASE x \in Newer(stored[n], k)
    <3>1. Newer(stored'[n], k) = (Newer(stored[n], k) \ {x}) \cup {y}
      BY <1>7, <1>8, <2>1 DEF Newer
    <3>2. y \notin Newer(stored[n], k) \ {x}  BY <1>11 DEF Newer
    <3>3. IsFiniteSet(Newer(stored[n], k))  BY <1>10, NewerFinite DEF GoodList
    <3> QED  BY <2>1, <3>1, <3>2, <3>3, MarkKeepsCount
  <2>2. CASE x \notin Newer(stored[n], k)
    <3>1. Newer(stored'[n], k) = Newer(stored[n], k)  BY <1>3, <1>7, <1>8, <2>2 DEF Newer
    <3> QED  BY <3>1
  <2> QED  BY <2>1, <2>2
<1>18. AllAccounted'
  <2> SUFFICES ASSUME NEW m \in Node, NEW k \in 1..counter[m]
               PROVE  Accounted(stored'[m], Pending(m)', aged[m], k)
    BY <1>1 DEF AllAccounted, Accounted, Numbers, Newer
  <2>1. Accounted(stored[m], Pending(m), aged[m], k)  BY DEF StoreInv, AllAccounted
  <2>2. k \in Nat  BY <1>4
  <2>3. Cardinality(Newer(stored'[m], k)) = Cardinality(Newer(stored[m], k))  BY <1>8, <1>17, <2>2
  <2> QED  BY <1>9, <1>14, <2>1, <2>3 DEF Accounted
<1> QED  BY <1>15, <1>16, <1>18 DEF StoreInv

\* Every step preserves what NewestKept rests on.
LEMMA NextStored == TypeInv /\ StoreInv /\ [Next]_vars => StoreInv'
BY QuietStore, CountStore, PushStore, CleanupStore, ExpireStore DEF Next

\* A new store has given out no number.
LEMMA InitStored == Init => StoreInv
<1> SUFFICES ASSUME Init PROVE StoreInv  OBVIOUS
<1>1. \A n : Pushing(n) = {} /\ Pending(n) = {}  BY DEF Init, Pushing, Pending, Waiting
<1>2. \A n \in Node : stored[n] = {} /\ counter[n] = 0  BY DEF Init
<1>3. IsFiniteSet({}) /\ Cardinality({}) = 0 /\ MaxPerRoom \in Nat  BY FS_EmptySet, GossipAssumption
<1>4. GoodList({}, 0)  BY <1>3 DEF GoodList
<1>5. ListsGood  BY <1>2, <1>3, <1>4 DEF ListsGood
<1>6. PendingApart  BY <1>1 DEF PendingApart
<1>7. AllAccounted
  <2>1. 1..0 = {}  OBVIOUS
  <2> QED  BY <1>2, <2>1 DEF AllAccounted
<1> QED  BY <1>5, <1>6, <1>7 DEF StoreInv

(* The store keeps the newest messages of every sender, for every limit and  *)
(* any number of tasks that overtake each other between the two locks.      *)
THEOREM NewestStay == Spec => []NewestKept
<1>1. TypeInv /\ StoreInv => NewestKept
  <2> SUFFICES ASSUME TypeInv, StoreInv, NEW n \in Node
               PROVE  /\ Cardinality(stored[n]) <= MaxPerRoom
                      /\ \A x \in stored[n] :
                          /\ \A y \in stored[n] : y.seq = x.seq => y = x
                          /\ \A k \in (x.seq + 1)..counter[n] :
                              \/ \E y \in stored[n] : y.seq = k
                              \/ \E s \in Sub : task[s].pc = "push" /\ SenderOf(s) = n /\ task[s].seq = k
                              \/ \E j \in aged[n] : j >= k
    BY DEF NewestKept
  <2>1. GoodList(stored[n], counter[n]) /\ Cardinality(stored[n]) <= MaxPerRoom /\ counter[n] \in Nat
    BY DEF StoreInv, ListsGood, TypeInv, TypeOK
  <2>2. ASSUME NEW x \in stored[n], NEW k \in (x.seq + 1)..counter[n]
        PROVE  \/ \E y \in stored[n] : y.seq = k
               \/ \E s \in Sub : task[s].pc = "push" /\ SenderOf(s) = n /\ task[s].seq = k
               \/ \E j \in aged[n] : j >= k
    <3>1. x.seq \in Nat  BY <2>1 DEF GoodList, Message
    <3>2. k \in 1..counter[n] /\ k \in Nat /\ k > x.seq  BY <2>1, <3>1
    <3>3. Accounted(stored[n], Pending(n), aged[n], k)  BY <3>2 DEF StoreInv, AllAccounted
    <3>4. ~(Cardinality(Newer(stored[n], k)) >= MaxPerRoom)
      <4> SUFFICES ASSUME Cardinality(Newer(stored[n], k)) >= MaxPerRoom PROVE FALSE  OBVIOUS
      <4>1. Newer(stored[n], k) \in SUBSET stored[n] /\ IsFiniteSet(stored[n])
        BY <2>1 DEF Newer, GoodList
      <4>2. /\ Cardinality(Newer(stored[n], k)) \in Nat /\ Cardinality(stored[n]) \in Nat
            /\ MaxPerRoom \in Nat
        BY <4>1, FS_Subset, FS_CardinalityType, GossipAssumption
      <4>3. Cardinality(Newer(stored[n], k)) <= Cardinality(stored[n])  BY <4>1, FS_Subset
      <4>4. Cardinality(stored[n]) = Cardinality(Newer(stored[n], k))  BY <2>1, <4>2, <4>3
      <4>5. Newer(stored[n], k) = stored[n]  BY <4>1, <4>4, FS_Subset
      <4>6. x.seq > k  BY <2>2, <4>5 DEF Newer
      <4> QED  BY <3>1, <3>2, <4>6
    <3> QED  BY <3>3, <3>4 DEF Accounted, Numbers, Pending, Pushing
  <2> QED  BY <2>1, <2>2 DEF GoodList
<1> QED  BY <1>1, InitTypes, NextTypes, InitStored, NextStored, PTL DEF Spec
=============================================================================
