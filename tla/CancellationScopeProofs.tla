---------------------- MODULE CancellationScopeProofs ----------------------
(***************************************************************************)
(* Proofs about CancellationScope, for every set of workers and every       *)
(* number of concurrent shutdowns.                                         *)
(***************************************************************************)
EXTENDS CancellationScope, FiniteSetTheorems, SequenceTheorems, TLAPS

Distinct(s) == \A m, n \in 1 .. Len(s) : s[m] = s[n] => m = n

-----------------------------------------------------------------------------
(* The inductive invariant.                                                *)

\* A task is tracked once, and one that spawn() has yet to track is nowhere else.
TrackedOnce ==
    /\ Distinct(tracked)
    /\ \A j \in Joiner : Distinct(handles[j])
    /\ \A w \in pending :
        /\ wpc[w] # "new"
        /\ w \notin Elements(tracked)
        /\ \A j \in Joiner : w \notin Elements(handles[j])
    /\ \A w \in Elements(tracked) : wpc[w] # "new"
    /\ \A j \in Joiner : \A w \in Elements(handles[j]) : wpc[w] # "new"

\* Only a join that drains holds handles, and it has counted nothing before.
HandlesHeld ==
    \A j \in Joiner :
        /\ handles[j] # <<>> => jpc[j] = "drain"
        /\ jpc[j] \in {"idle", "notify", "lock", "take"} => completed[j] = 0 /\ aborted[j] = 0

\* completed + aborted + what is left is never more than the tasks there are.
SummaryBounded ==
    \A j \in Joiner : completed[j] + aborted[j] + Len(handles[j]) <= Cardinality(Worker)

\* A task that is due has ended, or was told to, or is in the list a shutdown
\* has yet to take, or in the list of one that drains.
DueCovered ==
    \A j \in Joiner : \A w \in due[j] :
        \/ Ended(w) \/ wpc[w] = "aborting"
        \/ w \in Elements(tracked) /\ \E i \in Joiner : jpc[i] \in {"notify", "lock", "take"}
        \/ \E i \in Joiner : w \in Elements(handles[i])

ScopeInv == TypeOK /\ TrackedOnce /\ HandlesHeld /\ SummaryBounded /\ DueCovered

(* No wakeup is lost, as a state predicate: once the flag is set and no        *)
(* shutdown stands between the flag and notify_waiters, a worker that awaits   *)
(* its Notified created it before the notification, so it can wake            *)
(* (CancellationToken::cancelled and cancel, cancellation.rs).               *)
NoLostWakeup ==
    (cancelled /\ \A j \in Joiner : jpc[j] # "notify") =>
        \A w \in Worker : wpc[w] \in {"park", "parked"} => seen[w] # epoch

\* A Notified is created in an epoch that has begun.
SeenBegun == \A w \in Worker : seen[w] <= epoch

-----------------------------------------------------------------------------
(* Lists of tasks.                                                         *)

\* A list without repetitions is no longer than the set its elements come from.
LEMMA DistinctLength ==
    ASSUME NEW s \in Seq(Worker), Distinct(s)
    PROVE  Len(s) <= Cardinality(Worker)
<1>1. s \in [1 .. Len(s) -> Worker]  OBVIOUS
<1>2. s \in Injection(1 .. Len(s), Worker)  BY <1>1 DEF Distinct, Injection, IsInjective
<1>3. Cardinality(1 .. Len(s)) <= Cardinality(Worker)
  BY <1>2, FS_Injection, ScopeAssumption
<1>4. Len(s) \in Nat  OBVIOUS
<1>5. Cardinality(1 .. Len(s)) = Len(s)  BY <1>4, FS_Interval
<1> QED  BY <1>3, <1>5

\* The workers can be counted.
LEMMA WorkersCounted == Cardinality(Worker) \in Nat
BY FS_CardinalityType, ScopeAssumption

\* An empty list of handles holds nobody twice.
LEMMA EmptyList == Distinct(<<>>) /\ Elements(<<>>) = {}
BY DEF Distinct, Elements

\* spawn appends a handle to the list.
LEMMA AppendList ==
    ASSUME NEW s \in Seq(Worker), NEW w \in Worker
    PROVE  /\ Elements(Append(s, w)) = Elements(s) \cup {w}
           /\ w \notin Elements(s) /\ Distinct(s) => Distinct(Append(s, w))
<1> DEFINE t == Append(s, w)
<1>1. /\ Len(s) \in Nat /\ Len(t) = Len(s) + 1
      /\ \A i \in 1 .. Len(s) : t[i] = s[i]
      /\ t[Len(s) + 1] = w
  OBVIOUS
<1> HIDE DEF t
<1>2. Elements(t) = Elements(s) \cup {w}
  <2>1. \A i \in 1 .. Len(t) : i \in 1 .. Len(s) \/ i = Len(s) + 1  BY <1>1
  <2>2. \A i \in 1 .. Len(s) : i \in 1 .. Len(t)  BY <1>1
  <2>3. Len(s) + 1 \in 1 .. Len(t)  BY <1>1
  <2> QED  BY <1>1, <2>1, <2>2, <2>3 DEF Elements
<1>3. ASSUME w \notin Elements(s), Distinct(s)  PROVE Distinct(t)
  <2>1. \A i \in 1 .. Len(s) : s[i] # w  BY <1>3 DEF Elements
  <2> QED  BY <1>1, <1>3, <2>1 DEF Distinct
<1> QED  BY <1>2, <1>3 DEF t

\* poll_some takes the last handle off its snapshot.
LEMMA FrontList ==
    ASSUME NEW s \in Seq(Worker), s # <<>>
    PROVE  LET f == SubSeq(s, 1, Len(s) - 1)
           IN  /\ f \in Seq(Worker) /\ Len(f) = Len(s) - 1
               /\ Elements(s) = Elements(f) \cup {s[Len(s)]}
               /\ Distinct(s) => Distinct(f)
<1> DEFINE f == SubSeq(s, 1, Len(s) - 1)
<1>0. Len(s) \in Nat \ {0}  OBVIOUS
<1>1. /\ f \in Seq(Worker) /\ Len(f) = Len(s) - 1
      /\ \A i \in 1 .. Len(s) - 1 : f[i] = s[i]
  <2>1. \A i \in 1 .. Len(s) - 1 : i \in 1 .. Len(s)  BY <1>0
  <2>2. \A i \in 1 .. Len(s) - 1 : s[i] \in Worker  BY <2>1
  <2>3. f \in Seq(Worker)  BY <1>0, <2>2, SubSeqProperties
  <2>4. Len(f) = Len(s) - 1  BY <1>0
  <2> QED  BY <1>0, <2>3, <2>4
<1> HIDE DEF f
<1>2. \A i \in 1 .. Len(s) : i \in 1 .. Len(f) \/ i = Len(s)  BY <1>0, <1>1
<1>3. \A i \in 1 .. Len(f) : i \in 1 .. Len(s)  BY <1>0, <1>1
<1>4. Elements(s) = Elements(f) \cup {s[Len(s)]}
  BY <1>0, <1>1, <1>2, <1>3 DEF Elements
<1>5. Distinct(s) => Distinct(f)  BY <1>1, <1>3 DEF Distinct
<1> QED  BY <1>1, <1>4, <1>5 DEF f

-----------------------------------------------------------------------------
\* A new scope satisfies the invariants.
LEMMA InitScope == Init => ScopeInv /\ NoLostWakeup /\ SeenBegun
<1> SUFFICES ASSUME Init PROVE ScopeInv /\ NoLostWakeup /\ SeenBegun  OBVIOUS
<1>1. TypeOK
  <2>1. <<>> \in Seq(Worker)  OBVIOUS
  <2>2. 0 \in 0 .. Cardinality(Worker) /\ 0 \in 0 .. Timeout  BY WorkersCounted, ScopeAssumption
  <2>3. handles \in [Joiner -> Seq(Worker)]  BY <2>1 DEF Init
  <2> QED  BY <2>1, <2>2, <2>3 DEF Init, TypeOK, WorkerPC, JoinPC
<1>2. TrackedOnce  BY EmptyList DEF Init, TrackedOnce
<1>3. HandlesHeld /\ DueCovered  BY DEF Init, HandlesHeld, DueCovered
<1>4. SummaryBounded  BY WorkersCounted DEF Init, SummaryBounded
<1> QED  BY <1>1, <1>2, <1>3, <1>4 DEF Init, ScopeInv, NoLostWakeup, SeenBegun

-----------------------------------------------------------------------------
(* Types.                                                                  *)

\* The abbreviations of vars that UNCHANGED names.
LEMMA StepWorker ==
    ASSUME TypeOK, NEW w \in Worker, NEW from, NEW to \in WorkerPC \ {"new"},
           from \in WorkerPC \ {"new", "done", "aborted"},
           from = "aborting" => to = "aborted", Worked(w, from, to)
    PROVE  /\ wpc' \in [Worker -> WorkerPC]
           /\ wpc[w] = from /\ wpc'[w] = to
           /\ \A v \in Worker \ {w} : wpc'[v] = wpc[v]
           /\ \A v \in Worker : wpc[v] # "new" => wpc'[v] # "new"
           /\ \A v \in Worker : Ended(v) \/ wpc[v] = "aborting" =>
                  (Ended(v) \/ wpc[v] = "aborting")'
           /\ UNCHANGED <<cancelled, epoch, pending, tracked, lock, jpc, handles, completed,
                          aborted, elapsed, due>>
BY DEF TypeOK, Worked, Ended, WorkerPC, token, summary

\* A step of a worker moves it from one place of cancelled() to another, and a
\* task that ended or was told to end stays so.
LEMMA WorkerMoves ==
    ASSUME TypeOK, NEW w \in Worker, WorkerStep(w)
    PROVE  /\ wpc' \in [Worker -> WorkerPC]
           /\ \A v \in Worker \ {w} : wpc'[v] = wpc[v]
           /\ \A v \in Worker : wpc[v] # "new" => wpc'[v] # "new"
           /\ \A v \in Worker : Ended(v) \/ wpc[v] = "aborting" =>
                  (Ended(v) \/ wpc[v] = "aborting")'
           /\ UNCHANGED <<cancelled, epoch, pending, tracked, lock, jpc, handles, completed,
                          aborted, elapsed, due>>
           /\ seen' \in [Worker -> Nat]
           /\ \A v \in Worker : seen'[v] = seen[v] \/ (v = w /\ seen'[v] = epoch)
<1>1. CASE CheckFlag(w)
  <2>1. PICK from \in {"check", "recheck", "woken"}, to \in {"done", "create", "park"} :
            Worked(w, from, to)
    BY <1>1 DEF CheckFlag
  <2>2. UNCHANGED seen  BY <1>1 DEF CheckFlag
  <2> QED  BY <2>1, <2>2, StepWorker DEF TypeOK, WorkerPC
<1>2. CASE CreateNotified(w)
  <2>1. Worked(w, "create", "recheck") /\ seen' = [seen EXCEPT ![w] = epoch]
    BY <1>2 DEF CreateNotified
  <2>2. seen' \in [Worker -> Nat] /\ \A v \in Worker : seen'[v] = seen[v] \/ (v = w /\ seen'[v] = epoch)
    BY <2>1 DEF TypeOK
  <2> QED  BY <2>1, <2>2, StepWorker DEF WorkerPC
<1>3. CASE Park(w)
  <2>1. Worked(w, "park", "parked") /\ UNCHANGED seen  BY <1>3 DEF Park
  <2> QED  BY <2>1, StepWorker DEF TypeOK, WorkerPC
<1>4. CASE Wake(w)
  <2>1. Worked(w, "parked", "woken") /\ UNCHANGED seen  BY <1>4 DEF Wake
  <2> QED  BY <2>1, StepWorker DEF TypeOK, WorkerPC
<1>5. CASE AbortLands(w)
  <2>1. Worked(w, "aborting", "aborted") /\ UNCHANGED seen  BY <1>5 DEF AbortLands
  <2> QED  BY <2>1, StepWorker DEF TypeOK, WorkerPC
<1> QED  BY <1>1, <1>2, <1>3, <1>4, <1>5 DEF WorkerStep

\* The list a collected handle leaves, and what it was counted as.
LEMMA Collected ==
    ASSUME ScopeInv, NEW j \in Joiner, Collect(j)
    PROVE  /\ handles' \in [Joiner -> Seq(Worker)]
           /\ Len(handles'[j]) = Len(handles[j]) - 1 /\ Len(handles[j]) \in Nat
           /\ Elements(handles[j]) = Elements(handles'[j]) \cup {handles[j][Len(handles[j])]}
           /\ Distinct(handles[j]) => Distinct(handles'[j])
           /\ Ended(handles[j][Len(handles[j])])
           /\ \A i \in Joiner \ {j} : handles'[i] = handles[i]
           /\ completed' = [completed EXCEPT ![j] = completed[j] + 1]
           /\ UNCHANGED <<cancelled, epoch, wpc, seen, pending, tracked, lock, jpc, aborted,
                          elapsed, due>>
<1> DEFINE s == handles[j]
           f == SubSeq(s, 1, Len(s) - 1)
<1>1. handles \in [Joiner -> Seq(Worker)] /\ s \in Seq(Worker) /\ s # <<>> /\ Len(s) \in Nat
  BY DEF Collect, ScopeInv, TypeOK
<1>2. /\ f \in Seq(Worker) /\ Len(f) = Len(s) - 1
      /\ Elements(s) = Elements(f) \cup {s[Len(s)]}
      /\ Distinct(s) => Distinct(f)
  BY <1>1, FrontList
<1>3. handles' = [handles EXCEPT ![j] = f]  BY DEF Collect
<1> HIDE DEF f
<1>4. handles'[j] = f /\ handles' \in [Joiner -> Seq(Worker)]  BY <1>1, <1>2, <1>3
<1>5. \A i \in Joiner \ {j} : handles'[i] = handles[i]  BY <1>1, <1>3
<1>6. Ended(s[Len(s)])  BY DEF Collect
<1>7. /\ completed' = [completed EXCEPT ![j] = completed[j] + 1]
      /\ UNCHANGED <<cancelled, epoch, wpc, seen, pending, tracked, lock, jpc, aborted,
                     elapsed, due>>
  BY DEF Collect, token, workers
<1> QED  BY <1>1, <1>2, <1>4, <1>5, <1>6, <1>7

\* Types are preserved; in particular the summary counts no handle twice.
LEMMA TypeStep == ScopeInv /\ [Next]_vars => TypeOK'
<1> SUFFICES ASSUME ScopeInv, [Next]_vars PROVE TypeOK'  OBVIOUS
<1>0. TypeOK  BY DEF ScopeInv
<1>1. ASSUME NEW w \in Worker, Spawn(w)  PROVE TypeOK'
  BY <1>0, <1>1 DEF Spawn, TypeOK, WorkerPC, token, summary
<1>2. ASSUME NEW w \in Worker, Track(w)  PROVE TypeOK'
  <2>1. tracked' = Append(tracked, w) \/ tracked' = tracked  BY <1>2 DEF Track
  <2>2. tracked' \in Seq(Worker)
    <3>1. tracked \in Seq(Worker)  BY <1>0 DEF TypeOK
    <3>2. Append(tracked, w) \in Seq(Worker)  BY <3>1
    <3> QED  BY <2>1, <3>1, <3>2
  <2>3. pending' \subseteq Worker  BY <1>0, <1>2 DEF Track, TypeOK
  <2>4. UNCHANGED <<token, wpc, seen, lock, jpc, summary, elapsed, due>>  BY <1>2 DEF Track
  <2> QED  BY <1>0, <2>2, <2>3, <2>4 DEF TypeOK, token, summary
<1>3. ASSUME NEW w \in Worker, WorkerStep(w)  PROVE TypeOK'
  BY <1>0, <1>3, WorkerMoves DEF TypeOK
<1>4. ASSUME NEW j \in Joiner, Cancel(j)  PROVE TypeOK'
  <2>1. \A s \in Seq(Worker) : Elements(s) \subseteq Worker  BY DEF Elements
  <2>2. Elements(tracked) \cup UNION {Elements(handles[i]) : i \in Joiner} \subseteq Worker
    BY <1>0, <2>1 DEF TypeOK
  <2>3. due' \in [Joiner -> SUBSET Worker]  BY <1>0, <1>4, <2>2 DEF Cancel, TypeOK
  <2>4. jpc' \in [Joiner -> JoinPC]  BY <1>0, <1>4 DEF Cancel, Swap, TypeOK, JoinPC
  <2> QED  BY <1>0, <1>4, <2>3, <2>4 DEF Cancel, TypeOK, workers, summary
<1>5. ASSUME NEW j \in Joiner, NotifyWaiters(j)  PROVE TypeOK'
  BY <1>0, <1>5 DEF NotifyWaiters, TypeOK, JoinPC, workers, summary
<1>6. ASSUME NEW j \in Joiner, LockTasks(j)  PROVE TypeOK'
  BY <1>0, <1>6 DEF LockTasks, TypeOK, JoinPC, token, workers, summary
<1>7. ASSUME NEW j \in Joiner, TakeSnapshot(j)  PROVE TypeOK'
  <2>1. tracked' \in Seq(Worker)  BY <1>7 DEF TakeSnapshot, Remaining
  <2>2. handles' \in [Joiner -> Seq(Worker)]  BY <1>0, <1>7 DEF TakeSnapshot, TypeOK
  <2>3. jpc' \in [Joiner -> JoinPC]  BY <1>0, <1>7 DEF TakeSnapshot, TypeOK, JoinPC
  <2> QED  BY <1>0, <1>7, <2>1, <2>2, <2>3 DEF TakeSnapshot, TypeOK, token, workers
<1>8. ASSUME NEW j \in Joiner, Collect(j)  PROVE TypeOK'
  <2>1. completed[j] + aborted[j] + Len(handles[j]) <= Cardinality(Worker)
    BY DEF ScopeInv, SummaryBounded
  <2>2. Len(handles'[j]) \in Nat /\ Len(handles[j]) = Len(handles'[j]) + 1
    BY <1>8, Collected
  <2>3. completed[j] + 1 \in 0 .. Cardinality(Worker)
    BY <1>0, <2>1, <2>2, WorkersCounted DEF TypeOK
  <2>4. completed' \in [Joiner -> 0 .. Cardinality(Worker)]
    BY <1>0, <1>8, <2>3, Collected DEF TypeOK
  <2> QED  BY <1>0, <1>8, <2>4, Collected DEF TypeOK
<1>9. ASSUME NEW j \in Joiner, AbortRest(j)  PROVE TypeOK'
  <2>1. completed[j] + aborted[j] + Len(handles[j]) <= Cardinality(Worker)
    BY DEF ScopeInv, SummaryBounded
  <2>2. handles[j] \in Seq(Worker) /\ Len(handles[j]) \in Nat  BY <1>0 DEF TypeOK
  <2>3. aborted[j] + Len(handles[j]) \in 0 .. Cardinality(Worker)
    BY <1>0, <2>1, <2>2, WorkersCounted DEF TypeOK
  <2>4. aborted' \in [Joiner -> 0 .. Cardinality(Worker)]
    BY <1>0, <1>9, <2>3 DEF AbortRest, TypeOK
  <2>5. handles' \in [Joiner -> Seq(Worker)]  BY <1>0, <1>9 DEF AbortRest, Undrained, TypeOK
  <2>6. wpc' \in [Worker -> WorkerPC]  BY <1>0, <1>9 DEF AbortRest, TypeOK, WorkerPC
  <2> QED  BY <1>0, <1>9, <2>4, <2>5, <2>6 DEF AbortRest, TypeOK, token
<1>10. ASSUME NEW j \in Joiner, JoinReturns(j)  PROVE TypeOK'
  BY <1>0, <1>10 DEF JoinReturns, TypeOK, JoinPC, token, workers, summary
<1>11. ASSUME NEW j \in Joiner, Tick(j)  PROVE TypeOK'
  BY <1>0, <1>11, ScopeAssumption DEF Tick, TypeOK, token, workers, summary
<1>12. CASE UNCHANGED vars  BY <1>0, <1>12 DEF TypeOK, vars, token, workers, summary
<1> QED  BY <1>1, <1>2, <1>3, <1>4, <1>5, <1>6, <1>7, <1>8, <1>9, <1>10, <1>11, <1>12
         DEF Next, JoinStep

-----------------------------------------------------------------------------
(* Where a task may be.                                                     *)

\* An abort ends every task still listed and starts none.
LEMMA Aborted ==
    ASSUME TypeOK, NEW j \in Joiner, AbortRest(j)
    PROVE  /\ handles'[j] = <<>> /\ \A i \in Joiner \ {j} : handles'[i] = handles[i]
           /\ \A w \in Worker : wpc[w] # "new" => wpc'[w] # "new"
           /\ \A w \in Worker : wpc'[w] = wpc[w] \/ wpc'[w] = "aborting"
           /\ \A w \in Worker : Ended(w) \/ wpc[w] = "aborting" \/ w \in Elements(handles[j]) =>
                  (Ended(w) \/ wpc[w] = "aborting")'
           /\ UNCHANGED <<cancelled, epoch, seen, pending, tracked, lock, jpc, completed,
                          elapsed, due>>
<1>1. wpc' = [w \in Worker |-> IF w \in Elements(handles[j]) /\ ~Ended(w) THEN "aborting" ELSE wpc[w]]
  BY DEF AbortRest, AbortedNow
<1>2. handles' = [handles EXCEPT ![j] = <<>>]  BY DEF AbortRest, Undrained
<1>3. UNCHANGED <<cancelled, epoch, seen, pending, tracked, lock, jpc, completed, elapsed, due>>
  BY DEF AbortRest, token
<1> QED  BY <1>1, <1>2, <1>3 DEF TypeOK, Ended

\* A handle stays in one place: the list, or the snapshot of one join.
LEMMA TrackedOnceStep == ScopeInv /\ [Next]_vars => TrackedOnce'
<1> SUFFICES ASSUME ScopeInv, [Next]_vars PROVE TrackedOnce'  OBVIOUS
<1>0. TypeOK /\ TrackedOnce  BY DEF ScopeInv
<1>t. /\ Elements(tracked) \subseteq Worker
      /\ \A j \in Joiner : Elements(handles[j]) \subseteq Worker
  <2>1. \A s \in Seq(Worker) : Elements(s) \subseteq Worker  BY DEF Elements
  <2> QED  BY <1>0, <2>1 DEF TypeOK
<1>1. ASSUME NEW w \in Worker, Spawn(w)  PROVE TrackedOnce'
  <2>1. /\ wpc[w] = "new" /\ wpc'[w] # "new" /\ pending' = pending \cup {w}
        /\ \A v \in Worker \ {w} : wpc'[v] = wpc[v]
        /\ UNCHANGED <<tracked, handles>>
    BY <1>0, <1>1 DEF Spawn, TypeOK, summary
  <2>2. /\ Distinct(tracked)' /\ Elements(tracked)' = Elements(tracked)
        /\ \A j \in Joiner : Distinct(handles[j])' /\ Elements(handles[j])' = Elements(handles[j])
    BY <1>0, <2>1 DEF TrackedOnce, Distinct, Elements
  <2>3. /\ w \notin Elements(tracked)
        /\ \A j \in Joiner : w \notin Elements(handles[j])
    BY <1>0, <2>1 DEF TrackedOnce
  <2> QED  BY <1>0, <1>t, <2>1, <2>2, <2>3 DEF TrackedOnce, TypeOK
<1>2. ASSUME NEW w \in Worker, Track(w)  PROVE TrackedOnce'
  <2>1. w \in pending /\ pending' = pending \ {w} /\ UNCHANGED <<wpc, handles>>
    BY <1>2 DEF Track, summary
  <2>2. CASE tracked' = tracked
    BY <1>0, <2>1, <2>2 DEF TrackedOnce, Distinct, Elements
  <2>3. CASE tracked' = Append(tracked, w)
    <3>1. /\ Elements(tracked') = Elements(tracked) \cup {w}
          /\ w \notin Elements(tracked) /\ Distinct(tracked) => Distinct(tracked')
      BY <1>0, <2>3, AppendList DEF TypeOK
    <3>2. Distinct(tracked')  BY <1>0, <2>1, <3>1 DEF TrackedOnce
    <3>3. \A j \in Joiner : Distinct(handles[j])' /\ Elements(handles[j])' = Elements(handles[j])
      BY <1>0, <2>1 DEF TrackedOnce, Distinct, Elements
    <3>4. Distinct(tracked)' /\ Elements(tracked)' = Elements(tracked')
      BY <3>2 DEF Distinct, Elements
    <3> QED  BY <1>0, <2>1, <3>1, <3>3, <3>4 DEF TrackedOnce
  <2> QED  BY <1>2, <2>2, <2>3 DEF Track
<1>3. ASSUME NEW w \in Worker, WorkerStep(w)  PROVE TrackedOnce'
  <2>1. /\ UNCHANGED <<pending, tracked, handles>>
        /\ \A v \in Worker : wpc[v] # "new" => wpc'[v] # "new"
    BY <1>0, <1>3, WorkerMoves
  <2> QED  BY <1>0, <1>t, <2>1 DEF TrackedOnce, TypeOK, Distinct, Elements
<1>4. ASSUME NEW j \in Joiner, TakeSnapshot(j)  PROVE TrackedOnce'
  <2>1. /\ handles'[j] = tracked /\ tracked' = <<>> /\ UNCHANGED <<wpc, pending>>
        /\ \A i \in Joiner \ {j} : handles'[i] = handles[i]
    BY <1>0, <1>4 DEF TakeSnapshot, Remaining, TypeOK, workers
  <2>2. Distinct(tracked)' /\ Elements(tracked)' = {}
    BY <2>1, EmptyList DEF Distinct, Elements
  <2>3. \A i \in Joiner : \/ i = j /\ Distinct(handles[i])' /\ Elements(handles[i])' = Elements(tracked)
                          \/ Distinct(handles[i])' /\ Elements(handles[i])' = Elements(handles[i])
    BY <1>0, <2>1 DEF TrackedOnce, Distinct, Elements
  <2> QED  BY <1>0, <2>1, <2>2, <2>3 DEF TrackedOnce
<1>5. ASSUME NEW j \in Joiner, Collect(j)  PROVE TrackedOnce'
  <2>1. \A i \in Joiner : Distinct(handles'[i]) /\ Elements(handles'[i]) \subseteq Elements(handles[i])
    BY <1>0, <1>5, Collected DEF TrackedOnce
  <2>2. \A i \in Joiner : Distinct(handles[i])' /\ Elements(handles[i])' \subseteq Elements(handles[i])
    BY <2>1 DEF Distinct, Elements
  <2>3. UNCHANGED <<wpc, pending, tracked>>  BY <1>5, Collected
  <2>4. Distinct(tracked)' /\ Elements(tracked)' = Elements(tracked)
    BY <1>0, <2>3 DEF TrackedOnce, Distinct, Elements
  <2> QED  BY <1>0, <2>2, <2>3, <2>4 DEF TrackedOnce
<1>6. ASSUME NEW j \in Joiner, AbortRest(j)  PROVE TrackedOnce'
  <2>1. \A i \in Joiner : handles'[i] = <<>> \/ handles'[i] = handles[i]  BY <1>0, <1>6, Aborted
  <2>2. \A i \in Joiner : Distinct(handles[i])' /\ Elements(handles[i])' \subseteq Elements(handles[i])
    BY <1>0, <2>1, EmptyList DEF TrackedOnce, Distinct, Elements
  <2>3. UNCHANGED <<pending, tracked>> /\ \A w \in Worker : wpc[w] # "new" => wpc'[w] # "new"
    BY <1>0, <1>6, Aborted
  <2>4. Distinct(tracked)' /\ Elements(tracked)' = Elements(tracked)
    BY <1>0, <2>3 DEF TrackedOnce, Distinct, Elements
  <2> QED  BY <1>0, <1>t, <2>2, <2>3, <2>4 DEF TrackedOnce, TypeOK
<1>7. CASE UNCHANGED <<wpc, pending, tracked, handles>>
  BY <1>0, <1>7 DEF TrackedOnce, Distinct, Elements
<1>8. ASSUME NEW j \in Joiner,
             Cancel(j) \/ NotifyWaiters(j) \/ LockTasks(j) \/ JoinReturns(j) \/ Tick(j)
      PROVE  UNCHANGED <<wpc, pending, tracked, handles>>
  BY <1>8 DEF Cancel, NotifyWaiters, LockTasks, JoinReturns, Tick, workers, summary
<1>9. UNCHANGED vars => UNCHANGED <<wpc, pending, tracked, handles>>
  BY DEF vars, workers, summary
<1> QED  BY <1>1, <1>2, <1>3, <1>4, <1>5, <1>6, <1>7, <1>8, <1>9 DEF Next, JoinStep

\* Only a join that drains comes to hold handles.
LEMMA HandlesHeldStep == ScopeInv /\ [Next]_vars => HandlesHeld'
<1> SUFFICES ASSUME ScopeInv, [Next]_vars PROVE HandlesHeld'  OBVIOUS
<1>0. TypeOK /\ HandlesHeld  BY DEF ScopeInv
<1>1. ASSUME NEW j \in Joiner, Cancel(j) \/ NotifyWaiters(j) \/ LockTasks(j) PROVE HandlesHeld'
  BY <1>0, <1>1 DEF Cancel, Swap, NotifyWaiters, LockTasks, HandlesHeld, TypeOK, summary
<1>2. ASSUME NEW j \in Joiner, TakeSnapshot(j)  PROVE HandlesHeld'
  BY <1>0, <1>2 DEF TakeSnapshot, HandlesHeld, TypeOK
<1>3. ASSUME NEW j \in Joiner, Collect(j)  PROVE HandlesHeld'
  <2>1. jpc[j] = "drain" /\ UNCHANGED <<jpc, aborted>>  BY <1>3, Collected DEF Collect
  <2>2. \A i \in Joiner \ {j} : handles'[i] = handles[i] /\ completed'[i] = completed[i]
    BY <1>0, <1>3, Collected DEF TypeOK
  <2> QED  BY <1>0, <2>1, <2>2 DEF HandlesHeld
<1>4. ASSUME NEW j \in Joiner, AbortRest(j)  PROVE HandlesHeld'
  BY <1>0, <1>4 DEF AbortRest, HandlesHeld, TypeOK
<1>5. ASSUME NEW j \in Joiner, JoinReturns(j)  PROVE HandlesHeld'
  BY <1>0, <1>5 DEF JoinReturns, HandlesHeld, TypeOK, summary
<1>6. CASE UNCHANGED <<jpc, handles, completed, aborted>>
  BY <1>0, <1>6 DEF HandlesHeld
<1>7. ASSUME NEW w \in Worker, Spawn(w) \/ Track(w) \/ WorkerStep(w)
      PROVE  UNCHANGED <<jpc, handles, completed, aborted>>
  BY <1>0, <1>7, WorkerMoves DEF Spawn, Track, summary
<1>8. ASSUME NEW j \in Joiner, Tick(j)  PROVE UNCHANGED <<jpc, handles, completed, aborted>>
  BY <1>8 DEF Tick, summary
<1>9. UNCHANGED vars => UNCHANGED <<jpc, handles, completed, aborted>>  BY DEF vars, summary
<1> QED  BY <1>1, <1>2, <1>3, <1>4, <1>5, <1>6, <1>7, <1>8, <1>9 DEF Next, JoinStep

\* A join counts and keeps no more handles than there are tasks.
LEMMA SummaryBoundedStep == ScopeInv /\ [Next]_vars => SummaryBounded'
<1> SUFFICES ASSUME ScopeInv, [Next]_vars PROVE SummaryBounded'  OBVIOUS
<1>0. TypeOK /\ TrackedOnce /\ HandlesHeld /\ SummaryBounded  BY DEF ScopeInv
<1>1. ASSUME NEW j \in Joiner, TakeSnapshot(j)  PROVE SummaryBounded'
  <2>1. /\ handles'[j] = tracked /\ UNCHANGED <<completed, aborted>>
        /\ \A i \in Joiner \ {j} : handles'[i] = handles[i]
    BY <1>0, <1>1 DEF TakeSnapshot, TypeOK
  <2>2. Len(tracked) <= Cardinality(Worker)  BY <1>0, DistinctLength DEF TrackedOnce, TypeOK
  <2>3. completed[j] = 0 /\ aborted[j] = 0  BY <1>0, <1>1 DEF HandlesHeld, TakeSnapshot
  <2>4. Len(tracked) \in Nat  BY <1>0 DEF TypeOK
  <2> QED  BY <1>0, <2>1, <2>2, <2>3, <2>4 DEF SummaryBounded
<1>2. ASSUME NEW j \in Joiner, Collect(j)  PROVE SummaryBounded'
  <2>1. /\ completed'[j] = completed[j] + 1 /\ UNCHANGED aborted
        /\ \A i \in Joiner \ {j} : handles'[i] = handles[i] /\ completed'[i] = completed[i]
        /\ Len(handles'[j]) = Len(handles[j]) - 1 /\ Len(handles[j]) \in Nat
    BY <1>0, <1>2, Collected DEF TypeOK
  <2>2. /\ completed[j] \in Nat /\ aborted[j] \in Nat
        /\ completed[j] + aborted[j] + Len(handles[j]) <= Cardinality(Worker)
    BY <1>0, WorkersCounted DEF TypeOK, SummaryBounded
  <2>3. completed'[j] + aborted'[j] + Len(handles'[j]) <= Cardinality(Worker)
    BY <2>1, <2>2, WorkersCounted
  <2> QED  BY <1>0, <2>1, <2>3 DEF SummaryBounded
<1>3. ASSUME NEW j \in Joiner, AbortRest(j)  PROVE SummaryBounded'
  <2>1. /\ aborted'[j] = aborted[j] + Len(handles[j]) /\ UNCHANGED completed
        /\ \A i \in Joiner \ {j} : handles'[i] = handles[i] /\ aborted'[i] = aborted[i]
        /\ Len(handles'[j]) = 0
    BY <1>0, <1>3 DEF AbortRest, Undrained, TypeOK
  <2>2. /\ completed[j] \in Nat /\ aborted[j] \in Nat /\ Len(handles[j]) \in Nat
        /\ completed[j] + aborted[j] + Len(handles[j]) <= Cardinality(Worker)
    BY <1>0, WorkersCounted DEF TypeOK, SummaryBounded
  <2>3. completed'[j] + aborted'[j] + Len(handles'[j]) <= Cardinality(Worker)
    BY <2>1, <2>2, WorkersCounted
  <2> QED  BY <1>0, <2>1, <2>3 DEF SummaryBounded
<1>4. CASE UNCHANGED <<handles, completed, aborted>>  BY <1>0, <1>4 DEF SummaryBounded
<1>5. ASSUME NEW w \in Worker, Spawn(w) \/ Track(w) \/ WorkerStep(w)
      PROVE  UNCHANGED <<handles, completed, aborted>>
  BY <1>0, <1>5, WorkerMoves DEF Spawn, Track, summary
<1>6. ASSUME NEW j \in Joiner,
             Cancel(j) \/ NotifyWaiters(j) \/ LockTasks(j) \/ JoinReturns(j) \/ Tick(j)
      PROVE  UNCHANGED <<handles, completed, aborted>>
  BY <1>6 DEF Cancel, NotifyWaiters, LockTasks, JoinReturns, Tick, summary
<1>7. UNCHANGED vars => UNCHANGED <<handles, completed, aborted>>  BY DEF vars, summary
<1> QED  BY <1>1, <1>2, <1>3, <1>4, <1>5, <1>6, <1>7 DEF Next, JoinStep

-----------------------------------------------------------------------------
(* What a shutdown owes the tasks it found.                                 *)

\* What a shutdown is due stays tracked, in the hands of some join, or ended.
LEMMA DueCoveredStep == ScopeInv /\ [Next]_vars => DueCovered'
<1> SUFFICES ASSUME ScopeInv, [Next]_vars PROVE DueCovered'  OBVIOUS
<1>0. TypeOK /\ TrackedOnce /\ HandlesHeld /\ DueCovered  BY DEF ScopeInv
<1> DEFINE Over(w) == Ended(w) \/ wpc[w] = "aborting"
<1>t. \A j \in Joiner : due[j] \subseteq Worker  BY <1>0 DEF TypeOK
<1>1. ASSUME NEW w \in Worker, Spawn(w)  PROVE DueCovered'
  <2>1. /\ wpc[w] = "new" /\ \A v \in Worker \ {w} : wpc'[v] = wpc[v]
        /\ UNCHANGED <<tracked, handles, jpc, due>>
    BY <1>0, <1>1 DEF Spawn, TypeOK, summary
  <2> QED  BY <1>0, <1>t, <2>1 DEF DueCovered, Ended, Elements
<1>2. ASSUME NEW w \in Worker, Track(w)  PROVE DueCovered'
  <2>1. /\ UNCHANGED <<wpc, handles, jpc, due>>
        /\ tracked' = tracked \/ tracked' = Append(tracked, w)
    BY <1>2 DEF Track, summary
  <2>2. Elements(tracked) \subseteq Elements(tracked')
    BY <1>0, <2>1, AppendList DEF TypeOK
  <2>3. /\ Elements(tracked)' = Elements(tracked')
        /\ \A i \in Joiner : Elements(handles[i])' = Elements(handles[i])
    BY <2>1 DEF Elements
  <2> QED  BY <1>0, <2>1, <2>2, <2>3 DEF DueCovered, Ended
<1>3. ASSUME NEW w \in Worker, WorkerStep(w)  PROVE DueCovered'
  <2>1. /\ UNCHANGED <<tracked, handles, jpc, due>>
        /\ \A v \in Worker : Over(v) => Over(v)'
    BY <1>0, <1>3, WorkerMoves
  <2> QED  BY <1>0, <1>t, <2>1 DEF DueCovered, Elements
<1>4. ASSUME NEW j \in Joiner, Cancel(j)  PROVE DueCovered'
  <2>1. /\ UNCHANGED <<wpc, tracked, handles>>
        /\ due'[j] = Elements(tracked) \cup UNION {Elements(handles[i]) : i \in Joiner}
        /\ jpc'[j] \in {"notify", "lock"}
        /\ \A i \in Joiner \ {j} : due'[i] = due[i] /\ jpc'[i] = jpc[i]
    BY <1>0, <1>4 DEF Cancel, Swap, TypeOK, workers, summary
  <2>2. /\ Elements(tracked)' = Elements(tracked)
        /\ \A i \in Joiner : Elements(handles[i])' = Elements(handles[i])
    BY <2>1 DEF Elements
  <2>3. \A w : (Over(w) => Over(w)')  BY <2>1 DEF Ended
  <2>4. \E i \in Joiner : jpc'[i] \in {"notify", "lock", "take"}  BY <2>1
  <2> QED  BY <1>0, <2>1, <2>2, <2>3, <2>4 DEF DueCovered
<1>5. ASSUME NEW j \in Joiner, TakeSnapshot(j)  PROVE DueCovered'
  <2>1. /\ UNCHANGED <<wpc, due>> /\ handles'[j] = tracked
        /\ \A i \in Joiner \ {j} : handles'[i] = handles[i]
    BY <1>0, <1>5 DEF TakeSnapshot, TypeOK, workers
  <2>2. /\ Elements(handles[j])' = Elements(tracked)
        /\ \A i \in Joiner \ {j} : Elements(handles[i])' = Elements(handles[i])
    BY <2>1 DEF Elements
  <2>3. Elements(handles[j]) = {}  BY <1>0, <1>5, EmptyList DEF HandlesHeld, TakeSnapshot
  <2>4. \A w : (Over(w) => Over(w)')  BY <2>1 DEF Ended
  <2> QED  BY <1>0, <2>1, <2>2, <2>3, <2>4 DEF DueCovered
<1>6. ASSUME NEW j \in Joiner, Collect(j)  PROVE DueCovered'
  <2>1. /\ UNCHANGED <<wpc, due, tracked, jpc>>
        /\ Elements(handles[j]) = Elements(handles'[j]) \cup {handles[j][Len(handles[j])]}
        /\ Ended(handles[j][Len(handles[j])])
        /\ \A i \in Joiner \ {j} : handles'[i] = handles[i]
    BY <1>6, Collected
  <2>2. /\ Elements(tracked)' = Elements(tracked)
        /\ Elements(handles[j])' = Elements(handles'[j])
        /\ \A i \in Joiner \ {j} : Elements(handles[i])' = Elements(handles[i])
    BY <2>1 DEF Elements
  <2>3. \A w : (Over(w) => Over(w)')  BY <2>1 DEF Ended
  <2> QED  BY <1>0, <2>1, <2>2, <2>3 DEF DueCovered
<1>7. ASSUME NEW j \in Joiner, AbortRest(j)  PROVE DueCovered'
  <2>1. /\ UNCHANGED <<due, tracked, jpc>>
        /\ \A w \in Worker : Over(w) \/ w \in Elements(handles[j]) => Over(w)'
        /\ \A i \in Joiner \ {j} : handles'[i] = handles[i]
    BY <1>0, <1>7, Aborted
  <2>2. /\ Elements(tracked)' = Elements(tracked)
        /\ \A i \in Joiner \ {j} : Elements(handles[i])' = Elements(handles[i])
    BY <2>1 DEF Elements
  <2> QED  BY <1>0, <1>t, <2>1, <2>2 DEF DueCovered
<1>8. ASSUME NEW j \in Joiner, NotifyWaiters(j) \/ LockTasks(j) \/ JoinReturns(j) \/ Tick(j)
      PROVE  DueCovered'
  <2>1. /\ UNCHANGED <<wpc, due, tracked, handles>>
        /\ \A i \in Joiner : jpc[i] \in {"notify", "lock", "take"} => jpc'[i] \in {"notify", "lock", "take"}
    BY <1>0, <1>8 DEF NotifyWaiters, LockTasks, JoinReturns, Tick, TypeOK, workers, summary
  <2>2. /\ Elements(tracked)' = Elements(tracked)
        /\ \A i \in Joiner : Elements(handles[i])' = Elements(handles[i])
    BY <2>1 DEF Elements
  <2>3. \A w : (Over(w) => Over(w)')  BY <2>1 DEF Ended
  <2> QED  BY <1>0, <2>1, <2>2, <2>3 DEF DueCovered
<1>9. CASE UNCHANGED vars
  BY <1>0, <1>9 DEF DueCovered, Ended, Elements, vars, workers, summary
<1> QED  BY <1>1, <1>2, <1>3, <1>4, <1>5, <1>6, <1>7, <1>8, <1>9 DEF Next, JoinStep

\* The inductive invariant of the scope holds in every reachable state.
THEOREM ScopeInvariant == Spec => []ScopeInv
<1>1. Init => ScopeInv  BY InitScope
<1>2. ScopeInv /\ [Next]_vars => ScopeInv'
  BY TypeStep, TrackedOnceStep, HandlesHeldStep, SummaryBoundedStep, DueCoveredStep DEF ScopeInv
<1> QED  BY <1>1, <1>2, PTL DEF Spec

(* The state of a scope and of its shutdowns always has its types; a summary  *)
(* never counts more tasks than exist.                                      *)
THEOREM ScopeTypes == Spec => []TypeOK
<1>1. ScopeInv => TypeOK  BY DEF ScopeInv
<1> QED  BY <1>1, ScopeInvariant, PTL

(* CancellationScope::join: when the last of any number of concurrent         *)
(* shutdowns has returned, every task that was tracked when one of them was   *)
(* called has ended or was told to abort, whichever took it over.           *)
THEOREM JoinEndsTasks == Spec => []JoinMeansEnded
<1>1. ScopeInv => JoinMeansEnded
  <2> SUFFICES ASSUME ScopeInv, \A j \in Joiner : jpc[j] \in {"idle", "done"},
                      NEW j \in Joiner, NEW w \in due[j]
               PROVE  Ended(w) \/ wpc[w] = "aborting"
    BY DEF JoinMeansEnded
  <2>1. \A i \in Joiner : handles[i] = <<>>  BY DEF ScopeInv, HandlesHeld
  <2>2. \A i \in Joiner : w \notin Elements(handles[i])  BY <2>1, EmptyList
  <2> QED  BY <2>2 DEF ScopeInv, DueCovered
<1> QED  BY <1>1, ScopeInvariant, PTL

-----------------------------------------------------------------------------
(* No lost wakeup.                                                         *)

WakeInv == TypeOK /\ SeenBegun /\ NoLostWakeup

\* No step of cancelled() or cancel loses a wakeup.
LEMMA WakeStep == WakeInv /\ TypeOK' /\ [Next]_vars => WakeInv'
<1> SUFFICES ASSUME WakeInv, TypeOK', [Next]_vars PROVE SeenBegun' /\ NoLostWakeup'
  BY DEF WakeInv
<1>0. TypeOK /\ SeenBegun /\ NoLostWakeup  BY DEF WakeInv
<1>1. ASSUME NEW w \in Worker, Spawn(w)  PROVE SeenBegun' /\ NoLostWakeup'
  BY <1>0, <1>1 DEF Spawn, SeenBegun, NoLostWakeup, TypeOK, token
<1>2. ASSUME NEW w \in Worker, WorkerStep(w)  PROVE SeenBegun' /\ NoLostWakeup'
  <2>1. /\ UNCHANGED <<cancelled, epoch, jpc>> /\ seen' \in [Worker -> Nat]
        /\ \A v \in Worker \ {w} : wpc'[v] = wpc[v] /\ seen'[v] = seen[v]
        /\ seen'[w] = seen[w] \/ seen'[w] = epoch
    BY <1>0, <1>2, WorkerMoves
  <2>2. SeenBegun'
    <3>1. epoch \in Nat /\ \A v \in Worker : seen[v] \in Nat /\ seen[v] <= epoch
      BY <1>0 DEF SeenBegun, TypeOK
    <3>2. \A v \in Worker : seen'[v] <= epoch  BY <2>1, <3>1
    <3> QED  BY <2>1, <3>2 DEF SeenBegun
  <2>3. cancelled /\ wpc'[w] \in {"park", "parked"} => wpc[w] = "park" /\ seen'[w] = seen[w]
    BY <1>0, <1>2
       DEF WorkerStep, CheckFlag, CreateNotified, Park, Wake, AbortLands, Worked, TypeOK
  <2> QED  BY <1>0, <2>1, <2>2, <2>3 DEF NoLostWakeup
<1>3. ASSUME NEW j \in Joiner, Cancel(j)  PROVE SeenBegun' /\ NoLostWakeup'
  <2>1. UNCHANGED <<epoch, wpc, seen>>  BY <1>3 DEF Cancel, workers
  <2>2. ~cancelled => jpc'[j] = "notify"  BY <1>0, <1>3 DEF Cancel, Swap, TypeOK
  <2>3. cancelled => jpc' = [jpc EXCEPT ![j] = "lock"] /\ jpc[j] = "idle"
    BY <1>3 DEF Cancel, Swap
  <2> QED  BY <1>0, <2>1, <2>2, <2>3 DEF SeenBegun, NoLostWakeup, TypeOK
<1>4. ASSUME NEW j \in Joiner, NotifyWaiters(j)  PROVE SeenBegun' /\ NoLostWakeup'
  <2>1. epoch' = epoch + 1 /\ UNCHANGED seen  BY <1>4 DEF NotifyWaiters, workers
  <2>2. epoch \in Nat /\ \A v \in Worker : seen[v] \in Nat /\ seen[v] <= epoch
    BY <1>0 DEF SeenBegun, TypeOK
  <2>3. \A v \in Worker : seen'[v] < epoch'  BY <2>1, <2>2
  <2>4. epoch' \in Nat /\ \A v \in Worker : seen'[v] \in Nat  BY <2>1, <2>2
  <2>5. \A v \in Worker : seen'[v] <= epoch' /\ seen'[v] # epoch'  BY <2>3, <2>4
  <2> QED  BY <2>5 DEF SeenBegun, NoLostWakeup
<1>5. ASSUME NEW j \in Joiner, AbortRest(j)  PROVE SeenBegun' /\ NoLostWakeup'
  BY <1>0, <1>5, Aborted DEF SeenBegun, NoLostWakeup
<1>6. CASE UNCHANGED <<cancelled, epoch, wpc, seen>> /\
           \A i \in Joiner : jpc[i] = "notify" => jpc'[i] = "notify"
  BY <1>0, <1>6 DEF SeenBegun, NoLostWakeup
<1>7. ASSUME NEW j \in Joiner, LockTasks(j) \/ TakeSnapshot(j) \/ Collect(j) \/ JoinReturns(j) \/ Tick(j)
      PROVE  UNCHANGED <<cancelled, epoch, wpc, seen>> /\
             \A i \in Joiner : jpc[i] = "notify" => jpc'[i] = "notify"
  BY <1>0, <1>7 DEF LockTasks, TakeSnapshot, Collect, JoinReturns, Tick, TypeOK, token, workers
<1>8. ASSUME NEW w \in Worker, Track(w)
      PROVE  UNCHANGED <<cancelled, epoch, wpc, seen>> /\
             \A i \in Joiner : jpc[i] = "notify" => jpc'[i] = "notify"
  BY <1>8 DEF Track, token
<1>9. UNCHANGED vars => UNCHANGED <<cancelled, epoch, wpc, seen, jpc>>
  BY DEF vars, token, workers
<1> QED  BY <1>1, <1>2, <1>3, <1>4, <1>5, <1>6, <1>7, <1>8, <1>9 DEF Next, JoinStep

(* CancellationToken::cancelled loses no wakeup: once the token fired and      *)
(* notify_waiters has run, no worker sleeps on a Notified that was created     *)
(* after the notification, however its two looks at the flag interleave with   *)
(* cancel().  This is the safety half of CancelWakes.                       *)
THEOREM WakeupKept == Spec => []NoLostWakeup
<1>1. Init => WakeInv  BY InitScope DEF ScopeInv, WakeInv
<1>2. WakeInv /\ TypeOK' /\ [Next]_vars => WakeInv'  BY WakeStep
<1>3. WakeInv => NoLostWakeup  BY DEF WakeInv
<1> QED  BY <1>1, <1>2, <1>3, ScopeTypes, PTL DEF Spec
=============================================================================
