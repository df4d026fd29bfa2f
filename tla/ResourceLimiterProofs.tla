----------------------- MODULE ResourceLimiterProofs -----------------------
(***************************************************************************)
(* The limiter keeps its permits and its counters right for every number   *)
(* of callers, keys and semaphores, whatever is reaped, timed out,         *)
(* cancelled or dropped.                                                   *)
(*                                                                         *)
(* PermitsConserved is not inductive alone.  A permit is handed to the     *)
(* head of a queue, so the proof needs that a queue holds no task twice    *)
(* and only tasks that wait for that semaphore without owning it           *)
(* (QueuesOK); and taking a permit must not take one the task already      *)
(* owns, which follows from where its call stands (CallsOK).               *)
(*                                                                         *)
(* That the limiter implements PermitPool needs one more fact: the callers *)
(* of a key that is never reaped all refer to the semaphore the map holds  *)
(* for it (KeysStable), so that one count bounds them all.                 *)
(***************************************************************************)
EXTENDS ResourceLimiter, FiniteSetTheorems, TLAPS

USE DEF token

\* The per-key slot of task t's call.
KeySlot(t) == IF PerKeyLimit = 0 THEN {} ELSE {semaOf[t]}

CallOK(t) ==
    /\ held[t] \subseteq {semaOf[t], Global}
    /\ PerKeyLimit = 0 => semaOf[t] = NoSema
    /\ pc[t] \in {"idle", "lookup", "takeKey"} => held[t] = {}
    /\ pc[t] \in {"takeKey", "waitKey"} => semaOf[t] \in Sema /\ PerKeyLimit # 0
    /\ pc[t] = "lookup" => PerKeyLimit # 0
    /\ pc[t] # "idle" => keyOf[t] \in Key
    /\ pc[t] = "waitKey" => Global \notin held[t]
    /\ pc[t] = "takeGlobal" => held[t] = KeySlot(t)
    /\ pc[t] = "waitGlobal" => KeySlot(t) \subseteq held[t]
    /\ pc[t] \in {"finish", "check"} => held[t] \in {{}, {Global} \cup KeySlot(t)}
    /\ pc[t] \in {"grant", "holding"} => held[t] = {Global} \cup KeySlot(t)
    /\ pc[t] \in {"takeGlobal", "waitGlobal", "grant", "holding"} /\ PerKeyLimit # 0 =>
          semaOf[t] \in Sema
    /\ pc[t] \in {"waitKey", "waitGlobal", "fail", "finish", "check"} => t \in blocking
    /\ pc[t] \in {"idle", "reject"} => t \notin blocking

CallsOK == \A t \in Task : CallOK(t)

\* The tasks parked on semaphore s.
Parked(s) ==
    {t \in Task : /\ s \notin held[t]
                  /\ \/ s = Global /\ pc[t] = "waitGlobal"
                     \/ s # Global /\ pc[t] = "waitKey" /\ semaOf[t] = s}

QueueOK(s) ==
    /\ \A i \in 1 .. Len(queue[s]) : queue[s][i] \in Parked(s)
    /\ \A i, j \in 1 .. Len(queue[s]) : i # j => queue[s][i] # queue[s][j]

QueuesOK == \A s \in Semaphore : QueueOK(s)

IInv == TypeOK /\ CallsOK /\ QueuesOK /\ PermitsConserved /\ MetricsBalance
-----------------------------------------------------------------------------
(* Facts about the helpers.                                                *)

(* Counting the tasks of a set when one joins or leaves it.                 *)
LEMMA Counting ==
    ASSUME NEW S \in SUBSET Task, NEW t
    PROVE  /\ Cardinality(S) \in Nat
           /\ Cardinality(S \cup {t}) = IF t \in S THEN Cardinality(S) ELSE Cardinality(S) + 1
           /\ Cardinality(S \ {t}) = IF t \in S THEN Cardinality(S) - 1 ELSE Cardinality(S)
<1>1. IsFiniteSet(S)
  BY LimiterAssumption, FS_Subset
<1> QED
  BY <1>1, FS_CardinalityType, FS_AddElement, FS_RemoveElement

(* Removing a task from a queue keeps the other entries, in order.          *)
LEMMA WithoutProps ==
    ASSUME NEW q \in Seq(Task), NEW t \in Task,
           \A i, j \in 1 .. Len(q) : i # j => q[i] # q[j]
    PROVE  /\ Without(q, t) \in Seq(Task)
           /\ \A i \in 1 .. Len(Without(q, t)) :
                 Without(q, t)[i] # t /\ \E j \in 1 .. Len(q) : Without(q, t)[i] = q[j]
           /\ \A i, j \in 1 .. Len(Without(q, t)) :
                 i # j => Without(q, t)[i] # Without(q, t)[j]
<1>1. CASE ~ \E i \in 1 .. Len(q) : q[i] = t
  BY <1>1 DEF Without
<1>2. CASE \E i \in 1 .. Len(q) : q[i] = t
  <2> DEFINE k == CHOOSE j \in 1 .. Len(q) : q[j] = t
             w == [j \in 1 .. Len(q) - 1 |-> IF j < k THEN q[j] ELSE q[j + 1]]
  <2>1. k \in 1 .. Len(q) /\ q[k] = t
    BY <1>2
  <2>2. Without(q, t) = w
    BY <1>2 DEF Without
  <2> HIDE DEF k
  <2>3. Len(q) - 1 \in Nat
    BY <2>1
  <2>4. w \in Seq(Task) /\ Len(w) = Len(q) - 1
    BY <2>1, <2>3
  <2>5. \A i \in 1 .. Len(q) - 1 :
          w[i] = IF i < k THEN q[i] ELSE q[i + 1]
    OBVIOUS
  <2>6. \A i \in 1 .. Len(q) - 1 : i \in 1 .. Len(q) /\ i + 1 \in 1 .. Len(q)
    OBVIOUS
  <2> HIDE DEF w
  <2>7. \A i \in 1 .. Len(w) : w[i] # t /\ \E j \in 1 .. Len(q) : w[i] = q[j]
    BY <2>1, <2>4, <2>5, <2>6
  <2>8. \A i, j \in 1 .. Len(w) : i # j => w[i] # w[j]
    BY <2>1, <2>4, <2>5, <2>6
  <2> QED
    BY <2>2, <2>4, <2>7, <2>8
<1> QED
  BY <1>1, <1>2

-----------------------------------------------------------------------------
(* Permits.                                                                *)

(* Taking a free permit of a semaphore moves it to the task.                *)
LEMMA TakeConserves ==
    ASSUME TypeOK, PermitsConserved, NEW t \in Task, NEW s \in Semaphore,
           s \notin held[t], Take(t, s)
    PROVE  PermitsConserved'
<1> SUFFICES ASSUME NEW u \in Semaphore
             PROVE  avail'[u] + Cardinality(Holders(u)') = Limit(u)
  BY DEF PermitsConserved, Limit
<1>1. CASE u = s
  <2>1. Holders(s)' = Holders(s) \cup {t} /\ t \notin Holders(s)
    BY DEF Holders, Take, TypeOK
  <2>2. avail'[s] = avail[s] - 1
    BY DEF Take, TypeOK
  <2>3. Cardinality(Holders(s)) \in Nat /\ Cardinality(Holders(s)') = Cardinality(Holders(s)) + 1
    <3>1. Holders(s) \in SUBSET Task
      BY DEF Holders
    <3> QED
      BY <2>1, <3>1, Counting
  <2>4. avail[s] \in Nat /\ avail[s] + Cardinality(Holders(s)) = Limit(s)
    BY DEF PermitsConserved, TypeOK
  <2> QED
    BY <1>1, <2>2, <2>3, <2>4
<1>2. CASE u # s
  <2>1. Holders(u)' = Holders(u)
    BY <1>2 DEF Holders, Take, TypeOK
  <2> QED
    BY <1>2, <2>1 DEF PermitsConserved, Take, TypeOK
<1> QED
  BY <1>1, <1>2

(* A dropped permit is free again or belongs to the head of the queue.      *)
LEMMA ReleaseConserves ==
    ASSUME TypeOK, QueuesOK, PermitsConserved, NEW t \in Task, NEW s \in Semaphore,
           s \in held[t], Release(t, s)
    PROVE  PermitsConserved'
<1> SUFFICES ASSUME NEW u \in Semaphore
             PROVE  avail'[u] + Cardinality(Holders(u)') = Limit(u)
  BY DEF PermitsConserved, Limit
<1>1. CASE queue[s] = <<>>
  <2>0. /\ avail' = [avail EXCEPT ![s] = @ + 1]
        /\ held' = [held EXCEPT ![t] = @ \ {s}]
    BY <1>1 DEF Release
  <2>1. CASE u = s
    <3>1. Holders(s)' = Holders(s) \ {t} /\ t \in Holders(s)
      BY <2>0 DEF Holders, TypeOK
    <3>2. Cardinality(Holders(s)) \in Nat /\ Cardinality(Holders(s)') = Cardinality(Holders(s)) - 1
      <4>1. Holders(s) \in SUBSET Task
        BY DEF Holders
      <4> QED
        BY <3>1, <4>1, Counting
    <3>3. avail[s] \in Nat /\ avail[s] + Cardinality(Holders(s)) = Limit(s)
      BY DEF PermitsConserved, TypeOK
    <3>4. avail'[s] = avail[s] + 1
      BY <2>0 DEF TypeOK
    <3> QED
      BY <2>1, <3>2, <3>3, <3>4
  <2>2. CASE u # s
    <3>1. Holders(u)' = Holders(u)
      BY <2>0, <2>2 DEF Holders, TypeOK
    <3> QED
      BY <2>0, <2>2, <3>1 DEF PermitsConserved, TypeOK
  <2> QED
    BY <2>1, <2>2
<1>2. CASE queue[s] # <<>>
  <2> DEFINE h == Head(queue[s])
  <2>0. /\ h \in Task /\ s \notin held[h] /\ h # t
        /\ avail' = avail
        /\ held' = [held EXCEPT ![t] = @ \ {s}, ![h] = @ \cup {s}]
    <3>1. queue[s] \in Seq(Task) /\ 1 \in 1 .. Len(queue[s]) /\ h = queue[s][1]
      BY <1>2 DEF TypeOK
    <3> QED
      BY <1>2, <3>1 DEF QueuesOK, QueueOK, Parked, Release
  <2> HIDE DEF h
  <2>1. CASE u = s
    <3>1. Holders(s)' = (Holders(s) \ {t}) \cup {h} /\ t \in Holders(s) /\ h \notin Holders(s)
      BY <2>0 DEF Holders, TypeOK
    <3>2. Holders(s) \in SUBSET Task /\ Holders(s) \ {t} \in SUBSET Task
      BY DEF Holders
    <3>3. Cardinality(Holders(s)') = Cardinality(Holders(s))
      <4> DEFINE S == Holders(s)
                 T == S \ {t}
      <4>1. Cardinality(S) \in Nat /\ Cardinality(T) = Cardinality(S) - 1
        BY <3>1, <3>2, Counting
      <4>2. Cardinality(T \cup {h}) = Cardinality(T) + 1
        BY <3>1, <3>2, Counting
      <4> QED
        BY <3>1, <4>1, <4>2
    <3> QED
      BY <2>0, <2>1, <3>3 DEF PermitsConserved
  <2>2. CASE u # s
    <3>1. Holders(u)' = Holders(u)
      BY <2>0, <2>2 DEF Holders, TypeOK
    <3> QED
      BY <2>0, <3>1 DEF PermitsConserved
  <2> QED
    BY <2>1, <2>2
<1> QED
  BY <1>1, <1>2

(* Every step of the limiter conserves the permits.                         *)
LEMMA NextConserves == IInv /\ [Next]_vars => PermitsConserved'
<1> SUFFICES ASSUME IInv, [Next]_vars PROVE PermitsConserved'
  OBVIOUS
<1> USE LimiterAssumption DEF GiveUp
<1>1. ASSUME UNCHANGED <<avail, held>> PROVE PermitsConserved'
  BY <1>1 DEF IInv, PermitsConserved, Holders, Limit
<1>2. ASSUME NEW t \in Task, CreateSema(t) PROVE PermitsConserved'
  <2>1. PICK s \in Sema : Fresh(s) /\ avail' = [avail EXCEPT ![s] = PerKeyLimit]
    BY <1>2 DEF CreateSema
  <2>2. Holders(s) = {}
    BY <2>1 DEF Fresh, Holders, IInv, CallsOK, CallOK
  <2>3. avail[s] = PerKeyLimit
    <3>1. s \in Semaphore /\ Limit(s) = PerKeyLimit
      BY DEF Semaphore, Limit
    <3>2. avail[s] \in Nat /\ avail[s] + Cardinality(Holders(s)) = Limit(s)
      BY <3>1 DEF IInv, TypeOK, PermitsConserved
    <3> QED
      BY <2>2, <3>1, <3>2, FS_EmptySet
  <2>4. UNCHANGED <<avail, held>>
    BY <1>2, <2>1, <2>3 DEF CreateSema, IInv, TypeOK
  <2> QED
    BY <1>1, <2>4
<1>3. ASSUME NEW t \in Task, TakeKey(t) PROVE PermitsConserved'
  <2>1. semaOf[t] \in Semaphore /\ semaOf[t] \notin held[t]
    BY <1>3 DEF TakeKey, IInv, CallsOK, CallOK, Semaphore
  <2> QED
    BY <1>1, <1>3, <2>1, TakeConserves DEF TakeKey, Park, IInv
<1>4. ASSUME NEW t \in Task, TakeGlobal(t) PROVE PermitsConserved'
  <2>1. Global \in Semaphore /\ Global \notin held[t]
    <3>1. held[t] = KeySlot(t) /\ (PerKeyLimit # 0 => semaOf[t] \in Sema)
      BY <1>4 DEF TakeGlobal, IInv, CallsOK, CallOK
    <3> QED
      BY <3>1 DEF KeySlot, Semaphore
  <2> QED
    BY <1>1, <1>4, <2>1, TakeConserves DEF TakeGlobal, Park, IInv
<1>5. ASSUME NEW t \in Task, ReleaseOne(t) PROVE PermitsConserved'
  BY <1>5, ReleaseConserves DEF ReleaseOne, IInv, TypeOK
<1>6. ASSUME NEW t \in Task,
             \/ \E k \in Key : StartTry(t, k) \/ StartAcquire(t, k)
             \/ FindSema(t) \/ Granted(t) \/ CancelWait(t)
             \/ Finish(t) \/ LateCheck(t) \/ Grant(t) \/ Return(t)
             \/ TimeoutWait(t) \/ DropAcquire(t) \/ DropPermit(t)
      PROVE  PermitsConserved'
  BY <1>1, <1>6 DEF StartTry, StartAcquire, FindSema, Granted, CancelWait, Finish, LateCheck, Grant, Return,
                    TimeoutWait, DropAcquire, DropPermit, Unpark
<1>7. CASE (\E k \in ReapKey : Reap(k)) \/ Cancel \/ NotifyWaiters \/ UNCHANGED vars
  BY <1>1, <1>7 DEF Reap, Cancel, NotifyWaiters, vars
<1> QED
  BY <1>2, <1>3, <1>4, <1>5, <1>6, <1>7 DEF Next, Poll

-----------------------------------------------------------------------------
(* Calls and queues.                                                       *)

(* Where each call stands determines what it owns.                          *)
LEMMA NextCalls == IInv /\ [Next]_vars => CallsOK'
<1> SUFFICES ASSUME IInv, [Next]_vars, NEW u \in Task PROVE CallOK(u)'
  BY DEF CallsOK
<1> USE LimiterAssumption DEF Goto, GiveUp, Cancellable, LateCancel
\* A step that leaves a call alone.
<1>0. ASSUME pc'[u] = pc[u], held'[u] = held[u], semaOf'[u] = semaOf[u], keyOf'[u] = keyOf[u],
             u \in blocking' <=> u \in blocking
      PROVE  CallOK(u)'
  <2>1. CallOK(u)
    BY DEF IInv, CallsOK
  <2> QED
    BY <1>0, <2>1 DEF CallOK, KeySlot
<1> USE DEF IInv, TypeOK, CallsOK, CallOK, KeySlot, Semaphore, PC
<1>1. ASSUME NEW t \in Task, NEW k \in Key, StartTry(t, k) PROVE CallOK(u)'
  BY <1>1 DEF StartTry, FirstStep
<1>2. ASSUME NEW t \in Task, NEW k \in Key, StartAcquire(t, k) PROVE CallOK(u)'
  BY <1>2 DEF StartAcquire, FirstStep
<1>3. ASSUME NEW t \in Task, FindSema(t) PROVE CallOK(u)'
  BY <1>3 DEF FindSema
<1>4. ASSUME NEW t \in Task, CreateSema(t) PROVE CallOK(u)'
  <2>1. CASE u # t
    BY <1>0, <1>4, <2>1 DEF CreateSema
  <2>2. CASE u = t
    <3>1. PICK s \in Sema : semaOf' = [semaOf EXCEPT ![t] = s]
      BY <1>4 DEF CreateSema
    <3> QED
      BY <1>4, <2>2, <3>1 DEF CreateSema
  <2> QED
    BY <2>1, <2>2
<1>5. ASSUME NEW t \in Task, TakeKey(t) PROVE CallOK(u)'
  <2>1. CASE u # t
    BY <1>0, <1>5, <2>1 DEF TakeKey, Take, Park
  <2>2. CASE u = t
    <3>1. CASE Take(t, semaOf[t]) /\ Goto(t, "takeGlobal")
      BY <1>5, <2>2, <3>1 DEF TakeKey, Take
    <3>2. CASE t \in blocking /\ Park(t, semaOf[t]) /\ Goto(t, "waitKey")
      BY <1>5, <2>2, <3>2 DEF TakeKey, Park
    <3>3. CASE t \notin blocking /\ Goto(t, "reject") /\ UNCHANGED held
      BY <1>5, <2>2, <3>3 DEF TakeKey
    <3> QED
      BY <1>5, <3>1, <3>2, <3>3 DEF TakeKey
  <2> QED
    BY <2>1, <2>2
<1>6. ASSUME NEW t \in Task, TakeGlobal(t) PROVE CallOK(u)'
  <2>1. CASE u # t
    BY <1>0, <1>6, <2>1 DEF TakeGlobal, Take, Park
  <2>2. CASE u = t
    BY <1>6, <2>2 DEF TakeGlobal, Take, Park
  <2> QED
    BY <2>1, <2>2
<1>7. ASSUME NEW t \in Task, Granted(t) PROVE CallOK(u)'
  <2>1. CASE u # t
    BY <1>0, <1>7, <2>1 DEF Granted
  <2>2. CASE u = t
    <3>1. CASE pc[t] = "waitKey"
      BY <1>7, <2>2, <3>1 DEF Granted
    <3>2. CASE pc[t] = "waitGlobal"
      BY <1>7, <2>2, <3>2 DEF Granted
    <3> QED
      BY <1>7, <3>1, <3>2 DEF Granted
  <2> QED
    BY <2>1, <2>2
<1>8. ASSUME NEW t \in Task, CancelWait(t) PROVE CallOK(u)'
  BY <1>8 DEF CancelWait, Unpark
<1>9. ASSUME NEW t \in Task, TimeoutWait(t) PROVE CallOK(u)'
  BY <1>9 DEF TimeoutWait, Unpark
<1>10. ASSUME NEW t \in Task, DropAcquire(t) PROVE CallOK(u)'
  BY <1>10 DEF DropAcquire, Unpark
<1>11. ASSUME NEW t \in Task, Finish(t) \/ LateCheck(t) \/ Grant(t) PROVE CallOK(u)'
  <2>1. CASE u # t
    BY <1>0, <1>11, <2>1 DEF Finish, LateCheck, Grant
  <2>2. CASE u = t /\ Finish(t)
    BY <2>2 DEF Finish
  <2>3. CASE u = t /\ LateCheck(t)
    BY <2>3 DEF LateCheck
  <2>4. CASE u = t /\ Grant(t)
    BY <2>4 DEF Grant
  <2> QED
    BY <1>11, <2>1, <2>2, <2>3, <2>4
<1>12. ASSUME NEW t \in Task, DropPermit(t) PROVE CallOK(u)'
  BY <1>12 DEF DropPermit
<1>13. ASSUME NEW t \in Task, ReleaseOne(t) PROVE CallOK(u)'
  <2>1. PICK s \in held[t] : Release(t, s)
    BY <1>13 DEF ReleaseOne
  <2>2. CASE queue[s] = <<>>
    <3>1. CASE u # t
      BY <1>0, <1>13, <2>1, <2>2, <3>1 DEF ReleaseOne, Release
    <3>2. CASE u = t
      BY <1>13, <2>1, <2>2, <3>2 DEF ReleaseOne, Release
    <3> QED
      BY <3>1, <3>2
  <2>3. CASE queue[s] # <<>>
    <3>1. PICK h \in Parked(s) :
                               held' = [held EXCEPT ![t] = @ \ {s}, ![h] = @ \cup {s}]
      <4>1. queue[s] \in Seq(Task) /\ 1 \in 1 .. Len(queue[s]) /\ Head(queue[s]) = queue[s][1]
        BY <2>1, <2>3
      <4> QED
        BY <2>1, <2>3, <4>1 DEF Release, QueuesOK, QueueOK
    <3>2. CASE u = t
      BY <1>13, <2>1, <3>1, <3>2 DEF ReleaseOne, Parked
    <3>3. CASE u = h /\ u # t
      BY <1>13, <2>1, <3>1, <3>3 DEF ReleaseOne, Parked
    <3>4. CASE u # h /\ u # t
      BY <1>0, <1>13, <3>1, <3>4 DEF ReleaseOne
    <3> QED
      BY <3>2, <3>3, <3>4
  <2> QED
    BY <2>2, <2>3
<1>14. ASSUME NEW t \in Task, Return(t) PROVE CallOK(u)'
  BY <1>14 DEF Return
<1>15. ASSUME NEW k \in ReapKey, Reap(k) PROVE CallOK(u)'
  BY <1>15 DEF Reap
<1>16. CASE Cancel \/ NotifyWaiters \/ UNCHANGED vars
  BY <1>0, <1>16 DEF Cancel, NotifyWaiters, vars
<1> QED
  BY <1>1, <1>2, <1>3, <1>4, <1>5, <1>6, <1>7, <1>8, <1>9, <1>10, <1>11, <1>12,
     <1>13, <1>14, <1>15, <1>16 DEF Next, Poll

(* A task that is not parked and stays in its queues' semaphores' care is    *)
(* nobody's next: queues change only by parking, unparking and handing over. *)
LEMMA NextQueues == IInv /\ [Next]_vars => QueuesOK'
<1> SUFFICES ASSUME IInv, [Next]_vars, NEW r \in Semaphore PROVE QueueOK(r)'
  BY DEF QueuesOK
<1> USE LimiterAssumption DEF Goto, GiveUp, Cancellable, LateCancel
<1>0. /\ queue[r] \in Seq(Task)
      /\ \A i \in 1 .. Len(queue[r]) : queue[r][i] \in Task /\ queue[r][i] \in Parked(r)
      /\ \A i, j \in 1 .. Len(queue[r]) : i # j => queue[r][i] # queue[r][j]
  BY DEF IInv, TypeOK, QueuesOK, QueueOK
<1>1. ASSUME UNCHANGED queue,
             \A v \in Task : v \in Parked(r) => v \in Parked(r)'
      PROVE  QueueOK(r)'
  BY <1>0, <1>1 DEF QueueOK
\* Steps that move a task which is not parked and leave the queues alone.
<1>2. ASSUME NEW t \in Task, UNCHANGED queue, t \notin Parked(r),
             pc' = [pc EXCEPT ![t] = pc'[t]],
             semaOf' = [semaOf EXCEPT ![t] = semaOf'[t]],
             held' = [held EXCEPT ![t] = held'[t]]
      PROVE  QueueOK(r)'
  <2>1. ASSUME NEW v \in Task, v \in Parked(r) PROVE v \in Parked(r)'
    BY <1>2, <2>1 DEF Parked, IInv, TypeOK
  <2> QED
    BY <1>1, <1>2, <2>1
<1>3. ASSUME NEW t \in Task,
             \/ \E k \in Key : StartTry(t, k) \/ StartAcquire(t, k)
             \/ FindSema(t) \/ CreateSema(t) \/ Finish(t) \/ LateCheck(t) \/ Grant(t)
             \/ DropPermit(t) \/ Return(t) \/ Granted(t)
      PROVE  QueueOK(r)'
  <2>1. UNCHANGED <<queue, held>> /\ t \notin Parked(r)
    BY <1>3 DEF StartTry, StartAcquire, FindSema, CreateSema, Finish, LateCheck, Grant, DropPermit, Return,
                Granted, Parked
  <2>2. /\ pc' = [pc EXCEPT ![t] = pc'[t]]
        /\ semaOf' = [semaOf EXCEPT ![t] = semaOf'[t]]
    BY <1>3 DEF StartTry, StartAcquire, FindSema, CreateSema, Finish, LateCheck, Grant, DropPermit, Return,
                Granted, IInv, TypeOK
  <2> QED
    BY <1>2, <2>1, <2>2 DEF IInv, TypeOK
\* Parking: the task joins the end of one queue.
<1>4. ASSUME NEW t \in Task, NEW s \in Semaphore, Park(t, s), UNCHANGED semaOf,
             \A v \in Semaphore : t \notin Parked(v),
             s \notin held[t],
             \/ s = Global /\ Goto(t, "waitGlobal")
             \/ s # Global /\ semaOf[t] = s /\ Goto(t, "waitKey")
      PROVE  QueueOK(r)'
  <2>1. ASSUME NEW v \in Task, v \in Parked(r) PROVE v \in Parked(r)' /\ v # t
    BY <1>4, <2>1 DEF Parked, Park, IInv, TypeOK
  <2>2. CASE r # s
    <3>1. queue'[r] = queue[r]
      BY <1>4, <2>2 DEF Park, IInv, TypeOK
    <3> QED
      BY <1>0, <2>1, <3>1 DEF QueueOK
  <2>3. CASE r = s
    <3>1. queue'[r] = Append(queue[r], t)
      BY <1>4, <2>3 DEF Park, IInv, TypeOK
    <3>2. t \in Parked(r)'
      BY <1>4, <2>3 DEF Parked, Park, IInv, TypeOK
    <3>3. /\ Len(queue'[r]) = Len(queue[r]) + 1
          /\ queue'[r][Len(queue[r]) + 1] = t
          /\ \A i \in 1 .. Len(queue[r]) : queue'[r][i] = queue[r][i]
      BY <1>0, <3>1
    <3>4. \A i \in 1 .. Len(queue'[r]) : i \in 1 .. Len(queue[r]) \/ i = Len(queue[r]) + 1
      BY <1>0, <3>3
    <3>5. \A i \in 1 .. Len(queue[r]) : queue[r][i] # t /\ queue[r][i] \in Parked(r)'
      BY <1>0, <2>1
    <3>6. \A i \in 1 .. Len(queue'[r]) : queue'[r][i] \in Parked(r)'
      BY <3>2, <3>3, <3>4, <3>5
    <3>7. \A i, j \in 1 .. Len(queue'[r]) : i # j => queue'[r][i] # queue'[r][j]
      BY <1>0, <3>3, <3>4, <3>5
    <3> QED
      BY <3>6, <3>7 DEF QueueOK
  <2> QED
    BY <2>2, <2>3
<1>5. ASSUME NEW t \in Task, TakeKey(t) PROVE QueueOK(r)'
  <2>1. \A v \in Semaphore : t \notin Parked(v)
    BY <1>5 DEF TakeKey, Parked
  <2>2. semaOf[t] \in Semaphore /\ semaOf[t] # Global /\ semaOf[t] \notin held[t]
    BY <1>5 DEF TakeKey, IInv, CallsOK, CallOK, Semaphore
  <2>3. CASE t \in blocking /\ Park(t, semaOf[t]) /\ Goto(t, "waitKey")
    BY <1>4, <1>5, <2>1, <2>2, <2>3 DEF TakeKey
  <2>4. CASE ~(t \in blocking /\ Park(t, semaOf[t]) /\ Goto(t, "waitKey"))
    <3>1. /\ UNCHANGED <<queue, semaOf>>
          /\ pc' = [pc EXCEPT ![t] = pc'[t]]
          /\ held' = [held EXCEPT ![t] = held'[t]]
      BY <1>5, <2>4 DEF TakeKey, Take, IInv, TypeOK
    <3> QED
      BY <1>2, <2>1, <3>1 DEF IInv, TypeOK
  <2> QED
    BY <2>3, <2>4
<1>6. ASSUME NEW t \in Task, TakeGlobal(t) PROVE QueueOK(r)'
  <2>1. \A v \in Semaphore : t \notin Parked(v)
    BY <1>6 DEF TakeGlobal, Parked
  <2>2. Global \in Semaphore /\ Global \notin held[t]
    <3>1. held[t] = KeySlot(t) /\ (PerKeyLimit # 0 => semaOf[t] \in Sema)
      BY <1>6 DEF TakeGlobal, IInv, CallsOK, CallOK
    <3> QED
      BY <3>1 DEF KeySlot, Semaphore
  <2>3. CASE t \in blocking /\ Park(t, Global) /\ Goto(t, "waitGlobal")
    BY <1>4, <1>6, <2>1, <2>2, <2>3 DEF TakeGlobal
  <2>4. CASE ~(t \in blocking /\ Park(t, Global) /\ Goto(t, "waitGlobal"))
    <3>1. /\ UNCHANGED <<queue, semaOf>>
          /\ pc' = [pc EXCEPT ![t] = pc'[t]]
          /\ held' = [held EXCEPT ![t] = held'[t]]
      BY <1>6, <2>4 DEF TakeGlobal, Take, IInv, TypeOK
    <3> QED
      BY <1>2, <2>1, <3>1 DEF IInv, TypeOK
  <2> QED
    BY <2>3, <2>4
\* Unparking: the task leaves its queue.
<1>7. ASSUME NEW t \in Task, CancelWait(t) \/ TimeoutWait(t) \/ DropAcquire(t)
      PROVE  QueueOK(r)'
  <2>1. /\ queue'[r] = Without(queue[r], t)
        /\ UNCHANGED <<held, semaOf>>
        /\ \A v \in Task \ {t} : pc'[v] = pc[v]
    BY <1>7 DEF CancelWait, TimeoutWait, DropAcquire, Unpark, IInv, TypeOK
  <2>2. ASSUME NEW v \in Task \ {t}, v \in Parked(r) PROVE v \in Parked(r)'
    BY <2>1, <2>2 DEF Parked
  <2>3. /\ \A i \in 1 .. Len(queue'[r]) :
              queue'[r][i] # t /\ \E j \in 1 .. Len(queue[r]) : queue'[r][i] = queue[r][j]
        /\ \A i, j \in 1 .. Len(queue'[r]) : i # j => queue'[r][i] # queue'[r][j]
    <3> DEFINE q == queue[r]
    <3>1. q \in Seq(Task) /\ \A i, j \in 1 .. Len(q) : i # j => q[i] # q[j]
      BY <1>0
    <3>2. queue'[r] = Without(q, t)
      BY <2>1
    <3> HIDE DEF q
    <3>3. /\ \A i \in 1 .. Len(Without(q, t)) :
                Without(q, t)[i] # t /\ \E j \in 1 .. Len(q) : Without(q, t)[i] = q[j]
          /\ \A i, j \in 1 .. Len(Without(q, t)) : i # j => Without(q, t)[i] # Without(q, t)[j]
      BY <3>1, WithoutProps
    <3> QED
      BY <3>2, <3>3 DEF q
  <2>4. \A i \in 1 .. Len(queue'[r]) : queue'[r][i] \in Parked(r)'
    <3> SUFFICES ASSUME NEW i \in 1 .. Len(queue'[r]) PROVE queue'[r][i] \in Parked(r)'
      OBVIOUS
    <3>1. PICK j \in 1 .. Len(queue[r]) : queue'[r][i] = queue[r][j]
      BY <2>3
    <3>2. queue[r][j] \in Task \ {t} /\ queue[r][j] \in Parked(r)
      BY <1>0, <2>3, <3>1
    <3>3. queue[r][j] \in Parked(r)'
      BY <2>1, <3>2 DEF Parked
    <3> QED
      BY <3>1, <3>3 DEF Parked
  <2> QED
    BY <2>3, <2>4 DEF QueueOK
\* Handing over: the head of the queue gets the permit and leaves.
<1>8. ASSUME NEW t \in Task, ReleaseOne(t) PROVE QueueOK(r)'
  <2>1. PICK s \in held[t] : Release(t, s)
    BY <1>8 DEF ReleaseOne
  <2>2. s \in Semaphore /\ UNCHANGED <<pc, semaOf>> /\ t \notin Parked(r)
    BY <1>8 DEF ReleaseOne, Parked, IInv, TypeOK
  <2>3. CASE queue[s] = <<>>
    BY <1>2, <2>1, <2>2, <2>3 DEF Release, IInv, TypeOK
  <2>4. CASE queue[s] # <<>>
    <3> DEFINE h == Head(queue[s])
    <3>1. /\ queue[s] \in Seq(Task) /\ h \in Task
          /\ held' = [held EXCEPT ![t] = @ \ {s}, ![h] = @ \cup {s}]
          /\ queue' = [queue EXCEPT ![s] = Tail(@)]
      BY <2>1, <2>2, <2>4 DEF Release, IInv, TypeOK
    <3> HIDE DEF h
    <3>2. CASE r # s
      <4>1. ASSUME NEW v \in Task, v \in Parked(r) PROVE v \in Parked(r)'
        BY <2>2, <3>1, <3>2, <4>1 DEF Parked, IInv, TypeOK
      <4>2. queue'[r] = queue[r]
        BY <3>1, <3>2 DEF IInv, TypeOK
      <4> QED
        BY <1>0, <4>1, <4>2 DEF QueueOK
    <3>3. CASE r = s
      <4>1. ASSUME NEW v \in Task \ {h}, v \in Parked(r) PROVE v \in Parked(r)'
        BY <2>2, <3>1, <4>1 DEF Parked, IInv, TypeOK
      <4>2. queue'[r] = Tail(queue[r]) /\ queue[r] # <<>> /\ h = queue[r][1]
        BY <2>2, <2>4, <3>1, <3>3 DEF IInv, TypeOK, h
      <4>3. /\ Len(queue'[r]) = Len(queue[r]) - 1
            /\ \A i \in 1 .. Len(queue[r]) - 1 : queue'[r][i] = queue[r][i + 1]
            /\ 1 \in 1 .. Len(queue[r])
        BY <1>0, <4>2
      <4>4. \A i \in 1 .. Len(queue[r]) - 1 : i + 1 \in 1 .. Len(queue[r]) /\ i + 1 # 1
        BY <1>0
      <4>5. \A i \in 1 .. Len(queue'[r]) : queue'[r][i] \in Task \ {h} /\ queue'[r][i] \in Parked(r)
        BY <1>0, <4>2, <4>3, <4>4
      <4>6. \A i, j \in 1 .. Len(queue'[r]) : i # j => queue'[r][i] # queue'[r][j]
        <5> SUFFICES ASSUME NEW i \in 1 .. Len(queue'[r]), NEW j \in 1 .. Len(queue'[r]), i # j
                     PROVE  queue'[r][i] # queue'[r][j]
          OBVIOUS
        <5>1. i + 1 # j + 1 /\ i + 1 \in 1 .. Len(queue[r]) /\ j + 1 \in 1 .. Len(queue[r])
          BY <4>3, <4>4
        <5> QED
          BY <1>0, <4>3, <5>1
      <4> QED
        BY <4>1, <4>5, <4>6 DEF QueueOK
    <3> QED
      BY <3>2, <3>3
  <2> QED
    BY <2>3, <2>4
<1>9. CASE (\E k \in ReapKey : Reap(k)) \/ Cancel \/ NotifyWaiters \/ UNCHANGED vars
  BY <1>1, <1>9 DEF Reap, Cancel, NotifyWaiters, vars, Parked
<1> QED
  BY <1>3, <1>5, <1>6, <1>7, <1>8, <1>9 DEF Next, Poll

-----------------------------------------------------------------------------
(* Counters.                                                               *)

Out == {t \in Task : pc[t] = "holding"}

(* How a call that moves on changes the number of permits out and of calls  *)
(* inside acquire.                                                          *)
LEMMA MoveCounts ==
    ASSUME TypeOK, NEW t \in Task, NEW l \in PC, pc' = [pc EXCEPT ![t] = l],
           blocking' \in SUBSET Task, blocking' \ {t} = blocking \ {t}
    PROVE  /\ Cardinality(Out) \in Nat /\ Cardinality(InAcquire) \in Nat
           /\ Cardinality(Out)' \in Nat /\ Cardinality(InAcquire)' \in Nat
           /\ Cardinality(Out)' = IF l = "holding"
                                 THEN IF t \in Out THEN Cardinality(Out) ELSE Cardinality(Out) + 1
                                 ELSE IF t \in Out THEN Cardinality(Out) - 1 ELSE Cardinality(Out)
           /\ Cardinality(InAcquire)' =
                  IF t \in InAcquire'
                  THEN IF t \in InAcquire THEN Cardinality(InAcquire) ELSE Cardinality(InAcquire) + 1
                  ELSE IF t \in InAcquire THEN Cardinality(InAcquire) - 1 ELSE Cardinality(InAcquire)
<1>1. Out \in SUBSET Task /\ InAcquire \in SUBSET Task
  BY DEF Out, InAcquire, TypeOK
<1>2. Out' = IF l = "holding" THEN Out \cup {t} ELSE Out \ {t}
  BY DEF Out, TypeOK
<1>3. InAcquire' = IF t \in InAcquire' THEN InAcquire \cup {t} ELSE InAcquire \ {t}
  BY DEF InAcquire, TypeOK
<1>4. /\ Cardinality(Out) \in Nat
      /\ Cardinality(Out \cup {t}) = IF t \in Out THEN Cardinality(Out) ELSE Cardinality(Out) + 1
      /\ Cardinality(Out \ {t}) = IF t \in Out THEN Cardinality(Out) - 1 ELSE Cardinality(Out)
  BY <1>1, Counting
<1>5. /\ Cardinality(InAcquire) \in Nat
      /\ Cardinality(InAcquire \cup {t}) =
            IF t \in InAcquire THEN Cardinality(InAcquire) ELSE Cardinality(InAcquire) + 1
      /\ Cardinality(InAcquire \ {t}) =
            IF t \in InAcquire THEN Cardinality(InAcquire) - 1 ELSE Cardinality(InAcquire)
  BY <1>1, Counting
<1>6. Cardinality(Out)' = Cardinality(Out') /\ Cardinality(InAcquire)' = Cardinality(InAcquire')
  OBVIOUS
<1>7. Cardinality(Out') \in Nat /\ Cardinality(InAcquire') \in Nat
  BY <1>1, <1>2, <1>3, Counting
<1> QED
  BY <1>2, <1>3, <1>4, <1>5, <1>6, <1>7

(* The counters follow the calls through every step.                        *)
LEMMA NextMetrics == IInv /\ [Next]_vars => MetricsBalance' /\ metrics' \in [Metric -> Nat]
<1> SUFFICES ASSUME IInv, [Next]_vars PROVE MetricsBalance' /\ metrics' \in [Metric -> Nat]
  OBVIOUS
<1> USE LimiterAssumption DEF Goto, GiveUp, Cancellable, LateCancel
<1> DEFINE out == Cardinality(Out)
           in == Cardinality(InAcquire)
<1>0. /\ metrics \in [Metric -> Nat] /\ drops \in Nat
      /\ metrics.acquired - metrics.released = out
      /\ metrics.waiting = in + drops
      /\ out \in Nat /\ in \in Nat
  <2>1. Out \in SUBSET Task /\ InAcquire \in SUBSET Task
    BY DEF Out, InAcquire, IInv, TypeOK
  <2>2. out \in Nat /\ in \in Nat
    BY <2>1, Counting
  <2> QED
    BY <2>2 DEF IInv, TypeOK, MetricsBalance, Out
<1>00. ASSUME metrics' \in [Metric -> Nat],
              metrics'.acquired - metrics'.released = out',
              metrics'.waiting = in' + drops'
       PROVE  MetricsBalance' /\ metrics' \in [Metric -> Nat]
  BY <1>00 DEF MetricsBalance, Out
<1> HIDE DEF out, in
\* A call that stays on its side of both counts.
<1>1. ASSUME NEW t \in Task, NEW l \in PC, pc' = [pc EXCEPT ![t] = l],
             blocking' \in SUBSET Task, blocking' \ {t} = blocking \ {t},
             t \in Out <=> l = "holding", t \in InAcquire <=> t \in InAcquire',
             UNCHANGED <<metrics, drops>>
      PROVE  MetricsBalance' /\ metrics' \in [Metric -> Nat]
  <2>1. out' = out /\ in' = in
    BY <1>1, MoveCounts DEF out, in, IInv
  <2> QED
    BY <1>0, <1>00, <1>1, <2>1
<1>2. ASSUME NEW t \in Task, NEW k \in Key, StartTry(t, k)
      PROVE  MetricsBalance' /\ metrics' \in [Metric -> Nat]
  BY <1>1, <1>2 DEF StartTry, FirstStep, PC, Out, InAcquire, IInv, TypeOK, CallsOK, CallOK
<1>3. ASSUME NEW t \in Task, NEW k \in Key, StartAcquire(t, k)
      PROVE  MetricsBalance' /\ metrics' \in [Metric -> Nat]
  <2>1. PICK l \in {"finish", "takeGlobal", "lookup"} : pc' = [pc EXCEPT ![t] = l]
    BY <1>3 DEF StartAcquire, FirstStep
  <2>2. /\ t \notin Out /\ t \notin InAcquire /\ t \in InAcquire'
        /\ blocking' = blocking \cup {t} /\ blocking' \in SUBSET Task
    BY <1>3, <2>1 DEF StartAcquire, Out, InAcquire, IInv, TypeOK, CallsOK, CallOK
  <2>3. out' = out /\ in' = in + 1
    <3>1. blocking' \ {t} = blocking \ {t}
      BY <2>2
    <3> QED
      BY <2>1, <2>2, <3>1, MoveCounts DEF out, in, IInv, PC
  <2>4. metrics' = [metrics EXCEPT !.waiting = @ + 1] /\ drops' = drops
    BY <1>3 DEF StartAcquire, EnterWait, Bump
  <2> QED
    BY <1>0, <1>00, <2>3, <2>4 DEF Metric
<1>4. ASSUME NEW t \in Task, FindSema(t) \/ CreateSema(t) \/ TakeKey(t)
      PROVE  MetricsBalance' /\ metrics' \in [Metric -> Nat]
  <2>1. PICK l \in {"takeKey", "takeGlobal", "waitKey", "reject"} :
          pc' = [pc EXCEPT ![t] = l] /\ (l = "reject" => t \notin blocking)
    BY <1>4 DEF FindSema, CreateSema, TakeKey
  <2>2. pc[t] \in {"lookup", "takeKey"} /\ UNCHANGED <<blocking, metrics, drops>>
    BY <1>4 DEF FindSema, CreateSema, TakeKey
  <2> QED
    BY <1>1, <2>1, <2>2 DEF PC, Out, InAcquire, IInv, TypeOK
<1>5. ASSUME NEW t \in Task, TakeGlobal(t)
      PROVE  MetricsBalance' /\ metrics' \in [Metric -> Nat]
  <2>1. PICK l \in {"finish", "grant", "waitGlobal", "reject"} :
          pc' = [pc EXCEPT ![t] = l] /\ (l \in {"reject", "grant"} <=> t \notin blocking)
    BY <1>5 DEF TakeGlobal
  <2>2. pc[t] = "takeGlobal" /\ UNCHANGED <<blocking, metrics, drops>>
    BY <1>5 DEF TakeGlobal
  <2> QED
    BY <1>1, <2>1, <2>2 DEF PC, Out, InAcquire, IInv, TypeOK
<1>6. ASSUME NEW t \in Task, Granted(t) \/ CancelWait(t) \/ TimeoutWait(t)
      PROVE  MetricsBalance' /\ metrics' \in [Metric -> Nat]
  <2>1. PICK l \in {"takeGlobal", "finish", "fail"} : pc' = [pc EXCEPT ![t] = l]
    BY <1>6 DEF Granted, CancelWait, TimeoutWait
  <2>2. pc[t] \in {"waitKey", "waitGlobal"} /\ UNCHANGED <<blocking, metrics, drops>>
    BY <1>6 DEF Granted, CancelWait, TimeoutWait
  <2> QED
    BY <1>1, <2>1, <2>2 DEF PC, Out, InAcquire, IInv, TypeOK
<1>7. ASSUME NEW t \in Task, DropAcquire(t)
      PROVE  MetricsBalance' /\ metrics' \in [Metric -> Nat]
  <2>1. /\ t \notin Out /\ t \in InAcquire /\ t \notin InAcquire'
        /\ pc' = [pc EXCEPT ![t] = "unwind"] /\ UNCHANGED <<blocking, metrics>> /\ drops' = drops + 1
    BY <1>7 DEF DropAcquire, Out, InAcquire, IInv, TypeOK, CallsOK, CallOK
  <2>2. out' = out /\ in' = in - 1 /\ in \in Nat
    BY <2>1, MoveCounts DEF out, in, IInv, PC, TypeOK
  <2> QED
    BY <1>0, <1>00, <2>1, <2>2
<1>8. ASSUME NEW t \in Task, Finish(t)
      PROVE  MetricsBalance' /\ metrics' \in [Metric -> Nat]
  <2>1. /\ t \notin Out /\ t \in InAcquire /\ t \notin InAcquire' /\ UNCHANGED <<blocking, drops>>
        /\ pc' = [pc EXCEPT ![t] = "check"] /\ metrics' = [metrics EXCEPT !.waiting = @ - 1]
    BY <1>8 DEF Finish, Bump, Out, InAcquire, IInv, TypeOK, CallsOK, CallOK
  <2>2. out' = out /\ in' = in - 1 /\ in' \in Nat
    BY <2>1, MoveCounts DEF out, in, IInv, PC, TypeOK
  <2>3. metrics.waiting - 1 \in Nat
    BY <1>0, <2>2
  <2>4. metrics' \in [Metric -> Nat]
    BY <1>0, <2>1, <2>3 DEF Metric
  <2> QED
    BY <1>0, <1>00, <2>1, <2>2, <2>4 DEF Metric
<1>8a. ASSUME NEW t \in Task, LateCheck(t)
      PROVE  MetricsBalance' /\ metrics' \in [Metric -> Nat]
  <2>1. PICK l \in {"unwind", "grant"} : pc' = [pc EXCEPT ![t] = l]
    BY <1>8a DEF LateCheck
  <2>2. t \notin Out /\ t \notin InAcquire /\ t \notin InAcquire' /\ UNCHANGED <<blocking, drops>>
    BY <1>8a, <2>1 DEF LateCheck, Out, InAcquire, IInv, TypeOK
  <2>3. out' = out /\ in' = in
    BY <2>1, <2>2, MoveCounts DEF out, in, IInv, PC, TypeOK
  <2>4. UNCHANGED metrics \/ metrics' = [metrics EXCEPT !.cancelled = @ + 1]
    BY <1>8a DEF LateCheck, Bump
  <2> QED
    BY <1>0, <1>00, <2>2, <2>3, <2>4 DEF Metric
<1>8b. ASSUME NEW t \in Task, Grant(t)
      PROVE  MetricsBalance' /\ metrics' \in [Metric -> Nat]
  <2>1. /\ t \notin Out /\ t \notin InAcquire /\ t \notin InAcquire' /\ UNCHANGED <<blocking, drops>>
        /\ pc' = [pc EXCEPT ![t] = "holding"] /\ metrics' = [metrics EXCEPT !.acquired = @ + 1]
    BY <1>8b DEF Grant, Bump, Out, InAcquire, IInv, TypeOK
  <2>2. out' = out + 1 /\ in' = in
    BY <2>1, MoveCounts DEF out, in, IInv, PC, TypeOK
  <2> QED
    BY <1>0, <1>00, <2>1, <2>2 DEF Metric
<1>9. ASSUME NEW t \in Task, DropPermit(t)
      PROVE  MetricsBalance' /\ metrics' \in [Metric -> Nat]
  <2>1. /\ t \in Out /\ t \notin InAcquire /\ t \notin InAcquire' /\ UNCHANGED <<blocking, drops>>
        /\ pc' = [pc EXCEPT ![t] = "unwind"] /\ metrics' = [metrics EXCEPT !.released = @ + 1]
    BY <1>9 DEF DropPermit, Bump, Out, InAcquire, IInv, TypeOK
  <2>2. out' = out - 1 /\ in' = in
    BY <2>1, MoveCounts DEF out, in, IInv, PC, TypeOK
  <2> QED
    BY <1>0, <1>00, <2>1, <2>2 DEF Metric
<1>10. ASSUME NEW t \in Task, Return(t)
       PROVE  MetricsBalance' /\ metrics' \in [Metric -> Nat]
  <2>1. PICK l \in {"finish", "idle"} :
          /\ pc' = [pc EXCEPT ![t] = l]
          /\ pc[t] \in {"fail", "reject", "unwind"}
          /\ l = "finish" <=> pc[t] = "fail"
          /\ blocking' \in SUBSET Task /\ blocking' \ {t} = blocking \ {t}
          /\ pc[t] = "fail" => t \in blocking /\ t \in blocking'
          /\ UNCHANGED drops
    BY <1>10 DEF Return, IInv, TypeOK, CallsOK, CallOK
  <2>2. t \notin Out /\ (t \in InAcquire <=> t \in InAcquire')
    BY <2>1 DEF Out, InAcquire, IInv, TypeOK
  <2>3. out' = out /\ in' = in
    BY <2>1, <2>2, MoveCounts DEF out, in, IInv, PC
  <2>4. UNCHANGED metrics \/ metrics' = [metrics EXCEPT !.try_rejected = @ + 1]
    BY <1>10 DEF Return, Bump
  <2> QED
    BY <1>0, <1>00, <2>1, <2>3, <2>4 DEF Metric
<1>11. ASSUME UNCHANGED <<pc, blocking, metrics, drops>>
       PROVE  MetricsBalance' /\ metrics' \in [Metric -> Nat]
  <2>1. out' = out /\ in' = in
    BY <1>11 DEF out, in, Out, InAcquire
  <2> QED
    BY <1>0, <1>00, <1>11, <2>1
<1>12. ASSUME NEW t \in Task, ReleaseOne(t)
       PROVE  MetricsBalance' /\ metrics' \in [Metric -> Nat]
  BY <1>11, <1>12 DEF ReleaseOne
<1>13. CASE (\E k \in ReapKey : Reap(k)) \/ Cancel \/ NotifyWaiters \/ UNCHANGED vars
  BY <1>11, <1>13 DEF Reap, Cancel, NotifyWaiters, vars
<1> QED
  BY <1>2, <1>3, <1>4, <1>5, <1>6, <1>7, <1>8, <1>8a, <1>8b, <1>9, <1>10, <1>12, <1>13
     DEF Next, Poll

-----------------------------------------------------------------------------

(* The semaphore operations keep the types of permits and queues.           *)
LEMMA SemaphoreTypes ==
    ASSUME TypeOK, NEW t \in Task, NEW s \in Semaphore,
           Take(t, s) \/ Park(t, s) \/ Release(t, s)
    PROVE  /\ avail' \in [Semaphore -> Nat]
           /\ held' \in [Task -> SUBSET Semaphore]
           /\ queue' \in [Semaphore -> Seq(Task)]
<1>0. /\ avail \in [Semaphore -> Nat]
      /\ held \in [Task -> SUBSET Semaphore]
      /\ queue \in [Semaphore -> Seq(Task)]
  BY DEF TypeOK
<1>1. CASE Take(t, s)
  BY <1>0, <1>1 DEF Take
<1>2. CASE Park(t, s)
  <2>1. Append(queue[s], t) \in Seq(Task)
    BY <1>0
  <2> QED
    BY <1>0, <1>2, <2>1 DEF Park
<1>3. CASE Release(t, s) /\ queue[s] = <<>>
  <2>1. /\ avail' = [avail EXCEPT ![s] = @ + 1]
        /\ held' = [held EXCEPT ![t] = @ \ {s}]
        /\ queue' = queue
    BY <1>3 DEF Release
  <2>2. avail' \in [Semaphore -> Nat]
    BY <1>0, <2>1
  <2>3. held' \in [Task -> SUBSET Semaphore]
    BY <1>0, <2>1
  <2> QED
    BY <1>0, <2>1, <2>2, <2>3
<1>4. CASE Release(t, s) /\ queue[s] # <<>>
  <2> DEFINE h == Head(queue[s])
             q == Tail(queue[s])
             g == [held EXCEPT ![t] = @ \ {s}]
  <2>1. h \in Task /\ q \in Seq(Task)
    BY <1>0, <1>4
  <2>2. /\ held' = [g EXCEPT ![h] = @ \cup {s}]
        /\ queue' = [queue EXCEPT ![s] = q]
        /\ avail' = avail
    BY <1>0, <1>4 DEF Release
  <2>3. g \in [Task -> SUBSET Semaphore]
    BY <1>0
  <2> HIDE DEF h, q, g
  <2> QED
    BY <1>0, <2>1, <2>2, <2>3
<1> QED
  BY <1>1, <1>2, <1>3, <1>4

(* Types are preserved.                                                     *)
LEMMA NextType == IInv /\ [Next]_vars => TypeOK'
<1> SUFFICES ASSUME IInv, [Next]_vars PROVE TypeOK'
  OBVIOUS
<1> USE LimiterAssumption DEF Goto, GiveUp, Cancellable, LateCancel, Semaphore
<1>0. metrics' \in [Metric -> Nat]
  BY NextMetrics
<1>1. ASSUME NEW t \in Task, NEW k \in Key, StartTry(t, k) \/ StartAcquire(t, k) PROVE TypeOK'
  <2>1. /\ pc' \in [Task -> PC]
        /\ blocking' \in SUBSET Task
        /\ keyOf' \in [Task -> Key \cup {NoKey}]
        /\ calls' \in 0 .. MaxCalls
        /\ doomed' \in SUBSET Task
    <3>1. PICK l \in {"lookup", "takeGlobal", "finish"} : pc' = [pc EXCEPT ![t] = l]
      BY <1>1 DEF StartTry, StartAcquire, FirstStep
    <3>2. pc' \in [Task -> PC]
      BY <3>1 DEF IInv, TypeOK, PC
    <3>3. keyOf' \in [Task -> Key \cup {NoKey}] /\ blocking' \in SUBSET Task
      BY <1>1 DEF StartTry, StartAcquire, IInv, TypeOK
    <3>4. calls' \in 0 .. MaxCalls /\ doomed' \in SUBSET Task
      BY <1>1 DEF StartTry, StartAcquire, IInv, TypeOK
    <3> QED
      BY <3>2, <3>3, <3>4
  <2>2. UNCHANGED <<keys, avail, queue, held, semaOf, fired, notified, drops>>
    BY <1>1 DEF StartTry, StartAcquire
  <2> QED
    BY <1>0, <2>1, <2>2 DEF IInv, TypeOK
<1>2. ASSUME NEW t \in Task, FindSema(t) PROVE TypeOK'
  BY <1>2 DEF FindSema, IInv, TypeOK, PC, CallsOK, CallOK
<1>3. ASSUME NEW t \in Task, CreateSema(t) PROVE TypeOK'
  BY <1>3 DEF CreateSema, IInv, TypeOK, PC, CallsOK, CallOK
<1>4. ASSUME NEW t \in Task, TakeKey(t) PROVE TypeOK'
  <2>1. pc' \in [Task -> PC] /\ semaOf[t] \in Semaphore
    BY <1>4 DEF TakeKey, IInv, TypeOK, PC, CallsOK, CallOK
  <2>2. /\ avail' \in [Semaphore -> Nat]
        /\ held' \in [Task -> SUBSET Semaphore]
        /\ queue' \in [Semaphore -> Seq(Task)]
    <3>1. CASE Take(t, semaOf[t]) \/ Park(t, semaOf[t])
      BY <2>1, <3>1, SemaphoreTypes DEF IInv
    <3>2. CASE UNCHANGED <<avail, queue, held>>
      BY <3>2 DEF IInv, TypeOK
    <3> QED
      BY <1>4, <3>1, <3>2 DEF TakeKey
  <2>4. UNCHANGED <<keys, blocking, keyOf, semaOf, token, metrics, calls, drops>>
    BY <1>4 DEF TakeKey
  <2> QED
    BY <2>1, <2>2, <2>4 DEF IInv, TypeOK
<1>5. ASSUME NEW t \in Task, TakeGlobal(t) PROVE TypeOK'
  <2>1. pc' \in [Task -> PC]
    BY <1>5 DEF TakeGlobal, IInv, TypeOK, PC
  <2>2. /\ avail' \in [Semaphore -> Nat]
        /\ held' \in [Task -> SUBSET Semaphore]
        /\ queue' \in [Semaphore -> Seq(Task)]
    <3>1. CASE Take(t, Global) \/ Park(t, Global)
      BY <2>1, <3>1, SemaphoreTypes DEF IInv
    <3>2. CASE UNCHANGED <<avail, queue, held>>
      BY <3>2 DEF IInv, TypeOK
    <3> QED
      BY <1>5, <3>1, <3>2 DEF TakeGlobal
  <2>4. UNCHANGED <<keys, blocking, keyOf, semaOf, token, calls, drops>>
    BY <1>5 DEF TakeGlobal
  <2> QED
    BY <1>0, <2>1, <2>2, <2>4 DEF IInv, TypeOK
<1>6. ASSUME NEW t \in Task, Granted(t) PROVE TypeOK'
  BY <1>6 DEF Granted, IInv, TypeOK, PC
<1>7. ASSUME NEW t \in Task, CancelWait(t) \/ TimeoutWait(t) \/ DropAcquire(t) PROVE TypeOK'
  <2>1. queue' \in [Semaphore -> Seq(Task)]
    <3> SUFFICES ASSUME NEW s \in Semaphore PROVE Without(queue[s], t) \in Seq(Task)
      BY <1>7 DEF CancelWait, TimeoutWait, DropAcquire, Unpark
    <3> DEFINE q == queue[s]
    <3>1. q \in Seq(Task) /\ \A i, j \in 1 .. Len(q) : i # j => q[i] # q[j]
      BY DEF IInv, TypeOK, QueuesOK, QueueOK
    <3> HIDE DEF q
    <3>2. Without(q, t) \in Seq(Task)
      BY <3>1, WithoutProps
    <3> QED
      BY <3>2 DEF q
  <2>2. pc' \in [Task -> PC] /\ drops' \in 0 .. MaxDrops
    <3>1. PICK l \in {"fail", "unwind"} : pc' = [pc EXCEPT ![t] = l]
      BY <1>7 DEF CancelWait, TimeoutWait, DropAcquire
    <3>2. pc' \in [Task -> PC]
      BY <3>1 DEF IInv, TypeOK, PC
    <3>3. drops' \in 0 .. MaxDrops
      BY <1>7 DEF CancelWait, TimeoutWait, DropAcquire, IInv, TypeOK
    <3> QED
      BY <3>2, <3>3
  <2>3. UNCHANGED <<keys, avail, held, blocking, keyOf, semaOf, token, metrics, calls>>
    BY <1>7 DEF CancelWait, TimeoutWait, DropAcquire, Unpark
  <2> QED
    BY <2>1, <2>2, <2>3 DEF IInv, TypeOK
<1>8. ASSUME NEW t \in Task,
             Finish(t) \/ LateCheck(t) \/ Grant(t) \/ DropPermit(t) \/ Return(t)
      PROVE  TypeOK'
  BY <1>0, <1>8 DEF Finish, LateCheck, Grant, DropPermit, Return, IInv, TypeOK, PC
<1>9. ASSUME NEW t \in Task, ReleaseOne(t) PROVE TypeOK'
  <2>1. PICK s \in Semaphore : Release(t, s)
    BY <1>9 DEF ReleaseOne, IInv, TypeOK
  <2>2. UNCHANGED <<keys, pc, blocking, keyOf, semaOf, token, metrics, calls, drops>>
    BY <1>9 DEF ReleaseOne
  <2> QED
    BY <2>1, <2>2, SemaphoreTypes DEF IInv, TypeOK
<1>10. ASSUME NEW k \in ReapKey, Reap(k) PROVE TypeOK'
  BY <1>10 DEF Reap, IInv, TypeOK
<1>11. CASE Cancel \/ NotifyWaiters \/ UNCHANGED vars
  BY <1>11 DEF Cancel, NotifyWaiters, InAcquire, vars, IInv, TypeOK
<1> QED
  BY <1>1, <1>2, <1>3, <1>4, <1>5, <1>6, <1>7, <1>8, <1>9, <1>10, <1>11 DEF Next, Poll

(* A new limiter (ResourceLimiter::new) satisfies the invariant.            *)
LEMMA InitIInv == Init => IInv
<1> SUFFICES ASSUME Init PROVE IInv
  OBVIOUS
<1> USE LimiterAssumption DEF Init
<1>1. /\ avail \in [Semaphore -> Nat]
      /\ queue \in [Semaphore -> Seq(Task)]
      /\ held \in [Task -> SUBSET Semaphore]
  BY DEF Limit
<1>2. keys \in [Key -> Sema \cup {NoSema}] /\ keyOf \in [Task -> Key \cup {NoKey}]
  OBVIOUS
<1>3. semaOf \in [Task -> Sema \cup {NoSema}] /\ pc \in [Task -> PC]
  BY DEF PC
<1>4. fired \in BOOLEAN /\ notified \in BOOLEAN /\ doomed \in SUBSET Task /\ blocking \in SUBSET Task
  OBVIOUS
<1>5. metrics \in [Metric -> Nat] /\ calls \in 0 .. MaxCalls /\ drops \in 0 .. MaxDrops
  OBVIOUS
<1>6. TypeOK
  BY <1>1, <1>2, <1>3, <1>4, <1>5 DEF TypeOK
<1>7. CallsOK
  BY DEF CallsOK, CallOK
<1>8. QueuesOK
  <2> SUFFICES ASSUME NEW s \in Semaphore PROVE QueueOK(s)
    BY DEF QueuesOK
  <2>1. queue[s] = <<>>
    OBVIOUS
  <2>2. 1 .. Len(queue[s]) = {}
    BY <2>1
  <2> QED
    BY <2>2 DEF QueueOK
<1>9. PermitsConserved
  <2> SUFFICES ASSUME NEW s \in Semaphore PROVE avail[s] + Cardinality(Holders(s)) = Limit(s)
    BY DEF PermitsConserved
  <2>1. Holders(s) = {}
    BY DEF Holders
  <2>2. avail[s] = Limit(s) /\ Limit(s) \in Nat
    BY DEF Limit
  <2> QED
    BY <2>1, <2>2, FS_EmptySet
<1>10. MetricsBalance
  <2>1. {t \in Task : pc[t] = "holding"} = {} /\ InAcquire = {}
    BY DEF InAcquire
  <2>2. metrics.acquired = 0 /\ metrics.released = 0 /\ metrics.waiting = 0
    BY DEF Metric
  <2>3. Cardinality({t \in Task : pc[t] = "holding"}) = 0 /\ Cardinality(InAcquire) = 0
    BY <2>1, FS_EmptySet
  <2>4. drops = 0
    OBVIOUS
  <2> HIDE DEF Init
  <2> QED
    BY <2>2, <2>3, <2>4 DEF MetricsBalance
<1> QED
  BY <1>6, <1>7, <1>8, <1>9, <1>10 DEF IInv

-----------------------------------------------------------------------------

(* The inductive invariant holds in every reachable state of the limiter.   *)
THEOREM Invariance == Spec => []IInv
<1>1. IInv /\ [Next]_vars => IInv'
  BY NextType, NextCalls, NextQueues, NextConserves, NextMetrics DEF IInv
<1> QED
  BY InitIInv, <1>1, PTL DEF Spec

(* Type correctness; in particular no AtomicU64 counter wraps below zero.   *)
THEOREM TypeCorrect == Spec => []TypeOK
<1>1. IInv => TypeOK
  BY DEF IInv
<1> QED
  BY <1>1, Invariance, PTL

(* No path through try_acquire, acquire, a dropped future, a dropped permit *)
(* or reap_key loses or invents a permit of any semaphore.                  *)
THEOREM Conservation == Spec => []PermitsConserved
<1>1. IInv => PermitsConserved
  BY DEF IInv
<1> QED
  BY <1>1, Invariance, PTL

(* The acquired and released counters agree with the callers, and the        *)
(* waiting gauge with the callers that wait and the futures dropped.        *)
THEOREM MetricsAccurate == Spec => []MetricsBalance
<1>1. IInv => MetricsBalance
  BY DEF IInv
<1> QED
  BY <1>1, Invariance, PTL

(* Once an acquire future was dropped at an await the gauge is above the     *)
(* tasks that wait, in every later state.                                   *)
GaugeTooHigh == drops > 0 => metrics.waiting > Cardinality(InAcquire)

\* The waiting gauge of "Current tasks waiting" (resource.rs:82) never recovers.
THEOREM GaugeNeverRecovers == Spec => []GaugeTooHigh
<1>1. ASSUME IInv PROVE GaugeTooHigh
  <2>1. InAcquire \in SUBSET Task
    BY <1>1 DEF InAcquire, IInv, TypeOK
  <2>2. Cardinality(InAcquire) \in Nat
    BY <2>1, Counting
  <2> QED
    BY <1>1, <2>2, LimiterAssumption DEF IInv, TypeOK, MetricsBalance, GaugeTooHigh
<1> QED
  BY <1>1, Invariance, PTL

(* A permit handed to a caller always owns both of its slots.               *)
THEOREM BothSlots == Spec => []PermitHoldsBoth
<1>1. IInv => PermitHoldsBoth
  BY DEF IInv, CallsOK, CallOK, KeySlot, PermitHoldsBoth
<1> QED
  BY <1>1, Invariance, PTL

(* At most global_limit permits are out at any moment.                      *)
GlobalBound == Cardinality(Out) <= GlobalLimit

\* Every permit owns a slot of the global semaphore, so global_limit bounds them.
THEOREM GlobalBounded == Spec => []GlobalBound
<1>1. ASSUME IInv PROVE GlobalBound
  <2> USE LimiterAssumption
  <2>1. Out \subseteq Holders(Global)
    BY <1>1 DEF IInv, CallsOK, CallOK, Out, Holders
  <2>2. IsFiniteSet(Holders(Global))
    BY FS_Subset DEF Holders
  <2>3. Cardinality(Out) <= Cardinality(Holders(Global)) /\ Cardinality(Out) \in Nat
    BY <2>1, <2>2, FS_Subset, FS_CardinalityType
  <2>4. /\ avail[Global] + Cardinality(Holders(Global)) = GlobalLimit
        /\ avail[Global] \in Nat /\ Cardinality(Holders(Global)) \in Nat
    BY <1>1, <2>2, FS_CardinalityType DEF IInv, TypeOK, PermitsConserved, Limit, Semaphore
  <2> QED
    BY <2>3, <2>4 DEF GlobalBound
<1> QED
  BY <1>1, Invariance, PTL

(* A doomed call is an acquire that passes the token, which has fired.      *)
DoomedOK ==
    \A t \in doomed : fired /\ t \in blocking \cap TokenTask /\ pc[t] \notin {"grant", "holding"}

(* Whatever a doomed call and the others do, its late check finds the token  *)
(* fired.                                                                   *)
LEMMA NextDoomed == IInv /\ DoomedOK /\ [Next]_vars => DoomedOK'
<1> SUFFICES ASSUME IInv, DoomedOK, [Next]_vars, NEW u \in doomed'
             PROVE  fired' /\ u \in blocking' \cap TokenTask /\ pc'[u] \notin {"grant", "holding"}
  BY DEF DoomedOK
<1> USE LimiterAssumption DEF Goto, GiveUp, Cancellable, LateCancel
<1>0. pc \in [Task -> PC] /\ doomed \in SUBSET Task /\ blocking \in SUBSET Task
  BY DEF IInv, TypeOK
<1>1. ASSUME UNCHANGED token, blocking' = blocking, pc'[u] = pc[u]
      PROVE  fired' /\ u \in blocking' \cap TokenTask /\ pc'[u] \notin {"grant", "holding"}
  BY <1>1 DEF DoomedOK
<1>2. ASSUME NEW t \in Task, NEW k \in Key, StartTry(t, k) \/ StartAcquire(t, k)
      PROVE  fired' /\ u \in blocking' \cap TokenTask /\ pc'[u] \notin {"grant", "holding"}
  BY <1>0, <1>2 DEF StartTry, StartAcquire, FirstStep, Cancelled, DoomedOK
<1>3. ASSUME NEW t \in Task, FindSema(t) \/ CreateSema(t) \/ TakeKey(t) \/ TakeGlobal(t)
      PROVE  fired' /\ u \in blocking' \cap TokenTask /\ pc'[u] \notin {"grant", "holding"}
  BY <1>0, <1>3 DEF FindSema, CreateSema, TakeKey, TakeGlobal, DoomedOK
<1>4. ASSUME NEW t \in Task, Granted(t) \/ CancelWait(t) \/ TimeoutWait(t) \/ DropAcquire(t)
      PROVE  fired' /\ u \in blocking' \cap TokenTask /\ pc'[u] \notin {"grant", "holding"}
  BY <1>0, <1>4 DEF Granted, CancelWait, TimeoutWait, DropAcquire, DoomedOK
<1>5. ASSUME NEW t \in Task, Finish(t) \/ DropPermit(t) \/ ReleaseOne(t) \/ Return(t)
      PROVE  fired' /\ u \in blocking' \cap TokenTask /\ pc'[u] \notin {"grant", "holding"}
  BY <1>0, <1>5 DEF Finish, DropPermit, ReleaseOne, Return, DoomedOK
<1>6. ASSUME NEW t \in Task, LateCheck(t)
      PROVE  fired' /\ u \in blocking' \cap TokenTask /\ pc'[u] \notin {"grant", "holding"}
  BY <1>0, <1>6 DEF LateCheck, Cancelled, DoomedOK
<1>7. ASSUME NEW t \in Task, Grant(t)
      PROVE  fired' /\ u \in blocking' \cap TokenTask /\ pc'[u] \notin {"grant", "holding"}
  BY <1>0, <1>7 DEF Grant, DoomedOK
<1>8. CASE Cancel
  BY <1>8 DEF Cancel, InAcquire
<1>9. CASE (\E k \in ReapKey : Reap(k)) \/ NotifyWaiters \/ UNCHANGED vars
  BY <1>1, <1>9 DEF Reap, NotifyWaiters, vars, DoomedOK
<1> QED
  BY <1>2, <1>3, <1>4, <1>5, <1>6, <1>7, <1>8, <1>9 DEF Next, Poll

(* No call the token must end gets a permit: not one that was queued when it *)
(* fired, nor one that was granted its permit before or after the waiters    *)
(* were notified.                                                           *)
THEOREM NoLatePermit == Spec => []NoPermitAfterCancel
<1>1. Init => DoomedOK
  BY DEF Init, DoomedOK
<1>2. DoomedOK => NoPermitAfterCancel
  BY DEF DoomedOK, NoPermitAfterCancel
<1> QED
  BY <1>1, <1>2, NextDoomed, Invariance, PTL DEF Spec

-----------------------------------------------------------------------------
(* The limiter implements PermitPool.                                      *)

\* The key's semaphore is the one in the map, for a key that nobody reaps: no
\* second semaphore for it exists beside the one its callers looked up.
KeyStable(t) ==
    /\ pc[t] = "idle" => semaOf[t] = NoSema
    /\ keyOf[t] \in Key \ ReapKey /\ semaOf[t] # NoSema => semaOf[t] = keys[keyOf[t]]

KeysStable == \A t \in Task : KeyStable(t)

(* Calls agree with the map on the semaphore of a key that is not reaped.   *)
LEMMA NextStable == IInv /\ KeysStable /\ [Next]_vars => KeysStable'
<1> SUFFICES ASSUME IInv, KeysStable, [Next]_vars, NEW t \in Task PROVE KeyStable(t)'
  BY DEF KeysStable
<1> USE LimiterAssumption DEF Goto, GiveUp, Cancellable, LateCancel
<1>0. TypeOK /\ CallOK(t) /\ KeyStable(t)
  BY DEF IInv, CallsOK, KeysStable
<1> USE DEF KeyStable, TypeOK, PC
<1>1. ASSUME NEW u \in Task, NEW k \in Key, StartTry(u, k) \/ StartAcquire(u, k) PROVE KeyStable(t)'
  BY <1>0, <1>1 DEF StartTry, StartAcquire, FirstStep
<1>2. ASSUME NEW u \in Task, FindSema(u) PROVE KeyStable(t)'
  BY <1>0, <1>2 DEF FindSema
<1>3. ASSUME NEW u \in Task, CreateSema(u) PROVE KeyStable(t)'
  BY <1>0, <1>3 DEF CreateSema, Untracked, IInv, CallsOK, CallOK
<1>4. ASSUME NEW u \in Task, TakeKey(u) PROVE KeyStable(t)'
  BY <1>0, <1>4 DEF TakeKey
<1>5. ASSUME NEW u \in Task, TakeGlobal(u) PROVE KeyStable(t)'
  BY <1>0, <1>5 DEF TakeGlobal
<1>6. ASSUME NEW u \in Task, Granted(u) \/ CancelWait(u) \/ TimeoutWait(u) \/ DropAcquire(u)
      PROVE  KeyStable(t)'
  BY <1>0, <1>6 DEF Granted, CancelWait, TimeoutWait, DropAcquire
<1>7. ASSUME NEW u \in Task,
             Finish(u) \/ LateCheck(u) \/ Grant(u) \/ DropPermit(u) \/ ReleaseOne(u)
      PROVE  KeyStable(t)'
  BY <1>0, <1>7 DEF Finish, LateCheck, Grant, DropPermit, ReleaseOne
<1>8. ASSUME NEW u \in Task, Return(u) PROVE KeyStable(t)'
  BY <1>0, <1>8 DEF Return
<1>9. ASSUME NEW k \in ReapKey, Reap(k) PROVE KeyStable(t)'
  BY <1>0, <1>9 DEF Reap
<1>10. CASE Cancel \/ NotifyWaiters \/ UNCHANGED vars
  BY <1>0, <1>10 DEF Cancel, NotifyWaiters, vars
<1> QED
  BY <1>1, <1>2, <1>3, <1>4, <1>5, <1>6, <1>7, <1>8, <1>9, <1>10 DEF Next, Poll

(* So it is in every reachable state.                                       *)
THEOREM AlwaysStable == Spec => []KeysStable
<1>1. Init => KeysStable
  BY DEF Init, KeysStable, KeyStable
<1> QED
  BY <1>1, NextStable, Invariance, PTL DEF Spec

\* What the callers own, as PermitPool sees it.
Owner == [t \in Task |-> IF pc[t] = "holding" THEN {keyOf[t]} ELSE {}]

(* A caller about to get its permit, with its slots in hand, finds room in   *)
(* the pool: the slots it owns are not among the permits that are out.      *)
LEMMA RoomForGrant ==
    ASSUME IInv, KeysStable, NEW t \in Task, pc[t] # "holding", keyOf[t] \in Key,
           PermitsConserved', TypeOK', NEW H \in [Task -> SUBSET Semaphore], H = held',
           \A u \in Task : pc[u] = "holding" => H[u] = held[u],
           H[t] = {Global} \cup KeySlot(t)
    PROVE  /\ Cardinality({u \in Task : Owner[u] # {}}) < GlobalLimit
           /\ \/ PerKeyLimit = 0 \/ keyOf[t] \in ReapKey
              \/ Cardinality({u \in Task : Owner[u] = {keyOf[t]}}) < PerKeyLimit
<1> USE LimiterAssumption
<1>1. ASSUME NEW s \in Semaphore, NEW S \in SUBSET Task, t \notin S,
             \A u \in S \cup {t} : s \in H[u]
      PROVE  Cardinality(S) < Limit(s)
  <2>1. S \cup {t} \subseteq Holders(s)' /\ Holders(s)' \in SUBSET Task
    BY <1>1 DEF Holders
  <2>2. IsFiniteSet(Holders(s)')
    BY <2>1, FS_Subset
  <2>3. Cardinality(S \cup {t}) <= Cardinality(Holders(s)')
    BY <2>1, <2>2, FS_Subset
  <2>4. Cardinality(S) \in Nat /\ Cardinality(S \cup {t}) = Cardinality(S) + 1
    BY <1>1, Counting
  <2>5. /\ avail'[s] + Cardinality(Holders(s)') = Limit(s)
        /\ avail'[s] \in Nat /\ Cardinality(Holders(s)') \in Nat
    BY <2>2, FS_CardinalityType DEF PermitsConserved, TypeOK, Limit
  <2> QED
    BY <2>3, <2>4, <2>5
<1>2. Cardinality({u \in Task : Owner[u] # {}}) < GlobalLimit
  <2> DEFINE S == {u \in Task : Owner[u] # {}}
  <2>1. S \in SUBSET Task /\ t \notin S /\ \A u \in S : pc[u] = "holding"
    BY DEF Owner
  <2>2. \A u \in S \cup {t} : Global \in H[u]
    BY <2>1 DEF IInv, CallsOK, CallOK
  <2>3. Global \in Semaphore
    BY DEF Semaphore
  <2> HIDE DEF S
  <2>4. Cardinality(S) < Limit(Global)
    BY <1>1, <2>1, <2>2, <2>3
  <2> QED
    BY <2>4 DEF Limit, S
<1>3. ASSUME PerKeyLimit # 0, keyOf[t] \notin ReapKey
      PROVE  Cardinality({u \in Task : Owner[u] = {keyOf[t]}}) < PerKeyLimit
  <2> DEFINE S == {u \in Task : Owner[u] = {keyOf[t]}}
             s == keys[keyOf[t]]
  <2>1. S \in SUBSET Task /\ t \notin S /\ \A u \in S : pc[u] = "holding" /\ keyOf[u] = keyOf[t]
    BY DEF Owner
  <2>2. semaOf[t] \in Sema /\ semaOf[t] \in H[t]
    BY <1>3 DEF KeySlot, Semaphore, IInv, TypeOK
  <2>3. semaOf[t] = s
    BY <1>3, <2>2 DEF KeysStable, KeyStable
  <2>4. ASSUME NEW u \in S PROVE s \in H[u]
    <3>1. semaOf[u] \in Sema /\ semaOf[u] \in held[u]
      BY <1>3, <2>1 DEF IInv, CallsOK, CallOK, KeySlot
    <3>2. semaOf[u] = s
      BY <1>3, <2>1, <3>1 DEF KeysStable, KeyStable
    <3> QED
      BY <2>1, <3>1, <3>2
  <2>5. s \in Semaphore /\ s # Global /\ s \in H[t]
    BY <2>2, <2>3 DEF Semaphore
  <2> HIDE DEF S, s
  <2>6. Cardinality(S) < Limit(s)
    BY <1>1, <2>1, <2>4, <2>5
  <2> QED
    BY <2>5, <2>6 DEF Limit, S
<1> QED
  BY <1>2, <1>3

(* PermitPool counts with the same Cardinality.                             *)
LEMMA SameCardinality ==
    ASSUME NEW S
    PROVE  Pool!Cardinality(S) = Cardinality(S)
  BY DEF Pool!Cardinality, Cardinality

(* Every step of the limiter grants a permit, drops one or leaves the pool   *)
(* as it is.                                                                *)
LEMMA PoolStep ==
    ASSUME IInv, IInv', KeysStable, [Next]_vars
    PROVE  [Pool!Next]_Owner
<1> USE LimiterAssumption DEF Goto, GiveUp, Cancellable, LateCancel
<1>0. pc \in [Task -> PC] /\ keyOf \in [Task -> Key \cup {NoKey}] /\ \A t \in Task : CallOK(t)
  BY DEF IInv, TypeOK, CallsOK
<1>1. ASSUME NEW t \in Task, pc[t] # "holding", keyOf[t] \in Key,
             pc' = [pc EXCEPT ![t] = "holding"], keyOf' = keyOf,
             \A u \in Task : pc[u] = "holding" => held'[u] = held[u],
             held'[t] = {Global} \cup KeySlot(t)
      PROVE  Pool!Next
  <2>1. /\ Cardinality({u \in Task : Owner[u] # {}}) < GlobalLimit
        /\ \/ PerKeyLimit = 0 \/ keyOf[t] \in ReapKey
           \/ Cardinality({u \in Task : Owner[u] = {keyOf[t]}}) < PerKeyLimit
    <3>1. held' \in [Task -> SUBSET Semaphore] /\ TypeOK' /\ PermitsConserved'
      BY DEF IInv, TypeOK
    <3> QED
      BY <1>1, <3>1, RoomForGrant
  <2>2. Owner[t] = {} /\ Owner' = [Owner EXCEPT ![t] = {keyOf[t]}]
    BY <1>0, <1>1 DEF Owner
  <2>3. PICK k \in Key : k = keyOf[t]
    BY <1>1
  <2>4. /\ Pool!Cardinality(Pool!Owners) < GlobalLimit
        /\ \/ PerKeyLimit = 0 \/ k \in ReapKey
           \/ Pool!Cardinality(Pool!OwnersOf(k)) < PerKeyLimit
    <3>1. Pool!Owners = {u \in Task : Owner[u] # {}}
      BY DEF Pool!Owners, Owner
    <3>2. Pool!OwnersOf(k) = {u \in Task : Owner[u] = {k}}
      BY DEF Pool!OwnersOf, Owner
    <3> QED
      BY <2>1, <2>3, <3>1, <3>2, SameCardinality
  <2>5. Pool!Grant(t, k)
    BY <2>2, <2>3, <2>4 DEF Pool!Grant, Owner
  <2> QED
    BY <2>5 DEF Pool!Next
<1>2. ASSUME NEW t \in Task, DropPermit(t) PROVE Pool!Next
  <2>1. Owner[t] # {} /\ Owner' = [Owner EXCEPT ![t] = {}]
    BY <1>0, <1>2 DEF DropPermit, Owner
  <2>2. Pool!Drop(t)
    BY <2>1 DEF Pool!Drop, Owner
  <2> QED
    BY <2>2 DEF Pool!Next
<1>3. ASSUME \A t \in Task : /\ pc[t] = "holding" <=> pc'[t] = "holding"
                             /\ pc[t] = "holding" => keyOf'[t] = keyOf[t]
      PROVE  Owner' = Owner
  BY <1>3 DEF Owner
<1>4. ASSUME NEW t \in Task, TakeGlobal(t) \/ Finish(t) \/ LateCheck(t) PROVE Owner' = Owner
  <2>1. PICK l \in {"finish", "grant", "check", "waitGlobal", "reject", "unwind"} :
          pc' = [pc EXCEPT ![t] = l] /\ keyOf' = keyOf /\ pc[t] # "holding"
    BY <1>4 DEF TakeGlobal, Finish, LateCheck
  <2> QED
    BY <1>0, <1>3, <2>1
<1>5. ASSUME NEW t \in Task, Grant(t) PROVE Pool!Next
  <2>1. pc' = [pc EXCEPT ![t] = "holding"] /\ keyOf' = keyOf /\ held' = held /\ pc[t] = "grant"
    BY <1>5 DEF Grant
  <2>2. held'[t] = {Global} \cup KeySlot(t) /\ keyOf[t] \in Key
    BY <1>0, <2>1 DEF CallOK
  <2> QED
    BY <1>1, <2>1, <2>2
<1>6. ASSUME NEW t \in Task, NEW k \in Key, StartTry(t, k) \/ StartAcquire(t, k)
      PROVE  Owner' = Owner
  BY <1>0, <1>3, <1>6 DEF StartTry, StartAcquire, FirstStep
<1>7. ASSUME NEW t \in Task,
             \/ FindSema(t) \/ CreateSema(t) \/ TakeKey(t) \/ Granted(t) \/ CancelWait(t)
             \/ ReleaseOne(t) \/ TimeoutWait(t) \/ DropAcquire(t)
      PROVE  Owner' = Owner
  <2>1. keyOf' = keyOf /\ \E l \in PC \ {"holding"} : pc' = [pc EXCEPT ![t] = l] /\ pc[t] # "holding"
    <3>1. CASE ReleaseOne(t)
      BY <1>0, <3>1 DEF ReleaseOne, PC
    <3>2. CASE FindSema(t) \/ CreateSema(t) \/ TakeKey(t)
      BY <3>2 DEF FindSema, CreateSema, TakeKey, PC
    <3>3. CASE Granted(t) \/ CancelWait(t) \/ TimeoutWait(t) \/ DropAcquire(t)
      BY <3>3 DEF Granted, CancelWait, TimeoutWait, DropAcquire, PC
    <3> QED
      BY <1>7, <3>1, <3>2, <3>3
  <2> QED
    BY <1>0, <1>3, <2>1
<1>8. ASSUME NEW t \in Task, Return(t) PROVE Owner' = Owner
  BY <1>0, <1>3, <1>8 DEF Return
<1>9. CASE (\E k \in ReapKey : Reap(k)) \/ Cancel \/ NotifyWaiters \/ UNCHANGED vars
  BY <1>3, <1>9 DEF Reap, Cancel, NotifyWaiters, vars
<1> QED
  BY <1>2, <1>4, <1>5, <1>6, <1>7, <1>8, <1>9 DEF Next, Poll

(* The limiter implements the pool: for every number of callers, keys and    *)
(* limits, a permit goes out only while the global bound and, for a key     *)
(* that nobody reaps, the bound of its key leave room.                      *)
THEOREM LimiterIsPool == Spec => ImplementsPool
<1>1. Init => Pool!Init
  BY DEF Init, Pool!Init
<1>2. IInv /\ IInv' /\ KeysStable /\ [Next]_vars => [Pool!Next]_Owner
  BY PoolStep
<1>3. Spec => Pool!Init /\ [][Pool!Next]_Owner
  BY <1>1, <1>2, AlwaysStable, Invariance, PTL DEF Spec
<1> QED
  BY <1>3, PTL DEF ImplementsPool, Pool!Spec, Owner

(* At most per_key_limit permits are out for any one key that nobody reaps:  *)
(* a key's callers all took their slot from the one semaphore in the map    *)
(* ("a fixed slice of the global pool", resource.rs).                       *)
KeyBound ==
    \A k \in Key \ ReapKey : PerKeyLimit # 0 =>
        Cardinality({t \in Task : pc[t] = "holding" /\ keyOf[t] = k}) <= PerKeyLimit

\* Every permit of such a key owns a slot of its one semaphore.
THEOREM KeyBounded == Spec => []KeyBound
<1>1. ASSUME IInv, KeysStable, NEW k \in Key \ ReapKey, PerKeyLimit # 0
      PROVE  Cardinality({t \in Task : pc[t] = "holding" /\ keyOf[t] = k}) <= PerKeyLimit
  <2> USE LimiterAssumption
  <2> DEFINE S == {t \in Task : pc[t] = "holding" /\ keyOf[t] = k}
             s == keys[k]
  <2>1. ASSUME NEW t \in S PROVE s \in Sema /\ t \in Holders(s)
    <3>1. semaOf[t] \in Sema /\ semaOf[t] \in held[t]
      BY <1>1 DEF IInv, CallsOK, CallOK, KeySlot
    <3>2. semaOf[t] = s
      BY <1>1, <3>1 DEF KeysStable, KeyStable
    <3> QED
      BY <3>1, <3>2 DEF Holders
  <2>2. CASE S = {}
    BY <2>2, FS_EmptySet
  <2>3. CASE S # {}
    <3>1. s \in Sema /\ S \subseteq Holders(s) /\ Holders(s) \in SUBSET Task
      BY <2>1, <2>3 DEF Holders
    <3> HIDE DEF S, s
    <3>2. IsFiniteSet(Holders(s))
      BY <3>1, FS_Subset
    <3>3. Cardinality(S) <= Cardinality(Holders(s)) /\ Cardinality(S) \in Nat
      BY <3>1, <3>2, FS_Subset, FS_CardinalityType
    <3>4. /\ avail[s] + Cardinality(Holders(s)) = PerKeyLimit
          /\ avail[s] \in Nat /\ Cardinality(Holders(s)) \in Nat
      BY <1>1, <3>1, <3>2, FS_CardinalityType DEF IInv, TypeOK, PermitsConserved, Limit, Semaphore
    <3>5. Cardinality(S) <= PerKeyLimit
      BY <3>3, <3>4
    <3> QED
      BY <3>5 DEF S
  <2> QED
    BY <2>2, <2>3
<1>2. IInv /\ KeysStable => KeyBound
  BY <1>1 DEF KeyBound
<1> QED
  BY <1>2, Invariance, AlwaysStable, PTL

-----------------------------------------------------------------------------
(* Waiting.                                                                *)

(* No permit lies idle while somebody waits for it: a call that waits        *)
(* without its permit stands in the semaphore's queue, and a semaphore with  *)
(* a queue has no free permit.  It is the safety half of WaitersServed.     *)
Attended(s) ==
    /\ queue[s] # <<>> => avail[s] = 0
    /\ \A t \in Parked(s) : \E i \in 1 .. Len(queue[s]) : queue[s][i] = t

NobodyStranded == \A s \in Semaphore : Attended(s)

(* Leaving a queue takes nobody else out of it.                             *)
LEMMA WithoutKeeps ==
    ASSUME NEW q \in Seq(Task), NEW t \in Task, NEW v \in Task \ {t},
           \E i \in 1 .. Len(q) : q[i] = v
    PROVE  \E i \in 1 .. Len(Without(q, t)) : Without(q, t)[i] = v
<1>1. CASE ~ \E i \in 1 .. Len(q) : q[i] = t
  BY <1>1 DEF Without
<1>2. CASE \E i \in 1 .. Len(q) : q[i] = t
  <2> DEFINE k == CHOOSE j \in 1 .. Len(q) : q[j] = t
             w == [j \in 1 .. Len(q) - 1 |-> IF j < k THEN q[j] ELSE q[j + 1]]
  <2>1. k \in 1 .. Len(q) /\ q[k] = t
    BY <1>2
  <2>2. Without(q, t) = w
    BY <1>2 DEF Without
  <2> HIDE DEF k
  <2>3. Len(w) = Len(q) - 1 /\ Len(q) - 1 \in Nat
    BY <2>1
  <2>4. PICK i \in 1 .. Len(q) : q[i] = v
    OBVIOUS
  <2>5. i # k
    BY <2>1, <2>4
  <2>6. CASE i < k
    <3>1. i \in 1 .. Len(q) - 1 /\ w[i] = v
      BY <2>1, <2>4, <2>6
    <3> QED
      BY <2>2, <2>3, <3>1
  <2>7. CASE i > k
    <3>1. i - 1 \in 1 .. Len(q) - 1 /\ w[i - 1] = v
      BY <2>1, <2>4, <2>7
    <3> QED
      BY <2>2, <2>3, <3>1
  <2> QED
    BY <2>1, <2>5, <2>6, <2>7
<1> QED
  BY <1>1, <1>2

(* Nobody is left waiting outside a queue, or beside a free permit.         *)
LEMMA NextStranded == IInv /\ NobodyStranded /\ [Next]_vars => NobodyStranded'
<1> SUFFICES ASSUME IInv, NobodyStranded, [Next]_vars, NEW r \in Semaphore PROVE Attended(r)'
  BY DEF NobodyStranded
<1> USE LimiterAssumption DEF Goto, GiveUp, Cancellable, LateCancel
<1>0. /\ queue[r] \in Seq(Task)
      /\ Attended(r)
      /\ \A i \in 1 .. Len(queue[r]) : queue[r][i] \in Parked(r)
      /\ \A i, j \in 1 .. Len(queue[r]) : i # j => queue[r][i] # queue[r][j]
  BY DEF IInv, TypeOK, QueuesOK, QueueOK, NobodyStranded
<1>1. ASSUME queue'[r] = queue[r], queue[r] # <<>> => avail'[r] = avail[r],
             \A v \in Task : v \in Parked(r)' => v \in Parked(r)
      PROVE  Attended(r)'
  <2>1. \A v \in Parked(r)' : v \in Task
    BY DEF Parked
  <2> QED
    BY <1>0, <1>1, <2>1 DEF Attended
\* Steps of one call that leave the queues alone and do not begin to wait.
<1>2. ASSUME NEW t \in Task, UNCHANGED queue, queue[r] # <<>> => avail'[r] = avail[r],
             pc' = [pc EXCEPT ![t] = pc'[t]],
             pc'[t] \notin {"waitKey", "waitGlobal"},
             semaOf' = [semaOf EXCEPT ![t] = semaOf'[t]],
             held' = [held EXCEPT ![t] = held'[t]]
      PROVE  Attended(r)'
  <2>1. ASSUME NEW v \in Task, v \in Parked(r)' PROVE v \in Parked(r)
    BY <1>2, <2>1 DEF Parked, IInv, TypeOK
  <2> QED
    BY <1>1, <1>2, <2>1
<1>3. ASSUME NEW t \in Task,
             \/ \E k \in Key : StartTry(t, k) \/ StartAcquire(t, k)
             \/ FindSema(t) \/ Finish(t) \/ LateCheck(t) \/ Grant(t) \/ DropPermit(t) \/ Return(t)
             \/ Granted(t)
      PROVE  Attended(r)'
  <2>1. UNCHANGED <<queue, held, avail>>
    BY <1>3 DEF StartTry, StartAcquire, FindSema, Finish, LateCheck, Grant, DropPermit, Return, Granted
  <2>2. /\ pc' = [pc EXCEPT ![t] = pc'[t]]
        /\ pc'[t] \notin {"waitKey", "waitGlobal"}
        /\ semaOf' = [semaOf EXCEPT ![t] = semaOf'[t]]
    BY <1>3 DEF StartTry, StartAcquire, FirstStep, FindSema, Finish, LateCheck, Grant, DropPermit, Return,
                Granted, IInv, TypeOK
  <2> QED
    BY <1>2, <2>1, <2>2 DEF IInv, TypeOK
\* A new semaphore has no queue: nobody refers to it.
<1>4. ASSUME NEW t \in Task, CreateSema(t) PROVE Attended(r)'
  <2>1. PICK s \in Sema : Fresh(s) /\ avail' = [avail EXCEPT ![s] = PerKeyLimit]
    BY <1>4 DEF CreateSema
  <2>2. queue[r] # <<>> => r # s
    <3> SUFFICES ASSUME queue[r] # <<>>, r = s PROVE FALSE
      OBVIOUS
    <3>1. 1 \in 1 .. Len(queue[r])
      BY <1>0
    <3>2. queue[r][1] \in Parked(r)
      BY <1>0, <3>1
    <3> QED
      BY <2>1, <3>2 DEF Parked, Fresh
  <2>3. queue[r] # <<>> => avail'[r] = avail[r]
    BY <2>1, <2>2 DEF IInv, TypeOK
  <2>4. /\ UNCHANGED <<queue, held>>
        /\ pc' = [pc EXCEPT ![t] = pc'[t]]
        /\ pc'[t] \notin {"waitKey", "waitGlobal"}
        /\ semaOf' = [semaOf EXCEPT ![t] = semaOf'[t]]
    BY <1>4 DEF CreateSema, IInv, TypeOK
  <2> QED
    BY <1>2, <2>3, <2>4 DEF IInv, TypeOK
\* Parking: only an exhausted semaphore gets a queue.
<1>5. ASSUME NEW t \in Task, NEW s \in Semaphore, Park(t, s), UNCHANGED semaOf,
             \/ s = Global /\ Goto(t, "waitGlobal")
             \/ s # Global /\ semaOf[t] = s /\ Goto(t, "waitKey")
      PROVE  Attended(r)'
  <2>1. UNCHANGED <<avail, held>> /\ avail[s] = 0
    BY <1>5 DEF Park
  <2>2. CASE r # s
    <3>1. queue'[r] = queue[r]
      BY <1>5, <2>2 DEF Park, IInv, TypeOK
    <3>2. ASSUME NEW v \in Task, v \in Parked(r)' PROVE v \in Parked(r)
      BY <1>5, <2>1, <2>2, <3>2 DEF Parked, IInv, TypeOK
    <3> QED
      BY <1>1, <2>1, <3>1, <3>2
  <2>3. CASE r = s
    <3>1. queue'[r] = Append(queue[r], t)
      BY <1>5, <2>3 DEF Park, IInv, TypeOK
    <3>2. /\ Len(queue'[r]) = Len(queue[r]) + 1
          /\ queue'[r][Len(queue[r]) + 1] = t
          /\ \A i \in 1 .. Len(queue[r]) : i \in 1 .. Len(queue'[r]) /\ queue'[r][i] = queue[r][i]
          /\ Len(queue[r]) + 1 \in 1 .. Len(queue'[r])
      BY <1>0, <3>1
    <3>3. ASSUME NEW v \in Task \ {t}, v \in Parked(r)' PROVE v \in Parked(r)
      BY <1>5, <2>1, <3>3 DEF Parked, IInv, TypeOK
    <3>4. ASSUME NEW v \in Parked(r)' PROVE \E i \in 1 .. Len(queue'[r]) : queue'[r][i] = v
      <4>1. CASE v = t
        BY <3>2, <4>1
      <4>2. CASE v # t
        <5>1. v \in Parked(r)
          BY <3>3, <3>4, <4>2 DEF Parked
        <5>2. PICK i \in 1 .. Len(queue[r]) : queue[r][i] = v
          BY <1>0, <5>1 DEF Attended
        <5> QED
          BY <3>2, <5>2
      <4> QED
        BY <4>1, <4>2
    <3> QED
      BY <2>1, <2>3, <3>4 DEF Attended
  <2> QED
    BY <2>2, <2>3
\* Taking: a permit is free, so nobody waits.
<1>6. ASSUME NEW t \in Task, NEW s \in Semaphore, Take(t, s), UNCHANGED semaOf,
             pc' = [pc EXCEPT ![t] = pc'[t]], pc'[t] \notin {"waitKey", "waitGlobal"}
      PROVE  Attended(r)'
  <2>1. UNCHANGED queue /\ held' = [held EXCEPT ![t] = held'[t]]
    BY <1>6 DEF Take, IInv, TypeOK
  <2>2. queue[r] # <<>> => r # s
    BY <1>0, <1>6 DEF Attended, Take, IInv, TypeOK
  <2>3. queue[r] # <<>> => avail'[r] = avail[r]
    BY <1>6, <2>2 DEF Take, IInv, TypeOK
  <2> QED
    BY <1>2, <1>6, <2>1, <2>3 DEF IInv, TypeOK
<1>7. ASSUME NEW t \in Task, TakeKey(t) PROVE Attended(r)'
  <2>1. semaOf[t] \in Semaphore /\ semaOf[t] # Global /\ UNCHANGED semaOf
    BY <1>7 DEF TakeKey, IInv, CallsOK, CallOK, Semaphore
  <2>2. CASE Park(t, semaOf[t]) /\ Goto(t, "waitKey")
    BY <1>5, <2>1, <2>2
  <2>3. CASE Take(t, semaOf[t]) /\ Goto(t, "takeGlobal")
    <3>1. pc' = [pc EXCEPT ![t] = pc'[t]] /\ pc'[t] = "takeGlobal"
      BY <2>3 DEF IInv, TypeOK
    <3> QED
      BY <1>6, <2>1, <2>3, <3>1
  <2>4. CASE GiveUp(t)
    <3>1. pc' = [pc EXCEPT ![t] = pc'[t]] /\ pc'[t] = "reject" /\ UNCHANGED <<avail, queue, held>>
      BY <2>4 DEF IInv, TypeOK
    <3> QED
      BY <1>2, <2>1, <3>1 DEF IInv, TypeOK
  <2> QED
    BY <1>7, <2>2, <2>3, <2>4 DEF TakeKey
<1>8. ASSUME NEW t \in Task, TakeGlobal(t) PROVE Attended(r)'
  <2>1. Global \in Semaphore /\ UNCHANGED semaOf
    BY <1>8 DEF TakeGlobal, Semaphore
  <2>2. CASE Park(t, Global) /\ Goto(t, "waitGlobal")
    BY <1>5, <2>1, <2>2
  <2>3. CASE Take(t, Global) /\ Goto(t, IF t \in blocking THEN "finish" ELSE "grant")
    <3>1. pc' = [pc EXCEPT ![t] = pc'[t]] /\ pc'[t] \notin {"waitKey", "waitGlobal"}
      BY <2>3 DEF IInv, TypeOK
    <3> QED
      BY <1>6, <2>1, <2>3, <3>1
  <2>4. CASE GiveUp(t)
    <3>1. pc' = [pc EXCEPT ![t] = pc'[t]] /\ pc'[t] = "reject" /\ UNCHANGED <<avail, queue, held>>
      BY <2>4 DEF IInv, TypeOK
    <3> QED
      BY <1>2, <2>1, <3>1 DEF IInv, TypeOK
  <2> QED
    BY <1>8, <2>2, <2>3, <2>4 DEF TakeGlobal
\* Unparking: the others stay, and the task waits no more.
<1>9. ASSUME NEW t \in Task, CancelWait(t) \/ TimeoutWait(t) \/ DropAcquire(t)
      PROVE  Attended(r)'
  <2>1. /\ queue'[r] = Without(queue[r], t)
        /\ UNCHANGED <<held, semaOf, avail>>
        /\ \A v \in Task \ {t} : pc'[v] = pc[v]
        /\ pc'[t] \in {"fail", "unwind"}
    BY <1>9 DEF CancelWait, TimeoutWait, DropAcquire, Unpark, IInv, TypeOK
  <2>2. ASSUME NEW v \in Parked(r)' PROVE v \in Task \ {t} /\ v \in Parked(r)
    BY <2>1, <2>2 DEF Parked
  <2>3. ASSUME NEW v \in Parked(r)' PROVE \E i \in 1 .. Len(queue'[r]) : queue'[r][i] = v
    <3> DEFINE q == queue[r]
    <3>1. q \in Seq(Task) /\ v \in Task \ {t} /\ \E i \in 1 .. Len(q) : q[i] = v
      BY <1>0, <2>2 DEF Attended
    <3> HIDE DEF q
    <3>2. \E i \in 1 .. Len(Without(q, t)) : Without(q, t)[i] = v
      BY <3>1, WithoutKeeps
    <3> QED
      BY <2>1, <3>2 DEF q
  <2>4. queue'[r] # <<>> => queue[r] # <<>>
    <3> SUFFICES ASSUME queue[r] = <<>> PROVE Without(queue[r], t) = <<>>
      BY <2>1
    <3>1. ~ \E i \in 1 .. Len(queue[r]) : queue[r][i] = t
      OBVIOUS
    <3> QED
      BY <3>1 DEF Without
  <2> QED
    BY <1>0, <2>1, <2>3, <2>4 DEF Attended
\* Releasing: a waiter gets the permit before anybody else can.
<1>10. ASSUME NEW t \in Task, ReleaseOne(t) PROVE Attended(r)'
  <2>0. /\ UNCHANGED <<pc, semaOf>> /\ pc[t] \notin {"waitKey", "waitGlobal"}
        /\ held \in [Task -> SUBSET Semaphore] /\ avail \in [Semaphore -> Nat]
        /\ queue \in [Semaphore -> Seq(Task)]
    BY <1>10 DEF ReleaseOne, IInv, TypeOK
  <2>1. PICK s \in Semaphore : Release(t, s)
    BY <1>10 DEF ReleaseOne, IInv, TypeOK
  <2>2. CASE queue[s] = <<>>
    <3>1. /\ UNCHANGED queue
          /\ avail' = [avail EXCEPT ![s] = @ + 1]
          /\ held' = [held EXCEPT ![t] = @ \ {s}]
      BY <2>1, <2>2 DEF Release
    <3>2. queue[r] # <<>> => avail'[r] = avail[r]
      BY <2>0, <2>2, <3>1
    <3>3. ASSUME NEW v \in Task, v \in Parked(r)' PROVE v \in Parked(r)
      BY <2>0, <3>1, <3>3 DEF Parked
    <3> QED
      BY <1>1, <3>1, <3>2, <3>3
  <2>3. CASE queue[s] # <<>>
    <3> DEFINE h == Head(queue[s])
    <3>1. /\ held' = [held EXCEPT ![t] = @ \ {s}, ![h] = @ \cup {s}]
          /\ queue' = [queue EXCEPT ![s] = Tail(queue[s])]
          /\ UNCHANGED avail
      BY <2>1, <2>3 DEF Release
    <3>2. h \in Task /\ h = queue[s][1]
      BY <2>0, <2>3
    <3>3. /\ s \in held'[h]
          /\ \A v \in Task \ {t} : held[v] \subseteq held'[v]
      BY <2>0, <3>1, <3>2
    <3>4. ASSUME NEW v \in Parked(r)' PROVE v \in Parked(r) /\ (r = s => v # h)
      <4>1. v \in Task /\ v # t /\ held[v] \subseteq held'[v]
        BY <2>0, <3>3, <3>4 DEF Parked
      <4> QED
        BY <2>0, <3>3, <3>4, <4>1 DEF Parked
    <3> HIDE DEF h
    <3>5. CASE r # s
      <4>1. queue'[r] = queue[r] /\ avail'[r] = avail[r]
        BY <2>0, <3>1, <3>5
      <4> QED
        BY <1>1, <3>4, <4>1
    <3>6. CASE r = s
      <4>1. /\ queue'[r] = Tail(queue[r]) /\ Len(queue'[r]) = Len(queue[r]) - 1
            /\ \A i \in 1 .. Len(queue[r]) - 1 : queue'[r][i] = queue[r][i + 1]
            /\ Len(queue[r]) \in Nat
        BY <1>0, <2>0, <2>3, <3>1, <3>6
      <4>2. ASSUME NEW v \in Parked(r)' PROVE \E i \in 1 .. Len(queue'[r]) : queue'[r][i] = v
        <5>1. PICK i \in 1 .. Len(queue[r]) : queue[r][i] = v
          BY <1>0, <3>4, <4>2 DEF Attended
        <5>2. i # 1
          BY <3>2, <3>4, <3>6, <4>2, <5>1
        <5>3. i - 1 \in 1 .. Len(queue'[r]) /\ queue'[r][i - 1] = v
          BY <4>1, <5>1, <5>2
        <5> QED
          BY <5>3
      <4> QED
        BY <1>0, <2>3, <3>1, <3>6, <4>2 DEF Attended
    <3> QED
      BY <3>5, <3>6
  <2> QED
    BY <2>2, <2>3
<1>11. CASE (\E k \in ReapKey : Reap(k)) \/ Cancel \/ NotifyWaiters \/ UNCHANGED vars
  BY <1>1, <1>11 DEF Reap, Cancel, NotifyWaiters, vars, Parked
<1> QED
  BY <1>3, <1>4, <1>7, <1>8, <1>9, <1>10, <1>11 DEF Next, Poll

(* Whoever waits in acquire is in line for the next permit that is dropped,  *)
(* for every number of callers and whatever is cancelled, timed out,        *)
(* dropped or reaped.                                                       *)
THEOREM WaitersInLine == Spec => []NobodyStranded
<1>1. Init => NobodyStranded
  <2> SUFFICES ASSUME Init, NEW s \in Semaphore PROVE Attended(s)
    BY DEF NobodyStranded
  <2>1. queue[s] = <<>> /\ Parked(s) = {}
    BY DEF Init, Parked
  <2> QED
    BY <2>1 DEF Attended
<1> QED
  BY <1>1, NextStranded, Invariance, PTL DEF Spec
=============================================================================
