-------------------------- MODULE ResourceLimiter --------------------------
(***************************************************************************)
(* The global + per-key concurrency limiter of a3net-resilience            *)
(* (resource.rs), used by the node for peers, rooms and request tags.      *)
(*                                                                         *)
(* try_acquire and acquire take a per-key permit, then a global one.  The  *)
(* steps of a call are separate: another thread may run between looking    *)
(* up the key's semaphore, taking a permit of it, taking the global        *)
(* permit, and the late check of the cancellation token.                   *)
(*                                                                         *)
(* Semaphores are tokio's, modelled from their use: FIFO, a released       *)
(* permit is handed to the first waiter, and dropping a waiting future     *)
(* leaves the queue or gives a permit already handed over back.            *)
(***************************************************************************)
EXTENDS Integers, Sequences, FiniteSets

CONSTANTS Task,         \* callers of the limiter
          TryTask,      \* the callers of try_acquire
          AcquireTask,  \* the callers of acquire
          TokenTask,    \* the callers that pass Some(token) to acquire
          Key,          \* peers, rooms or tags
          ReapKey,      \* keys on which reap_key is called
          Serial,       \* tells the semaphores made for one key apart
          Global,       \* the global semaphore
          NoSema,       \* no semaphore
          NoKey,        \* no call in progress
          GlobalLimit,  \* ResourceConfig::global_limit
          PerKeyLimit,  \* ResourceConfig::per_key_limit; 0 switches it off
          MaxCalls,     \* bound: calls of try_acquire and acquire
          MaxDrops      \* bound: acquire futures dropped while they wait

\* Identities for per-key semaphores (Arc<Semaphore>).
Sema == Key \X Serial

ASSUME LimiterAssumption ==
    /\ TryTask \subseteq Task
    /\ AcquireTask \subseteq Task
    /\ TokenTask \subseteq AcquireTask
    /\ IsFiniteSet(Task)
    /\ ReapKey \subseteq Key
    /\ NoKey \notin Key
    /\ Global \notin Sema
    /\ NoSema \notin Sema \cup {Global}
    /\ GlobalLimit \in Nat
    /\ PerKeyLimit \in Nat
    /\ MaxCalls \in Nat
    /\ MaxDrops \in Nat

VARIABLES keys,      \* ResourceLimiter::keys: the semaphore of each tracked key
          avail,     \* free permits of each semaphore
          queue,     \* tasks waiting for a permit of each semaphore
          held,      \* permits each task owns, as a set of semaphores
          pc,        \* where each task's call stands
          blocking,  \* tasks whose call is acquire, not try_acquire
          keyOf,     \* the key of each task's call
          semaOf,    \* the Arc<Semaphore> that call looked up
          fired,     \* CancellationToken::is_cancelled
          notified,  \* notify_waiters of the token has run
          doomed,    \* history: calls the token must end (fired before their late check)
          metrics,   \* LimiterMetrics
          calls,     \* calls made so far
          drops      \* acquire futures dropped so far

token == <<fired, notified, doomed>>
vars == <<keys, avail, queue, held, pc, blocking, keyOf, semaOf, token, metrics, calls, drops>>

Semaphore == Sema \cup {Global}

PC == {"idle", "lookup", "takeKey", "waitKey", "takeGlobal", "waitGlobal",
       "fail", "reject", "finish", "check", "grant", "holding", "unwind"}

Metric == {"acquired", "released", "try_rejected", "cancelled", "waiting"}

Limit(s) == IF s = Global THEN GlobalLimit ELSE PerKeyLimit

\* Tasks between acquire's two updates of the waiting gauge.
InAcquire == {t \in blocking : pc[t] \in {"lookup", "takeKey", "waitKey", "takeGlobal",
                                          "waitGlobal", "fail", "finish"}}

Holders(s) == {t \in Task : s \in held[t]}

TypeOK ==
    /\ keys \in [Key -> Sema \cup {NoSema}]
    /\ avail \in [Semaphore -> Nat]
    /\ queue \in [Semaphore -> Seq(Task)]
    /\ held \in [Task -> SUBSET Semaphore]
    /\ pc \in [Task -> PC]
    /\ blocking \in SUBSET Task
    /\ keyOf \in [Task -> Key \cup {NoKey}]
    /\ semaOf \in [Task -> Sema \cup {NoSema}]
    /\ fired \in BOOLEAN
    /\ notified \in BOOLEAN
    /\ doomed \in SUBSET Task
    /\ metrics \in [Metric -> Nat]   \* an AtomicU64 that never wraps below 0
    /\ calls \in 0 .. MaxCalls
    /\ drops \in 0 .. MaxDrops

Init ==
    /\ keys = [k \in Key |-> NoSema]
    /\ avail = [s \in Semaphore |-> Limit(s)]
    /\ queue = [s \in Semaphore |-> <<>>]
    /\ held = [t \in Task |-> {}]
    /\ pc = [t \in Task |-> "idle"]
    /\ blocking = {}
    /\ keyOf = [t \in Task |-> NoKey]
    /\ semaOf = [t \in Task |-> NoSema]
    /\ fired = FALSE
    /\ notified = FALSE
    /\ doomed = {}
    /\ metrics = [m \in Metric |-> 0]
    /\ calls = 0
    /\ drops = 0

-----------------------------------------------------------------------------
(* Helpers.                                                                *)

Goto(t, label) == pc' = [pc EXCEPT ![t] = label]

Bump(m, by) == metrics' = [metrics EXCEPT ![m] = @ + by]

\* is_cancelled() of task t's token.
Cancelled(t) == fired /\ t \in TokenTask

\* The cancelled() future a parked acquire is polled with is ready.
Woken(t) == notified /\ t \in TokenTask

-----------------------------------------------------------------------------
(* tokio::sync::Semaphore.                                                 *)

\* A free permit is taken at once.
Take(t, s) ==
    /\ avail[s] > 0
    /\ avail' = [avail EXCEPT ![s] = @ - 1]
    /\ held' = [held EXCEPT ![t] = @ \cup {s}]
    /\ UNCHANGED queue

\* acquire_owned on an exhausted semaphore parks the task.
Park(t, s) ==
    /\ avail[s] = 0
    /\ queue' = [queue EXCEPT ![s] = Append(@, t)]
    /\ UNCHANGED <<avail, held>>

\* Dropping an OwnedSemaphorePermit.
Release(t, s) ==
    \/ /\ queue[s] = <<>>
       /\ avail' = [avail EXCEPT ![s] = @ + 1]
       /\ held' = [held EXCEPT ![t] = @ \ {s}]
       /\ UNCHANGED queue
    \/ /\ queue[s] # <<>>
       /\ held' = [held EXCEPT ![t] = @ \ {s}, ![Head(queue[s])] = @ \cup {s}]
       /\ queue' = [queue EXCEPT ![s] = Tail(@)]
       /\ UNCHANGED avail

\* Queue q without task t, which it holds at most once.
Without(q, t) ==
    IF \E i \in 1 .. Len(q) : q[i] = t
    THEN LET i == CHOOSE j \in 1 .. Len(q) : q[j] = t
         IN  [j \in 1 .. Len(q) - 1 |-> IF j < i THEN q[j] ELSE q[j + 1]]
    ELSE q

\* Dropping a future that waits for a permit.
Unpark(t) ==
    /\ queue' = [s \in Semaphore |-> Without(queue[s], t)]
    /\ UNCHANGED <<avail, held>>

-----------------------------------------------------------------------------
(* Calls, up to the global permit.                                         *)

FirstStep == IF PerKeyLimit = 0 THEN "takeGlobal" ELSE "lookup"

StartTry(t, k) ==
    /\ t \in TryTask
    /\ pc[t] = "idle"
    /\ calls < MaxCalls
    /\ calls' = calls + 1
    /\ Goto(t, FirstStep)
    /\ keyOf' = [keyOf EXCEPT ![t] = k]
    /\ UNCHANGED <<keys, avail, queue, held, blocking, semaOf, token, metrics, drops>>

\* Mutant of EnterWait: the call is not counted on entry.
EnterWaitUncounted == UNCHANGED metrics

EnterWait == Bump("waiting", 1)

\* acquire counts itself as waiting; its biased select! sees a token fired before.
StartAcquire(t, k) ==
    /\ t \in AcquireTask
    /\ pc[t] = "idle"
    /\ calls < MaxCalls
    /\ calls' = calls + 1
    /\ EnterWait
    /\ Goto(t, IF Cancelled(t) THEN "finish" ELSE FirstStep)
    /\ keyOf' = [keyOf EXCEPT ![t] = k]
    /\ blocking' = blocking \cup {t}
    /\ doomed' = IF Cancelled(t) THEN doomed \cup {t} ELSE doomed
    /\ UNCHANGED <<keys, avail, queue, held, semaOf, fired, notified, drops>>

\* A semaphore that no map entry and no call refers to any more.
Fresh(s) == (\A k \in Key : keys[k] # s) /\ (\A t \in Task : semaOf[t] # s)

\* Semaphore::new: which identity it gets makes no difference.
NewSema(k) == CHOOSE s \in Sema : Fresh(s) /\ s[1] = k

(* key_semaphore: the double check under the write lock makes it one step.   *)
FindSema(t) ==
    /\ pc[t] = "lookup"
    /\ keys[keyOf[t]] # NoSema
    /\ semaOf' = [semaOf EXCEPT ![t] = keys[keyOf[t]]]
    /\ Goto(t, "takeKey")
    /\ UNCHANGED <<keys, avail, queue, held, blocking, keyOf, token, metrics, calls, drops>>

\* Mutant of Untracked: no second look under the write lock.
UntrackedUnchecked(k) == TRUE

Untracked(k) == keys[k] = NoSema

CreateSema(t) ==
    /\ pc[t] = "lookup"
    /\ Untracked(keyOf[t])
    /\ \E s \in Sema :
        /\ Fresh(s) /\ s = NewSema(keyOf[t])
        /\ keys' = [keys EXCEPT ![keyOf[t]] = s]
        /\ semaOf' = [semaOf EXCEPT ![t] = s]
        /\ avail' = [avail EXCEPT ![s] = PerKeyLimit]
    /\ Goto(t, "takeKey")
    /\ UNCHANGED <<queue, held, blocking, keyOf, token, metrics, calls, drops>>

\* Mutant of GiveUp: a failing try_acquire forgets the permit it has.
GiveUpLeaks(t) ==
    Goto(t, "reject") /\ held' = [held EXCEPT ![t] = {}] /\ UNCHANGED <<avail, queue>>

\* try_acquire returns None; what it holds is dropped first.
GiveUp(t) == Goto(t, "reject") /\ UNCHANGED <<avail, queue, held>>

TakeKey(t) ==
    /\ pc[t] = "takeKey"
    /\ \/ Take(t, semaOf[t]) /\ Goto(t, "takeGlobal")
       \/ t \in blocking /\ Park(t, semaOf[t]) /\ Goto(t, "waitKey")
       \/ t \notin blocking /\ avail[semaOf[t]] = 0 /\ GiveUp(t)
    /\ UNCHANGED <<keys, blocking, keyOf, semaOf, token, metrics, calls, drops>>

TakeGlobal(t) ==
    /\ pc[t] = "takeGlobal"
    /\ \/ Take(t, Global) /\ Goto(t, IF t \in blocking THEN "finish" ELSE "grant")
       \/ t \in blocking /\ Park(t, Global) /\ Goto(t, "waitGlobal")
       \/ t \notin blocking /\ avail[Global] = 0 /\ GiveUp(t)
    /\ UNCHANGED <<keys, blocking, keyOf, semaOf, token, metrics, calls, drops>>

-----------------------------------------------------------------------------
(* Waiting in acquire.                                                     *)

\* The task is polled after its permit was handed over; the token may have fired
\* as long as its waiters are not notified.
Granted(t) ==
    /\ \/ pc[t] = "waitKey" /\ semaOf[t] \in held[t] /\ Goto(t, "takeGlobal")
       \/ pc[t] = "waitGlobal" /\ Global \in held[t] /\ Goto(t, "finish")
    /\ ~Woken(t)
    /\ UNCHANGED <<keys, avail, queue, held, blocking, keyOf, semaOf, token, metrics, calls, drops>>

\* Mutant of Cancellable: only the wait for the key's permit races the token.
CancellableKey(t) == pc[t] = "waitKey" /\ Woken(t)

Cancellable(t) == pc[t] \in {"waitKey", "waitGlobal"} /\ Woken(t)

\* race_cancel: the token wins over a permit that is ready.
CancelWait(t) ==
    /\ Cancellable(t)
    /\ Unpark(t)
    /\ Goto(t, "fail")
    /\ UNCHANGED <<keys, blocking, keyOf, semaOf, token, metrics, calls, drops>>

\* tokio::time::timeout fires while no permit is ready.
TimeoutWait(t) ==
    /\ \/ pc[t] = "waitKey" /\ semaOf[t] \notin held[t]
       \/ pc[t] = "waitGlobal" /\ Global \notin held[t]
    /\ Unpark(t)
    /\ Goto(t, "fail")
    /\ UNCHANGED <<keys, blocking, keyOf, semaOf, token, metrics, calls, drops>>

\* The caller drops the acquire future: nothing after the await runs.
DropAcquire(t) ==
    /\ pc[t] \in {"waitKey", "waitGlobal"}
    /\ drops < MaxDrops
    /\ drops' = drops + 1
    /\ Unpark(t)
    /\ Goto(t, "unwind")
    /\ UNCHANGED <<keys, blocking, keyOf, semaOf, token, metrics, calls>>

-----------------------------------------------------------------------------
(* The end of a call, and the permit.                                      *)

\* acquire is through with both waits: it no longer counts as waiting.
Finish(t) ==
    /\ pc[t] = "finish"
    /\ Bump("waiting", -1)
    /\ Goto(t, "check")
    /\ UNCHANGED <<keys, avail, queue, held, blocking, keyOf, semaOf, token, calls, drops>>

\* Mutant of LateCancel: no check after the wait.
LateCancelUnchecked(t) == FALSE

LateCancel(t) == Cancelled(t)

\* The late check, then outcome?: Cancelled, the error of a wait, or on to the permit.
LateCheck(t) ==
    /\ pc[t] = "check"
    /\ \/ LateCancel(t) /\ Bump("cancelled", 1) /\ Goto(t, "unwind")
       \/ ~LateCancel(t) /\ Global \in held[t] /\ Goto(t, "grant") /\ UNCHANGED metrics
       \/ ~LateCancel(t) /\ Global \notin held[t] /\ Goto(t, "unwind") /\ UNCHANGED metrics
    /\ UNCHANGED <<keys, avail, queue, held, blocking, keyOf, semaOf, token, calls, drops>>

\* Both calls count the permit and return it.
Grant(t) ==
    /\ pc[t] = "grant"
    /\ Bump("acquired", 1)
    /\ Goto(t, "holding")
    /\ UNCHANGED <<keys, avail, queue, held, blocking, keyOf, semaOf, token, calls, drops>>

\* Mutant of DropPermit: the drop is not counted.
DropPermitUncounted(t) ==
    /\ pc[t] = "holding"
    /\ Goto(t, "unwind")
    /\ UNCHANGED <<keys, avail, queue, held, blocking, keyOf, semaOf, token, metrics, calls, drops>>

\* ResourcePermit::drop; the two slots follow when the fields are dropped.
DropPermit(t) ==
    /\ pc[t] = "holding"
    /\ Bump("released", 1)
    /\ Goto(t, "unwind")
    /\ UNCHANGED <<keys, avail, queue, held, blocking, keyOf, semaOf, token, calls, drops>>

\* Mutant of ReleaseOne: the global slot is forgotten.
ReleaseKeyOnly(t) ==
    /\ pc[t] \in {"fail", "reject", "unwind"}
    /\ \E s \in held[t] \ {Global} : Release(t, s)
    /\ UNCHANGED <<keys, pc, blocking, keyOf, semaOf, token, metrics, calls, drops>>

\* The permits of a failing call, or of a dropped permit, go back one by one.
ReleaseOne(t) ==
    /\ pc[t] \in {"fail", "reject", "unwind"}
    /\ \E s \in held[t] : Release(t, s)
    /\ UNCHANGED <<keys, pc, blocking, keyOf, semaOf, token, metrics, calls, drops>>

\* A call returns: it no longer refers to its semaphore.
Return(t) ==
    /\ pc[t] \in {"fail", "reject", "unwind"}
    /\ held[t] = {}
    /\ semaOf' = [semaOf EXCEPT ![t] = NoSema]
    /\ \/ /\ pc[t] = "fail"
          /\ Goto(t, "finish")
          /\ UNCHANGED <<blocking, keyOf, doomed, metrics>>
       \/ /\ pc[t] # "fail"
          /\ Goto(t, "idle")
          /\ keyOf' = [keyOf EXCEPT ![t] = NoKey]
          /\ blocking' = blocking \ {t}
          /\ doomed' = doomed \ {t}
          /\ IF pc[t] = "reject" THEN Bump("try_rejected", 1) ELSE UNCHANGED metrics
    /\ UNCHANGED <<keys, avail, queue, held, fired, notified, calls, drops>>

-----------------------------------------------------------------------------

Idle(s) == avail[s] = PerKeyLimit

Reap(k) ==
    /\ keys[k] # NoSema
    /\ Idle(keys[k])
    /\ keys' = [keys EXCEPT ![k] = NoSema]
    /\ UNCHANGED <<avail, queue, held, pc, blocking, keyOf, semaOf, token, metrics, calls, drops>>

\* cancel(): the swap of the flag dooms every acquire that still has its late check
\* ahead; the waiters are notified in a step of their own.
Cancel ==
    /\ ~fired
    /\ fired' = TRUE
    /\ doomed' = {t \in InAcquire \cup {u \in blocking : pc[u] = "check"} : t \in TokenTask}
    /\ UNCHANGED <<keys, avail, queue, held, pc, blocking, keyOf, semaOf, notified, metrics, calls, drops>>

NotifyWaiters ==
    /\ fired /\ ~notified
    /\ notified' = TRUE
    /\ UNCHANGED <<keys, avail, queue, held, pc, blocking, keyOf, semaOf, fired, doomed, metrics, calls, drops>>

\* What the executor runs when the call is ready to make progress.
Poll(t) ==
    \/ FindSema(t) \/ CreateSema(t) \/ TakeKey(t) \/ TakeGlobal(t)
    \/ Granted(t) \/ CancelWait(t)
    \/ Finish(t) \/ LateCheck(t) \/ Grant(t) \/ ReleaseOne(t) \/ Return(t)

Next ==
    \/ \E t \in Task :
        \/ \E k \in Key : StartTry(t, k) \/ StartAcquire(t, k)
        \/ Poll(t)
        \/ TimeoutWait(t) \/ DropAcquire(t)
        \/ DropPermit(t)
    \/ \E k \in ReapKey : Reap(k)
    \/ Cancel \/ NotifyWaiters

Spec == Init /\ [][Next]_vars

\* The executor runs every ready call, and cancel() runs to its end; a holder may
\* keep its permit for ever.
Fairness == (\A t \in Task : WF_vars(Poll(t))) /\ WF_vars(NotifyWaiters)

FairSpec == Spec /\ Fairness

-----------------------------------------------------------------------------

(* No call path loses or invents a permit: for every semaphore, also one     *)
(* that reap_key dropped from the map while a call still refers to it, free  *)
(* permits and owned permits add up to its size.                            *)
PermitsConserved ==
    \A s \in Semaphore : avail[s] + Cardinality(Holders(s)) = Limit(s)

(* "a permit always holds both slots" (resource.rs): whoever got a permit    *)
(* owns the global slot and, unless per_key_limit is 0, the slot of the      *)
(* semaphore it looked up.                                                  *)
PermitHoldsBoth ==
    \A t \in Task : pc[t] = "holding" =>
        held[t] = {Global} \cup (IF PerKeyLimit = 0 THEN {} ELSE {semaOf[t]})

(* The counters follow the calls, with the leak the code has: acquired -     *)
(* released permits are out, and the gauge of waiting tasks is the number of *)
(* calls that wait plus one, for ever, for every acquire future that was     *)
(* dropped at an await, because fetch_sub (resource.rs:333) comes after it.  *)
(* So the gauge is not "Current tasks waiting" (resource.rs:82) once a       *)
(* future was dropped; but it never runs below them, and the AtomicU64       *)
(* never wraps.                                                             *)
MetricsBalance ==
    /\ metrics.acquired - metrics.released = Cardinality({t \in Task : pc[t] = "holding"})
    /\ metrics.waiting = Cardinality(InAcquire) + drops

(* A token that fires before an acquire's late check, or before the call,    *)
(* ends that call without a permit, wherever the call stands when it fires:  *)
(* queued, handed a permit it has not seen, granted between the flag and the *)
(* notification, or past its waits.  (A token that fires between the check   *)
(* and the return is not seen, and such a call is not doomed.)               *)
NoPermitAfterCancel == \A t \in doomed : pc[t] \notin {"grant", "holding"}

\* The atomic pool, as the callers see it.
Pool == INSTANCE PermitPool WITH
            owner <- [t \in Task |-> IF pc[t] = "holding" THEN {keyOf[t]} ELSE {}]

(* The limiter implements the pool it promises: however lookups, waits,      *)
(* timeouts and releases interleave, a permit is granted only while the      *)
(* global bound and the bound of its key leave room; the latter only for     *)
(* keys that are never reaped.                                              *)
ImplementsPool == Pool!Spec

PermitsAreDropped == \A t \in Task : []<>(pc[t] # "holding")

(* FIFO queues: as long as permits are dropped, whoever waits in acquire is  *)
(* served, even if no timeout ever fires.                                   *)
WaitersServed ==
    PermitsAreDropped =>
        \A t \in AcquireTask : pc[t] \in {"waitKey", "waitGlobal"} ~> pc[t] \in {"finish", "idle"}

(* "a queued task bails out on shutdown": once the token has fired, no       *)
(* acquire that passes it stays inside, even if no permit is ever dropped.  *)
CancelDrains == \A t \in TokenTask : fired ~> t \notin InAcquire
=============================================================================
