------------------------- MODULE CancellationScope -------------------------
(***************************************************************************)
(* Cancellation and bounded shutdown of a3net-resilience (cancellation.rs).*)
(*                                                                         *)
(* Workers are spawned through a scope and wait on its token; a shutdown   *)
(* fires the token (CancellationToken::cancel) and joins the scope: it     *)
(* takes a snapshot of the tracked tasks, collects the finished ones and   *)
(* aborts the rest at the deadline.                                        *)
(*                                                                         *)
(* tokio's Notify is modelled from its use: a Notified future completes    *)
(* once notify_waiters is called after the future was created.  An abort is *)
(* a request: the task ends at its next await, and join waits for that only *)
(* 50 ms per handle, so it may return before.                              *)
(***************************************************************************)
EXTENDS Integers, Sequences, FiniteSets

CONSTANTS Worker,    \* tasks spawned through the scope
          Stuck,     \* the workers that never look at the token
          Joiner,    \* callers of CancellationScope::shutdown
          Free,      \* the tasks mutex is unlocked
          Timeout    \* DEFAULT_SHUTDOWN_TIMEOUT, in ticks

ASSUME ScopeAssumption ==
    /\ Stuck \subseteq Worker
    /\ IsFiniteSet(Worker)
    /\ Free \notin Joiner
    /\ Timeout \in Nat

VARIABLES cancelled,  \* Inner::cancelled
          epoch,      \* calls of notify_waiters
          wpc,        \* where each worker stands in token.cancelled()
          seen,       \* the epoch each worker's Notified was created in
          pending,    \* workers spawn() has started and not yet tried to track
          tracked,    \* CancellationScope::tasks
          lock,       \* holder of the mutex around tasks
          jpc,        \* where each shutdown stands
          handles,    \* its JoinHandles still to be collected
          completed,  \* JoinSummary::completed
          aborted,    \* JoinSummary::aborted
          elapsed,    \* ticks since join began
          due         \* history: tasks the scope tracked when shutdown was called

token == <<cancelled, epoch>>
workers == <<wpc, seen, pending>>
summary == <<handles, completed, aborted>>
vars == <<token, workers, tracked, lock, jpc, summary, elapsed, due>>

WorkerPC == {"new", "stuck", "check", "create", "recheck", "park", "parked", "woken",
             "aborting", "done", "aborted"}
JoinPC == {"idle", "notify", "lock", "take", "drain", "done"}

Ended(w) == wpc[w] \in {"done", "aborted"}
Elements(seq) == {seq[i] : i \in 1 .. Len(seq)}

TypeOK ==
    /\ cancelled \in BOOLEAN
    /\ epoch \in Nat
    /\ wpc \in [Worker -> WorkerPC]
    /\ seen \in [Worker -> Nat]
    /\ pending \subseteq Worker
    /\ tracked \in Seq(Worker)
    /\ lock \in Joiner \cup {Free}
    /\ jpc \in [Joiner -> JoinPC]
    /\ handles \in [Joiner -> Seq(Worker)]
    /\ completed \in [Joiner -> 0 .. Cardinality(Worker)]
    /\ aborted \in [Joiner -> 0 .. Cardinality(Worker)]
    /\ elapsed \in [Joiner -> 0 .. Timeout]
    /\ due \in [Joiner -> SUBSET Worker]

Init ==
    /\ cancelled = FALSE
    /\ epoch = 0
    /\ wpc = [w \in Worker |-> "new"]
    /\ seen = [w \in Worker |-> 0]
    /\ pending = {}
    /\ tracked = <<>>
    /\ lock = Free
    /\ jpc = [j \in Joiner |-> "idle"]
    /\ handles = [j \in Joiner |-> <<>>]
    /\ completed = [j \in Joiner |-> 0]
    /\ aborted = [j \in Joiner |-> 0]
    /\ elapsed = [j \in Joiner |-> 0]
    /\ due = [j \in Joiner |-> {}]

-----------------------------------------------------------------------------
(* CancellationScope::spawn: the task runs from tokio::spawn on; try_lock   *)
(* tracks it only if the mutex is free.  Besides join, another spawn or     *)
(* tracked_count may hold it for a moment.                                 *)

Spawn(w) ==
    /\ wpc[w] = "new"
    /\ wpc' = [wpc EXCEPT ![w] = IF w \in Stuck THEN "stuck" ELSE "check"]
    /\ pending' = pending \cup {w}
    /\ UNCHANGED <<token, seen, tracked, lock, jpc, summary, elapsed, due>>

Track(w) ==
    /\ w \in pending
    /\ pending' = pending \ {w}
    /\ \/ lock = Free /\ tracked' = Append(tracked, w)
       \/ UNCHANGED tracked
    /\ UNCHANGED <<token, wpc, seen, lock, jpc, summary, elapsed, due>>

-----------------------------------------------------------------------------
(* CancellationToken::cancelled, awaited by a worker.                      *)

Worked(w, from, to) ==
    /\ wpc[w] = from
    /\ wpc' = [wpc EXCEPT ![w] = to]
    /\ UNCHANGED <<token, pending, tracked, lock, jpc, summary, elapsed, due>>

\* The fast path, and the two looks at the flag around the await.
CheckFlag(w) ==
    /\ \/ cancelled /\ \E from \in {"check", "recheck", "woken"} : Worked(w, from, "done")
       \/ ~cancelled /\ Worked(w, "check", "create")
       \/ ~cancelled /\ Worked(w, "recheck", "park")
       \/ ~cancelled /\ Worked(w, "woken", "create")
    /\ UNCHANGED seen

\* let notified = self.inner.notify.notified()
CreateNotified(w) ==
    /\ Worked(w, "create", "recheck")
    /\ seen' = [seen EXCEPT ![w] = epoch]

\* Mutant of Park: the future is created only now, after the flag was looked at.
ParkLate(w) == Worked(w, "park", "parked") /\ seen' = [seen EXCEPT ![w] = epoch]

\* notified.await
Park(w) == Worked(w, "park", "parked") /\ UNCHANGED seen

Wake(w) ==
    /\ epoch # seen[w]
    /\ Worked(w, "parked", "woken")
    /\ UNCHANGED seen

-----------------------------------------------------------------------------
(* CancellationScope::shutdown: cancel, then join.                         *)

Swap(j) == jpc' = [jpc EXCEPT ![j] = IF cancelled THEN "lock" ELSE "notify"]

Cancel(j) ==
    /\ jpc[j] = "idle"
    /\ cancelled' = TRUE
    /\ Swap(j)
    /\ due' = [due EXCEPT ![j] = Elements(tracked) \cup UNION {Elements(handles[i]) : i \in Joiner}]
    /\ UNCHANGED <<epoch, workers, tracked, lock, summary, elapsed>>

NotifyWaiters(j) ==
    /\ jpc[j] = "notify"
    /\ epoch' = epoch + 1
    /\ jpc' = [jpc EXCEPT ![j] = "lock"]
    /\ UNCHANGED <<cancelled, workers, tracked, lock, summary, elapsed, due>>

LockTasks(j) ==
    /\ jpc[j] = "lock"
    /\ lock = Free
    /\ lock' = j
    /\ jpc' = [jpc EXCEPT ![j] = "take"]
    /\ UNCHANGED <<token, workers, tracked, summary, elapsed, due>>

\* What std::mem::take leaves in tasks.
Remaining == <<>>

\* The snapshot is taken under the lock; an empty one returns at once.
TakeSnapshot(j) ==
    /\ jpc[j] = "take"
    /\ handles' = [handles EXCEPT ![j] = tracked]
    /\ tracked' = Remaining
    /\ lock' = Free
    /\ jpc' = [jpc EXCEPT ![j] = IF tracked = <<>> THEN "done" ELSE "drain"]
    /\ UNCHANGED <<token, workers, completed, aborted, elapsed, due>>

\* poll_some: it looks at the last handle, and at others only once that one is finished.
Collect(j) ==
    /\ jpc[j] = "drain"
    /\ handles[j] # <<>>
    /\ elapsed[j] < Timeout
    /\ Ended(handles[j][Len(handles[j])])
    /\ handles' = [handles EXCEPT ![j] = SubSeq(@, 1, Len(@) - 1)]
    /\ completed' = [completed EXCEPT ![j] = @ + 1]
    /\ UNCHANGED <<token, workers, tracked, lock, jpc, aborted, elapsed, due>>

\* Mutant of AbortedNow: one handle is left out of the abort loop.
AbortedButFirst(j) == Elements(Tail(handles[j]))

AbortedNow(j) == Elements(handles[j])

\* Mutant of Undrained: the handles stay in the list after the abort.
UndrainedAll(j) == handles[j]

\* What handles.drain(..) leaves for the loop.
Undrained(j) == <<>>

\* Mutant of Expired: the deadline is never looked at.
ExpiredNever(j) == FALSE

Expired(j) == elapsed[j] >= Timeout

AbortRest(j) ==
    /\ jpc[j] = "drain"
    /\ handles[j] # <<>>
    /\ Expired(j)
    /\ aborted' = [aborted EXCEPT ![j] = @ + Len(handles[j])]
    /\ wpc' = [w \in Worker |-> IF w \in AbortedNow(j) /\ ~Ended(w) THEN "aborting" ELSE wpc[w]]
    /\ handles' = [handles EXCEPT ![j] = Undrained(j)]
    /\ UNCHANGED <<token, seen, pending, tracked, lock, jpc, completed, elapsed, due>>

\* The aborted task reaches an await.
AbortLands(w) == Worked(w, "aborting", "aborted") /\ UNCHANGED seen

JoinReturns(j) ==
    /\ jpc[j] = "drain"
    /\ handles[j] = <<>>
    /\ jpc' = [jpc EXCEPT ![j] = "done"]
    /\ UNCHANGED <<token, workers, tracked, lock, summary, elapsed, due>>

\* Time passes for the joins in progress.
Tick(j) ==
    /\ jpc[j] \in {"lock", "take", "drain"}
    /\ elapsed[j] < Timeout
    /\ elapsed' = [elapsed EXCEPT ![j] = @ + 1]
    /\ UNCHANGED <<token, workers, tracked, lock, jpc, summary, due>>

-----------------------------------------------------------------------------

WorkerStep(w) == CheckFlag(w) \/ CreateNotified(w) \/ Park(w) \/ Wake(w) \/ AbortLands(w)

JoinStep(j) ==
    \/ NotifyWaiters(j) \/ LockTasks(j) \/ TakeSnapshot(j)
    \/ Collect(j) \/ AbortRest(j) \/ JoinReturns(j)

Next ==
    \/ \E w \in Worker : Spawn(w) \/ Track(w) \/ WorkerStep(w)
    \/ \E j \in Joiner : Cancel(j) \/ JoinStep(j) \/ Tick(j)

Spec == Init /\ [][Next]_vars

\* The runtime polls every ready task, and time passes; a stuck task need not reach an await.
Fairness ==
    /\ \A w \in Worker \ Stuck : WF_vars(WorkerStep(w))
    /\ \A j \in Joiner : WF_vars(JoinStep(j)) /\ WF_vars(Tick(j))

FairSpec == Spec /\ Fairness

-----------------------------------------------------------------------------

(* "Wait for all tracked tasks to finish, aborting stragglers"               *)
(* (cancellation.rs:313): when the last of the concurrent shutdowns returns, *)
(* every task that was tracked when one of them was called has finished or   *)
(* been told to abort, whichever of them took it over.  A shutdown that      *)
(* returns earlier, and a task that spawn could not track, promise nothing.  *)
JoinMeansEnded ==
    (\A j \in Joiner : jpc[j] \in {"idle", "done"}) =>
        \A j \in Joiner : \A w \in due[j] : Ended(w) \/ wpc[w] = "aborting"

(* "a stuck task can never block shutdown indefinitely": every shutdown      *)
(* that was called returns.                                                 *)
ShutdownReturns == \A j \in Joiner : jpc[j] # "idle" ~> jpc[j] = "done"

(* No wakeup is lost: once the token fired, every worker that awaits         *)
(* cancelled() ends, however its check and the notification interleave.     *)
CancelWakes ==
    \A w \in Worker \ Stuck : cancelled /\ wpc[w] # "new" ~> Ended(w)
=============================================================================
