--------------------------- MODULE CircuitBreaker ---------------------------
(***************************************************************************)
(* The circuit breaker of a3net-resilience (circuit_breaker.rs), shared by *)
(* the clones of a ResilientHttpClient (http.rs), each of whose get calls  *)
(* goes through the retry loop of retry.rs.                                *)
(*                                                                         *)
(* Every method of the breaker runs under one write lock, so each is one   *)
(* step.  A get is not: it asks for admission, performs up to max_attempts *)
(* attempts, and only then records one outcome; results of calls admitted  *)
(* earlier therefore reach the breaker in whatever state it is by then.    *)
(*                                                                         *)
(* An Instant is represented by its elapsed() value, saturated one past    *)
(* the last value that a comparison in the code can tell apart.            *)
(***************************************************************************)
EXTENDS Integers

CONSTANTS Client,            \* tasks that call ResilientHttpClient::get
          FailureThreshold,  \* CircuitBreakerConfig::failure_threshold
          SuccessThreshold,  \* CircuitBreakerConfig::success_threshold
          Timeout,           \* CircuitBreakerConfig::timeout, in ticks
          Window,            \* CircuitBreakerConfig::window_duration, in ticks
          MaxAttempts,       \* RetryConfig::max_attempts
          MaxDrops           \* bound: get futures dropped before they record

\* A u32 threshold may be 0; max_attempts = 0 panics (retry.rs "max_attempts >= 1").
ASSUME ConfigAssumption ==
    /\ FailureThreshold \in Nat
    /\ SuccessThreshold \in Nat
    /\ Timeout \in Nat
    /\ Window \in Nat
    /\ MaxAttempts \in Nat \ {0}
    /\ MaxDrops \in Nat

None == -1

VARIABLES state,      \* Inner::state
          failures,   \* Inner::failures
          successes,  \* Inner::successes
          windowAge,  \* window_start.elapsed(), saturated at Window + 1
          openedAge,  \* opened_at.elapsed(), saturated at Timeout, or None
          pc,         \* where each client's get stands
          attempt,    \* attempts its retry loop has finished
          healthy,    \* the remote service answers from now on
          drops       \* get futures dropped so far

breaker == <<state, failures, successes, windowAge, openedAge>>
vars == <<breaker, pc, attempt, healthy, drops>>

PC == {"idle", "sending", "ok", "err"}

TypeOK ==
    /\ state \in {"Closed", "Open", "HalfOpen"}
    /\ failures \in Nat
    /\ successes \in Nat
    /\ windowAge \in 0 .. Window + 1
    /\ openedAge \in 0 .. Timeout \cup {None}
    /\ pc \in [Client -> PC]
    /\ attempt \in [Client -> 0 .. MaxAttempts]
    /\ healthy \in BOOLEAN
    /\ drops \in 0 .. MaxDrops

Init ==
    /\ state = "Closed"
    /\ failures = 0
    /\ successes = 0
    /\ windowAge = 0
    /\ openedAge = None
    /\ pc = [c \in Client |-> "idle"]
    /\ attempt = [c \in Client |-> 0]
    /\ healthy = FALSE
    /\ drops = 0

-----------------------------------------------------------------------------
(* CircuitBreaker::allow_request, called first thing by get.  A call that   *)
(* no disjunct admits fails fast: it returns false and changes nothing.     *)

Admit(c) ==
    /\ pc[c] = "idle"
    /\ pc' = [pc EXCEPT ![c] = "sending"]
    /\ attempt' = [attempt EXCEPT ![c] = 0]
    /\ UNCHANGED <<healthy, drops>>

AllowClosed(c) ==
    /\ state = "Closed"
    /\ Admit(c)
    /\ UNCHANGED breaker

\* Mutant of DwellElapsed: the boundary is off by one tick.
DwellElapsedEarly == openedAge + 1 >= Timeout

DwellElapsed == openedAge >= Timeout

\* The first caller after the dwell time turns Open into HalfOpen.
AllowOpen(c) ==
    /\ state = "Open"
    /\ DwellElapsed
    /\ state' = "HalfOpen"
    /\ successes' = 0
    /\ Admit(c)
    /\ UNCHANGED <<failures, windowAge, openedAge>>

\* Mutant of MayProbe: only the caller that turned the breaker HalfOpen may probe.
MayProbeNever == FALSE

MayProbe == successes = 0

AllowHalfOpen(c) ==
    /\ state = "HalfOpen"
    /\ MayProbe
    /\ Admit(c)
    /\ UNCHANGED breaker

-----------------------------------------------------------------------------
(* retry_with_backoff: the attempts of an admitted get.                    *)

AttemptOk(c) ==
    /\ pc[c] = "sending"
    /\ pc' = [pc EXCEPT ![c] = "ok"]
    /\ attempt' = [attempt EXCEPT ![c] = @ + 1]
    /\ UNCHANGED <<breaker, healthy, drops>>

\* Mutant of AttemptErr: the loop runs 0..=max_attempts.
AttemptErrOneMore(c) ==
    /\ pc[c] = "sending"
    /\ ~healthy
    /\ attempt' = [attempt EXCEPT ![c] = @ + 1]
    /\ pc' = [pc EXCEPT ![c] = IF attempt[c] >= MaxAttempts THEN "err" ELSE "sending"]
    /\ UNCHANGED <<breaker, healthy, drops>>

AttemptErr(c) ==
    /\ pc[c] = "sending"
    /\ ~healthy
    /\ attempt' = [attempt EXCEPT ![c] = @ + 1]
    /\ pc' = [pc EXCEPT ![c] = IF attempt[c] + 1 >= MaxAttempts THEN "err" ELSE "sending"]
    /\ UNCHANGED <<breaker, healthy, drops>>

\* The caller drops the future (a timeout or select! around get): no outcome is recorded.
DropGet(c) ==
    /\ pc[c] # "idle"
    /\ drops < MaxDrops
    /\ drops' = drops + 1
    /\ pc' = [pc EXCEPT ![c] = "idle"]
    /\ UNCHANGED <<breaker, attempt, healthy>>

-----------------------------------------------------------------------------
(* CircuitBreaker::record_success and record_failure, one call per get.    *)

EndGet(c) ==
    /\ pc' = [pc EXCEPT ![c] = "idle"]
    /\ UNCHANGED <<attempt, healthy, drops>>

\* Mutant of Close: the failures that tripped the breaker are remembered.
CloseKeepsFailures ==
    state' = "Closed" /\ openedAge' = None /\ UNCHANGED failures

Close == state' = "Closed" /\ failures' = 0 /\ openedAge' = None

Trip == state' = "Open" /\ openedAge' = 0

RecordSuccessHalfOpen(c) ==
    /\ pc[c] = "ok"
    /\ state = "HalfOpen"
    /\ successes' = successes + 1
    /\ IF successes' >= SuccessThreshold THEN Close ELSE UNCHANGED <<state, failures, openedAge>>
    /\ EndGet(c)
    /\ UNCHANGED windowAge

RecordSuccessClosed(c) ==
    /\ pc[c] = "ok"
    /\ state = "Closed"
    /\ failures' = 0
    /\ windowAge' = 0
    /\ EndGet(c)
    /\ UNCHANGED <<state, successes, openedAge>>

WindowElapsed == windowAge > Window

RecordFailureClosed(c) ==
    /\ pc[c] = "err"
    /\ state = "Closed"
    /\ failures' = (IF WindowElapsed THEN 0 ELSE failures) + 1
    /\ windowAge' = IF WindowElapsed THEN 0 ELSE windowAge
    /\ IF failures' >= FailureThreshold THEN Trip ELSE UNCHANGED <<state, openedAge>>
    /\ EndGet(c)
    /\ UNCHANGED successes

RecordFailureHalfOpen(c) ==
    /\ pc[c] = "err"
    /\ state = "HalfOpen"
    /\ Trip
    /\ EndGet(c)
    /\ UNCHANGED <<failures, successes, windowAge>>

\* Mutant of LateResult: a late outcome restarts the dwell time.
LateResultRestartsDwell ==
    openedAge' = 0 /\ UNCHANGED <<state, failures, successes, windowAge>>

LateResult == UNCHANGED breaker

\* Outcomes that reach an Open breaker, of calls admitted before it tripped.
RecordOpen(c) ==
    /\ pc[c] \in {"ok", "err"}
    /\ state = "Open"
    /\ LateResult
    /\ EndGet(c)

-----------------------------------------------------------------------------
(* Environment: the monotonic clock, and the remote service recovering.    *)

Tick ==
    /\ windowAge' = IF windowAge > Window THEN windowAge ELSE windowAge + 1
    /\ openedAge' = IF openedAge \in {None, Timeout} THEN openedAge ELSE openedAge + 1
    /\ UNCHANGED <<state, failures, successes, pc, attempt, healthy, drops>>

Heal ==
    /\ ~healthy
    /\ healthy' = TRUE
    /\ UNCHANGED <<breaker, pc, attempt, drops>>

-----------------------------------------------------------------------------

Step(c) ==
    \/ AllowClosed(c) \/ AllowOpen(c) \/ AllowHalfOpen(c)
    \/ AttemptOk(c) \/ AttemptErr(c)
    \/ RecordSuccessHalfOpen(c) \/ RecordSuccessClosed(c)
    \/ RecordFailureClosed(c) \/ RecordFailureHalfOpen(c)
    \/ RecordOpen(c)

Next ==
    \/ \E c \in Client : Step(c) \/ DropGet(c)
    \/ Tick
    \/ Heal

Spec == Init /\ [][Next]_vars

\* Callers keep calling, every attempt ends (request_timeout) and time passes.
Fairness == WF_vars(Tick) /\ \A c \in Client : WF_vars(Step(c))

FairSpec == Spec /\ Fairness

-----------------------------------------------------------------------------

(* While the dwell time that began with the last trip has not elapsed the   *)
(* breaker is Open, whatever results of earlier calls arrive meanwhile: no  *)
(* late record_success may close it and no caller may turn it HalfOpen.     *)
CooldownHolds ==
    openedAge # None /\ openedAge < Timeout => state = "Open"

(* opened_at is set exactly while the breaker is not Closed, so the          *)
(* unwrap_or_default in allow_request never supplies an elapsed of zero.    *)
OpenedAtSet == state # "Closed" <=> openedAge # None

(* The failure count of a Closed breaker is below the threshold: a recovery *)
(* through HalfOpen has forgotten the failures that tripped it, and no path *)
(* leaves a Closed breaker that should already have tripped.                *)
ClosedBelowThreshold ==
    state = "Closed" /\ FailureThreshold > 0 => failures < FailureThreshold

(* Failures of calls admitted before the trip do not push the recovery out: *)
(* record_failure on an Open breaker leaves opened_at alone.                *)
DwellNotExtended ==
    [][state = "Open" /\ state' = "Open" => openedAge' >= openedAge]_vars

(* Once the service answers and callers keep calling, the breaker closes.   *)
Recovers == healthy ~> state = "Closed"
=============================================================================
