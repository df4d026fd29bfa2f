------------------------ MODULE CircuitBreakerProofs ------------------------
(***************************************************************************)
(* The breaker's safety for every number of callers and every              *)
(* configuration.  CooldownHolds and ClosedBelowThreshold are not          *)
(* inductive alone: that no late outcome leaves a Closed breaker inside    *)
(* its dwell time needs OpenedAtSet, and the bound on attempts in TypeOK   *)
(* needs a get that is still sending to have an attempt left.              *)
(***************************************************************************)
EXTENDS CircuitBreaker, TLAPS

AttemptsLeft == \A c \in Client : pc[c] = "sending" => attempt[c] < MaxAttempts

IInv == TypeOK /\ AttemptsLeft /\ OpenedAtSet /\ CooldownHolds /\ ClosedBelowThreshold

(* A newly built breaker (Inner::new) satisfies the invariant.              *)
LEMMA InitIInv == Init => IInv
<1> SUFFICES ASSUME Init PROVE IInv
    OBVIOUS
<1> USE ConfigAssumption DEF Init, None
<1>1. TypeOK
  <2>1. healthy \in BOOLEAN
    OBVIOUS
  <2>2. /\ pc \in [Client -> PC]
        /\ attempt \in [Client -> 0 .. MaxAttempts]
    BY DEF PC
  <2>3. /\ windowAge \in 0 .. Window + 1
        /\ openedAge \in 0 .. Timeout \cup {None}
        /\ drops \in 0 .. MaxDrops
    OBVIOUS
  <2> QED
    BY <2>1, <2>2, <2>3 DEF TypeOK
<1>2. AttemptsLeft
  BY DEF AttemptsLeft
<1>3. OpenedAtSet /\ CooldownHolds
  BY DEF OpenedAtSet, CooldownHolds
<1>4. ClosedBelowThreshold
  BY DEF ClosedBelowThreshold
<1> QED
  BY <1>1, <1>2, <1>3, <1>4 DEF IInv

(* Every method of the breaker, step of a get and clock tick preserves it.  *)
LEMMA NextIInv == IInv /\ [Next]_vars => IInv'
<1> SUFFICES ASSUME IInv, [Next]_vars PROVE IInv'
    OBVIOUS
<1> USE ConfigAssumption
    DEF IInv, TypeOK, AttemptsLeft, OpenedAtSet, CooldownHolds, ClosedBelowThreshold, PC, None, breaker
<1>1. ASSUME NEW c \in Client, AllowClosed(c) PROVE IInv'
  BY <1>1 DEF AllowClosed, Admit
<1>2. ASSUME NEW c \in Client, AllowOpen(c) PROVE IInv'
  BY <1>2 DEF AllowOpen, Admit, DwellElapsed
<1>3. ASSUME NEW c \in Client, AllowHalfOpen(c) PROVE IInv'
  BY <1>3 DEF AllowHalfOpen, Admit
<1>4. ASSUME NEW c \in Client, AttemptOk(c) PROVE IInv'
  BY <1>4 DEF AttemptOk
<1>5. ASSUME NEW c \in Client, AttemptErr(c) PROVE IInv'
  BY <1>5 DEF AttemptErr
<1>6. ASSUME NEW c \in Client, RecordSuccessHalfOpen(c) PROVE IInv'
  BY <1>6 DEF RecordSuccessHalfOpen, Close, EndGet
<1>7. ASSUME NEW c \in Client, RecordSuccessClosed(c) PROVE IInv'
  BY <1>7 DEF RecordSuccessClosed, EndGet
<1>8. ASSUME NEW c \in Client, RecordFailureClosed(c) PROVE IInv'
  BY <1>8 DEF RecordFailureClosed, Trip, WindowElapsed, EndGet
<1>9. ASSUME NEW c \in Client, RecordFailureHalfOpen(c) PROVE IInv'
  BY <1>9 DEF RecordFailureHalfOpen, Trip, EndGet
<1>10. ASSUME NEW c \in Client, RecordOpen(c) PROVE IInv'
  BY <1>10 DEF RecordOpen, LateResult, EndGet
<1>11. ASSUME NEW c \in Client, DropGet(c) PROVE IInv'
  BY <1>11 DEF DropGet
<1>12. CASE Tick
  BY <1>12 DEF Tick
<1>13. CASE Heal
  BY <1>13 DEF Heal
<1>14. CASE UNCHANGED vars
  BY <1>14 DEF vars
<1> QED
  BY <1>1, <1>2, <1>3, <1>4, <1>5, <1>6, <1>7, <1>8, <1>9, <1>10, <1>11,
     <1>12, <1>13, <1>14 DEF Next, Step

(* The inductive invariant holds in every reachable state of the breaker.   *)
THEOREM Invariance == Spec => []IInv
  BY InitIInv, NextIInv, PTL DEF Spec

(* Type correctness: in particular no retry loop exceeds max_attempts.      *)
THEOREM TypeCorrect == Spec => []TypeOK
<1>1. IInv => TypeOK
  BY DEF IInv
<1> QED
  BY <1>1, Invariance, PTL

(* After a trip the breaker stays Open for the whole dwell time, for every   *)
(* configuration and whatever late outcomes arrive.                         *)
THEOREM Cooldown == Spec => []CooldownHolds
<1>1. IInv => CooldownHolds
  BY DEF IInv
<1> QED
  BY <1>1, Invariance, PTL

(* A Closed breaker has counted fewer failures than failure_threshold.      *)
THEOREM Threshold == Spec => []ClosedBelowThreshold
<1>1. IInv => ClosedBelowThreshold
  BY DEF IInv
<1> QED
  BY <1>1, Invariance, PTL

(* While the breaker stays Open its dwell time only runs on: no outcome of a *)
(* call admitted before the trip sets opened_at again.                      *)
THEOREM DwellKept == Spec => DwellNotExtended
<1>1. ASSUME IInv, [Next]_vars, state = "Open", state' = "Open"
      PROVE  openedAge' >= openedAge
  <2>0. openedAge \in 0 .. Timeout
    BY <1>1 DEF IInv, TypeOK, OpenedAtSet
  <2>1. ASSUME NEW c \in Client, AllowClosed(c) \/ AllowOpen(c) \/ AllowHalfOpen(c)
        PROVE  FALSE
    BY <1>1, <2>1 DEF AllowClosed, AllowOpen, AllowHalfOpen
  <2>2. ASSUME NEW c \in Client,
               \/ RecordSuccessHalfOpen(c) \/ RecordSuccessClosed(c)
               \/ RecordFailureClosed(c) \/ RecordFailureHalfOpen(c)
        PROVE  FALSE
    BY <1>1, <2>2 DEF RecordSuccessHalfOpen, RecordSuccessClosed,
         RecordFailureClosed, RecordFailureHalfOpen
  <2>3. ASSUME NEW c \in Client, RecordOpen(c) \/ AttemptOk(c) \/ AttemptErr(c) \/ DropGet(c)
        PROVE  openedAge' = openedAge
    BY <2>3 DEF RecordOpen, LateResult, AttemptOk, AttemptErr, DropGet, breaker
  <2>4. CASE Tick
    BY <2>0, <2>4, ConfigAssumption DEF Tick
  <2>5. CASE Heal \/ UNCHANGED vars
    BY <2>0, <2>5, ConfigAssumption DEF Heal, vars, breaker
  <2>6. openedAge' = openedAge => openedAge' >= openedAge
    BY <2>0, ConfigAssumption
  <2> QED
    BY <1>1, <2>1, <2>2, <2>3, <2>4, <2>5, <2>6 DEF Next, Step
<1>2. IInv /\ [Next]_vars =>
        [state = "Open" /\ state' = "Open" => openedAge' >= openedAge]_vars
  BY <1>1
<1> QED
  BY <1>2, Invariance, PTL DEF Spec, DwellNotExtended
=============================================================================
