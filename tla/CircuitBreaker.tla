--------------------------- MODULE CircuitBreaker ---------------------------
(***************************************************************************)
(* One provider's breaker of the TypeScript gateway                        *)
(* (osterdops/src/lib/gateway/circuit-breaker.ts, class CircuitBreaker) as  *)
(* a record, and its methods as functions of that record and the clock.    *)
(* A method of the class runs without an await, so it is one function      *)
(* here; the module has no variables of its own.                           *)
(***************************************************************************)
EXTENDS Integers, Sequences, FiniteSets

CONSTANTS
    FailureThreshold,          \* options.failureThreshold, 5 by default
    RecoveryTime,              \* options.recoveryTimeMs, 30 s
    HalfOpenSuccessThreshold,  \* options.halfOpenSuccessThreshold, 2
    MonitoringWindow           \* options.monitoringWindowMs, 60 s

ASSUME BreakerAssumption ==
    /\ FailureThreshold \in Nat \ {0}
    /\ RecoveryTime \in Nat
    /\ HalfOpenSuccessThreshold \in Nat \ {0}
    /\ MonitoringWindow \in Nat

CircuitState == {"CLOSED", "OPEN", "HALF_OPEN"}

Breaker == [state             : CircuitState,
            failureTimestamps : Seq(Nat),
            halfOpenSuccesses : Nat,
            lastStateChange   : Nat]

NewBreaker(now) == [state             |-> "CLOSED",
                    failureTimestamps |-> <<>>,
                    halfOpenSuccesses |-> 0,
                    lastStateChange   |-> now]

-----------------------------------------------------------------------------
\* A transition to the present state keeps lastStateChange.
TransitionTo(b, newState, now) ==
    IF b.state = newState THEN b
    ELSE [b EXCEPT !.state = newState, !.lastStateChange = now]

\* A reset that forgets the probe counter.
ResetFailuresOnly(b) == [b EXCEPT !.failureTimestamps = <<>>]

Reset(b) == [b EXCEPT !.failureTimestamps = <<>>, !.halfOpenSuccesses = 0]

\* A window that nothing leaves.
PruneNothing(b, now) == b

\* Timestamps are pushed in clock order, so the filter drops a prefix.
PruneOldFailures(b, now) ==
    LET ts    == b.failureTimestamps
        stale == Cardinality({i \in 1..Len(ts) : ts[i] < now - MonitoringWindow})
    IN  [b EXCEPT !.failureTimestamps = SubSeq(ts, stale + 1, Len(ts))]

\* Reading the state is what moves an OPEN breaker on: there is no timer.
GetState(b, now) ==
    IF b.state = "OPEN" /\ now - b.lastStateChange >= RecoveryTime
    THEN TransitionTo(b, "HALF_OPEN", now)
    ELSE b

CanExecute(b, now) == GetState(b, now).state \in {"CLOSED", "HALF_OPEN"}

\* Any success closes the breaker, a late answer in OPEN too.
RecordSuccessAlways(b, now) == Reset(TransitionTo(GetState(b, now), "CLOSED", now))

RecordSuccess(b, now) ==
    LET cur     == GetState(b, now)
        counted == [cur EXCEPT !.halfOpenSuccesses = @ + 1]
    IN  CASE cur.state = "HALF_OPEN" ->
               IF counted.halfOpenSuccesses >= HalfOpenSuccessThreshold
               THEN Reset(TransitionTo(counted, "CLOSED", now))
               ELSE counted
          [] cur.state = "CLOSED" -> PruneOldFailures(cur, now)
          [] OTHER -> cur

\* Reopening from HALF_OPEN keeps halfOpenSuccesses and the timestamps.
RecordFailure(b, now) ==
    LET cur    == GetState(b, now)
        pushed == PruneOldFailures(
                    [cur EXCEPT !.failureTimestamps = Append(@, now)], now)
    IN  CASE cur.state = "HALF_OPEN" -> TransitionTo(cur, "OPEN", now)
          [] cur.state = "CLOSED" ->
               IF Len(pushed.failureTimestamps) >= FailureThreshold
               THEN TransitionTo(pushed, "OPEN", now)
               ELSE pushed
          [] OTHER -> cur
=============================================================================
