------------------------- MODULE GatewayCallsProofs -------------------------
(***************************************************************************)
(* Theorems about GatewayCalls, for every number of providers and requests, *)
(* every threshold and every retry limit.  The lemmas about one breaker     *)
(* come first: each method keeps a breaker well typed and consistent, and   *)
(* changes its gate only as ProviderGate allows.                            *)
(***************************************************************************)
EXTENDS GatewayCalls, TLAPS, SequenceTheorems, FiniteSetTheorems

USE BreakerAssumption DEF BreakerAssumption

LEMMA IntervalCardinality ==
    ASSUME NEW n \in Nat
    PROVE  IsFiniteSet(1..n) /\ Cardinality(1..n) = n
<1>1. /\ IsFiniteSet(1..n)
      /\ Cardinality(1..n) = IF 1 > n THEN 0 ELSE n - 1 + 1
  <2>1. 1 \in Int /\ n \in Int
    OBVIOUS
  <2> QED BY <2>1, FS_Interval
<1> QED BY <1>1

\* Pruning keeps the type, adds no timestamp and touches nothing else.
LEMMA PruneLemma ==
    ASSUME NEW b \in Breaker, NEW t \in Nat
    PROVE  LET c == PruneOldFailures(b, t) IN
           /\ c \in Breaker
           /\ c.state = b.state
           /\ c.halfOpenSuccesses = b.halfOpenSuccesses
           /\ c.lastStateChange = b.lastStateChange
           /\ Len(c.failureTimestamps) <= Len(b.failureTimestamps)
<1> DEFINE ts    == b.failureTimestamps
           Old   == {i \in 1..Len(ts) : ts[i] < t - MonitoringWindow}
           stale == Cardinality(Old)
           kept  == SubSeq(ts, stale + 1, Len(ts))
<1>1. ts \in Seq(Nat) /\ Len(ts) \in Nat
  BY DEF Breaker
<1>2. stale \in Nat
  <2>1. IsFiniteSet(1..Len(ts))
    BY <1>1, FS_Interval
  <2>2. IsFiniteSet(Old)
    BY <2>1, FS_Subset
  <2> QED BY <2>2, FS_CardinalityType
<1>3. \A i \in stale + 1 .. Len(ts) : ts[i] \in Nat
  BY <1>1, <1>2, ElementOfSeq
<1>4. kept \in Seq(Nat) /\ Len(kept) <= Len(ts)
  <2> HIDE DEF stale
  <2>1. /\ SubSeq(ts, stale + 1, Len(ts)) \in Seq(Nat)
        /\ Len(SubSeq(ts, stale + 1, Len(ts)))
             = IF stale + 1 <= Len(ts) THEN Len(ts) - (stale + 1) + 1 ELSE 0
    BY <1>1, <1>2, <1>3, SubSeqProperties
  <2> QED BY <1>1, <1>2, <2>1
<1>5. PruneOldFailures(b, t) = [b EXCEPT !.failureTimestamps = kept]
  BY DEF PruneOldFailures
<1> HIDE DEF kept
<1> QED BY <1>4, <1>5 DEF Breaker

\* Reading the state releases a rested breaker and does nothing else.
LEMMA GetStateLemma ==
    ASSUME NEW b \in Breaker, NEW t \in Nat, Consistent(b, t)
    PROVE  /\ GetState(b, t) \in Breaker
           /\ Consistent(GetState(b, t), t)
           /\ \/ GetState(b, t) = b
              \/ /\ b.state = "OPEN"
                 /\ t - b.lastStateChange >= RecoveryTime
                 /\ GetState(b, t).state = "HALF_OPEN"
                 /\ GetState(b, t).lastStateChange = t
<1>1. CASE b.state = "OPEN" /\ t - b.lastStateChange >= RecoveryTime
  <2>1. GetState(b, t) = [b EXCEPT !.state = "HALF_OPEN", !.lastStateChange = t]
    BY <1>1 DEF GetState, TransitionTo
  <2>2. /\ GetState(b, t) \in Breaker
        /\ GetState(b, t).state = "HALF_OPEN"
        /\ GetState(b, t).lastStateChange = t
        /\ GetState(b, t).halfOpenSuccesses = b.halfOpenSuccesses
        /\ GetState(b, t).failureTimestamps = b.failureTimestamps
    BY <2>1 DEF Breaker, CircuitState
  <2> QED BY <1>1, <2>2 DEF Consistent
<1>2. CASE ~(b.state = "OPEN" /\ t - b.lastStateChange >= RecoveryTime)
  BY <1>2 DEF GetState
<1> QED BY <1>1, <1>2

LEMMA NewBreakerLemma ==
    ASSUME NEW t \in Nat
    PROVE  NewBreaker(t) \in Breaker /\ Consistent(NewBreaker(t), t)
<1>1. <<>> \in Seq(Nat) /\ Len(<<>>) = 0
  BY EmptySeq
<1> QED BY <1>1 DEF NewBreaker, Breaker, CircuitState, Consistent

\* One method call, seen from the gate: the breaker stays shut as it was,
\* shuts, is released after its rest, or was and is passing.
GateStep(b, c, t) ==
    \/ b.state = "OPEN" /\ c.state = "OPEN" /\ c.lastStateChange = b.lastStateChange
    \/ /\ b.state = "OPEN" => t - b.lastStateChange >= RecoveryTime
       /\ c.state = "OPEN" => c.lastStateChange = t
    
LEMMA RecordSuccessLemma ==
    ASSUME NEW b \in Breaker, NEW t \in Nat, Consistent(b, t)
    PROVE  LET c == RecordSuccess(b, t) IN
           c \in Breaker /\ Consistent(c, t) /\ GateStep(b, c, t)
<1> DEFINE cur == GetState(b, t)
           counted == [cur EXCEPT !.halfOpenSuccesses = @ + 1]
<1>1. /\ cur \in Breaker /\ Consistent(cur, t)
      /\ GateStep(b, cur, t)
      /\ cur.state # "OPEN" /\ b.state = "OPEN" => t - b.lastStateChange >= RecoveryTime
  BY GetStateLemma DEF GateStep, Breaker
<1> HIDE DEF cur
<1>2. CASE cur.state = "HALF_OPEN" /\ cur.halfOpenSuccesses + 1 >= HalfOpenSuccessThreshold
  <2>1. RecordSuccess(b, t) = Reset(TransitionTo(counted, "CLOSED", t))
    BY <1>1, <1>2 DEF RecordSuccess, cur, Breaker
  <2>2. <<>> \in Seq(Nat) /\ Len(<<>>) = 0
    BY EmptySeq
  <2>3. RecordSuccess(b, t)
          = [state |-> "CLOSED", failureTimestamps |-> <<>>,
             halfOpenSuccesses |-> 0, lastStateChange |-> t]
    BY <1>1, <1>2, <2>1 DEF Reset, TransitionTo, Breaker
  <2> QED BY <1>1, <1>2, <2>2, <2>3
          DEF Breaker, CircuitState, Consistent, GateStep
<1>3. CASE cur.state = "HALF_OPEN" /\ ~(cur.halfOpenSuccesses + 1 >= HalfOpenSuccessThreshold)
  <2>1. RecordSuccess(b, t) = counted
    BY <1>1, <1>3 DEF RecordSuccess, cur, Breaker
  <2>2. /\ counted \in Breaker
        /\ counted.state = "HALF_OPEN"
        /\ counted.halfOpenSuccesses = cur.halfOpenSuccesses + 1
        /\ counted.lastStateChange = cur.lastStateChange
        /\ counted.failureTimestamps = cur.failureTimestamps
    <3>1. cur.halfOpenSuccesses + 1 \in Nat
      BY <1>1 DEF Breaker
    <3>2. counted \in Breaker
      BY <1>1, <3>1 DEF Breaker
    <3> QED BY <1>1, <1>3, <3>2 DEF Breaker
  <2>3. cur.halfOpenSuccesses \in Nat
    BY <1>1 DEF Breaker
  <2> HIDE DEF counted
  <2> QED BY <1>1, <1>3, <2>1, <2>2, <2>3 DEF Consistent, GateStep
<1>4. CASE cur.state = "CLOSED"
  <2>1. RecordSuccess(b, t) = PruneOldFailures(cur, t)
    BY <1>4 DEF RecordSuccess, cur
  <2> QED BY <1>1, <1>4, <2>1, PruneLemma DEF Breaker, Consistent, GateStep
<1>5. CASE cur.state = "OPEN"
  <2>1. RecordSuccess(b, t) = cur
    BY <1>5 DEF RecordSuccess, cur
  <2> QED BY <1>1, <2>1
<1> QED BY <1>1, <1>2, <1>3, <1>4, <1>5 DEF Breaker, CircuitState

LEMMA RecordFailureLemma ==
    ASSUME NEW b \in Breaker, NEW t \in Nat, Consistent(b, t)
    PROVE  LET c == RecordFailure(b, t) IN
           c \in Breaker /\ Consistent(c, t) /\ GateStep(b, c, t)
<1> DEFINE cur == GetState(b, t)
           full == [cur EXCEPT !.failureTimestamps = Append(@, t)]
           pushed == PruneOldFailures(full, t)
<1>1. /\ cur \in Breaker /\ Consistent(cur, t)
      /\ GateStep(b, cur, t)
      /\ cur.state # "OPEN" /\ b.state = "OPEN" => t - b.lastStateChange >= RecoveryTime
  BY GetStateLemma DEF GateStep, Breaker
<1> HIDE DEF cur
<1>2. /\ full \in Breaker
      /\ Len(full.failureTimestamps) = Len(cur.failureTimestamps) + 1
  <2>1. /\ cur.failureTimestamps \in Seq(Nat)
        /\ Append(cur.failureTimestamps, t) \in Seq(Nat)
        /\ Len(Append(cur.failureTimestamps, t)) = Len(cur.failureTimestamps) + 1
    BY <1>1, AppendProperties DEF Breaker
  <2> QED BY <1>1, <2>1 DEF Breaker
<1>3. /\ pushed \in Breaker
      /\ pushed.state = cur.state
      /\ pushed.halfOpenSuccesses = cur.halfOpenSuccesses
      /\ pushed.lastStateChange = cur.lastStateChange
      /\ Len(pushed.failureTimestamps) \in Nat
      /\ Len(pushed.failureTimestamps) <= Len(cur.failureTimestamps) + 1
  <2> HIDE DEF full
  <2>1. /\ pushed \in Breaker
        /\ pushed.state = full.state
        /\ pushed.halfOpenSuccesses = full.halfOpenSuccesses
        /\ pushed.lastStateChange = full.lastStateChange
        /\ Len(pushed.failureTimestamps) <= Len(full.failureTimestamps)
    BY <1>2, PruneLemma
  <2>2. /\ full.state = cur.state
        /\ full.halfOpenSuccesses = cur.halfOpenSuccesses
        /\ full.lastStateChange = cur.lastStateChange
    BY <1>1 DEF full, Breaker
  <2>3. Len(pushed.failureTimestamps) \in Nat
    BY <2>1 DEF Breaker
  <2> HIDE DEF pushed
  <2> QED BY <1>2, <2>1, <2>2, <2>3
<1>4. CASE cur.state = "HALF_OPEN"
  <2>1. RecordFailure(b, t) = TransitionTo(cur, "OPEN", t)
    BY <1>4 DEF RecordFailure, cur
  <2>2. RecordFailure(b, t) = [cur EXCEPT !.state = "OPEN", !.lastStateChange = t]
    BY <1>4, <2>1 DEF TransitionTo
  <2>3. LET c == [cur EXCEPT !.state = "OPEN", !.lastStateChange = t] IN
        /\ c \in Breaker
        /\ c.state = "OPEN"
        /\ c.lastStateChange = t
        /\ c.halfOpenSuccesses = cur.halfOpenSuccesses
        /\ c.failureTimestamps = cur.failureTimestamps
    BY <1>1 DEF Breaker, CircuitState
  <2> QED BY <1>1, <1>4, <2>2, <2>3 DEF Consistent, GateStep
<1>5. CASE cur.state = "CLOSED" /\ Len(pushed.failureTimestamps) >= FailureThreshold
  <2>1. RecordFailure(b, t) = TransitionTo(pushed, "OPEN", t)
    BY <1>5 DEF RecordFailure, cur
  <2> HIDE DEF pushed
  <2>2. Len(cur.failureTimestamps) \in Nat
    BY <1>1 DEF Breaker
  <2>3. TransitionTo(pushed, "OPEN", t)
          = [pushed EXCEPT !.state = "OPEN", !.lastStateChange = t]
    BY <1>3, <1>5 DEF TransitionTo
  <2> DEFINE tripped == [pushed EXCEPT !.state = "OPEN", !.lastStateChange = t]
  <2>4. /\ tripped \in Breaker
        /\ tripped.state = "OPEN"
        /\ tripped.lastStateChange = t
        /\ tripped.halfOpenSuccesses = cur.halfOpenSuccesses
        /\ tripped.failureTimestamps = pushed.failureTimestamps
    BY <1>3 DEF Breaker, CircuitState
  <2>5. RecordFailure(b, t) = tripped
    BY <2>1, <2>3
  <2>6. Len(pushed.failureTimestamps) = FailureThreshold
    BY <1>1, <1>3, <1>5, <2>2 DEF Consistent
  <2> HIDE DEF tripped
  <2> QED BY <1>1, <1>5, <2>4, <2>5, <2>6 DEF Consistent, GateStep
<1>6. CASE cur.state = "CLOSED" /\ ~(Len(pushed.failureTimestamps) >= FailureThreshold)
  <2>1. RecordFailure(b, t) = pushed
    BY <1>6 DEF RecordFailure, cur
  <2> HIDE DEF pushed
  <2> QED BY <1>1, <1>3, <1>6, <2>1 DEF Breaker, Consistent, GateStep
<1>7. CASE cur.state = "OPEN"
  <2>1. RecordFailure(b, t) = cur
    BY <1>7 DEF RecordFailure, cur
  <2> QED BY <1>1, <2>1
<1> QED BY <1>1, <1>4, <1>5, <1>6, <1>7 DEF Breaker, CircuitState

-----------------------------------------------------------------------------
\* What one method call of any caller may leave of breaker p.
Outcomes(p) == {GetState(breaker[p], now), RecordSuccess(breaker[p], now),
                RecordFailure(breaker[p], now)}

Touches == \E p \in Providers : \E c \in Outcomes(p) : Store(p, c)

LEMMA IdleLemma == IdleRequest \in Request
<1>1. (CHOOSE p \in Providers : TRUE) \in Providers
  BY CallsAssumption DEF CallsAssumption
<1>2. <<>> \in Seq(Providers)
  BY EmptySeq
<1> QED BY <1>1, <1>2 DEF IdleRequest, Request, Kinds, Results

LEMMA IdlePc == IdleRequest.pc = "idle"
BY DEF IdleRequest

\* Opening a call for a well-typed request.
LEMMA OpenLemma ==
    ASSUME TypeOK, NEW r \in Requests, NEW q \in Request, Open(r, q)
    PROVE  /\ req' \in [Requests -> Request]
           /\ UNCHANGED breaker \/ Touches
<1>1. q.target \in Providers
  BY DEF Request
<1>2. [q EXCEPT !.pc = "calling", !.attempt = 1] \in Request
  BY DEF Request
<1>3. [q EXCEPT !.pc = "settled", !.result = "threw"] \in Request
  BY DEF Request, Results
<1> HIDE DEF Request
<1>4. req' \in [Requests -> Request]
  BY <1>2, <1>3, IdleLemma DEF Open, Goto, Finish, TypeOK
<1>5. UNCHANGED breaker \/ Store(q.target, GetState(breaker[q.target], now))
  BY DEF Open
<1> QED BY <1>1, <1>4, <1>5 DEF Touches, Outcomes

\* A request's step calls at most one method of one breaker.
LEMMA RequestStepLemma ==
    ASSUME TypeOK, NEW r \in Requests,
           (\E k \in Kinds, p \in Providers : Begin(r, k, p)) \/ Advance(r)
    PROVE  /\ UNCHANGED now
           /\ req' \in [Requests -> Request]
           /\ UNCHANGED breaker \/ Touches
<1> DEFINE q == req[r]
           p == q.target
<1>1. /\ q \in Request
      /\ p \in Providers
      /\ q.todo \in Seq(Providers)
      /\ q.attempt \in Nat
  BY DEF TypeOK, Request
<1>2. ASSUME NEW k \in Kinds, NEW d \in Providers, Begin(r, k, d)
      PROVE  /\ UNCHANGED now
             /\ req' \in [Requests -> Request]
             /\ UNCHANGED breaker \/ Touches
  <2> DEFINE n == [IdleRequest EXCEPT !.kind = k, !.target = d]
  <2>1. n \in Request
    BY IdleLemma DEF Request
  <2>2. [n EXCEPT !.pc = "settled", !.result = "retryable_status"] \in Request
    BY <2>1 DEF Request, Results
  <2> HIDE DEF n
  <2>3. CASE k = "simulated"
    BY <1>2, <2>2, <2>3 DEF Begin, Goto, TypeOK, n
  <2>4. CASE k # "simulated"
    BY <1>2, <2>1, <2>4, OpenLemma DEF Begin, n
  <2> QED BY <2>3, <2>4
<1>3. ASSUME CompletionReply(r) \/ StreamReply(r)
      PROVE  /\ UNCHANGED now
             /\ req' \in [Requests -> Request]
             /\ UNCHANGED breaker \/ Touches
  <2>1. \A res \in Results :
          [q EXCEPT !.pc = "settled", !.attempt = 0, !.result = res] \in Request
    BY <1>1 DEF Request
  <2>2. [q EXCEPT !.attempt = @ + 1] \in Request
    BY <1>1 DEF Request
  <2> HIDE DEF q, p
  <2>3. req' \in [Requests -> Request]
    <3>1. CASE CompletionReply(r)
      BY <2>1, <2>2, <3>1 DEF CompletionReply, Settle, Retry, Goto, TypeOK, Results, q
    <3>2. CASE StreamReply(r)
      BY <2>2, <3>2, IdleLemma DEF StreamReply, Finish, Retry, Goto, TypeOK, q
    <3> QED BY <1>3, <3>1, <3>2
  <2>4. \/ UNCHANGED breaker
        \/ Store(p, RecordSuccess(breaker[p], now))
        \/ Store(p, RecordFailure(breaker[p], now))
    BY <1>3 DEF CompletionReply, StreamReply, Retry, q, p
  <2>5. UNCHANGED now
    BY <1>3 DEF CompletionReply, StreamReply
  <2> QED BY <1>1, <2>3, <2>4, <2>5 DEF Touches, Outcomes
<1>4. ASSUME Resume(r)
      PROVE  /\ UNCHANGED now
             /\ req' \in [Requests -> Request]
             /\ UNCHANGED breaker \/ Touches
  <2> DEFINE again == [q EXCEPT !.pc = "cascade", !.result = "none"]
  <2>1. again \in Request
    BY <1>1 DEF Request, Results
  <2>2. Fallbacks[p] \in Seq(Providers)
    BY <1>1, CallsAssumption DEF CallsAssumption
  <2>3. [again EXCEPT !.todo = Fallbacks[p]] \in Request
    BY <2>1, <2>2 DEF Request
  <2> HIDE DEF q, p, again
  <2>4. req' \in [Requests -> Request]
    BY <1>4, <2>1, <2>3, IdleLemma DEF Resume, Finish, Goto, TypeOK, q, p, again
  <2>5. \/ UNCHANGED breaker
        \/ Store(p, RecordSuccess(breaker[p], now))
        \/ Store(p, RecordFailure(breaker[p], now))
    BY <1>4 DEF Resume, q, p
  <2> QED BY <1>1, <1>4, <2>4, <2>5 DEF Touches, Outcomes, Resume
<1>5. ASSUME Cascade(r)
      PROVE  /\ UNCHANGED now
             /\ req' \in [Requests -> Request]
             /\ UNCHANGED breaker \/ Touches
  <2> DEFINE c    == Head(q.todo)
             rest == DropCandidate(q)
             look == [rest EXCEPT !.pc = "resolving", !.target = c, !.fallback = TRUE]
  <2>1. CASE q.todo = <<>>
    BY <1>5, <2>1, IdleLemma DEF Cascade, Finish, Goto, TypeOK
  <2>2. CASE q.todo # <<>>
    <3>1. c \in Providers /\ Tail(q.todo) \in Seq(Providers)
      BY <1>1, <2>2, HeadTailProperties
    <3>2. rest \in Request
      BY <1>1, <3>1 DEF Request, DropCandidate
    <3>3. look \in Request
      BY <3>1, <3>2 DEF Request
    <3>4. /\ UNCHANGED breaker \/ Store(c, GetState(breaker[c], now))
          /\ Goto(r, rest) \/ Goto(r, look)
          /\ UNCHANGED now
      BY <1>5, <2>2 DEF Cascade
    <3> HIDE DEF c, rest, look, q
    <3> QED BY <3>1, <3>2, <3>3, <3>4 DEF Goto, TypeOK, Touches, Outcomes
  <2> QED BY <2>1, <2>2
<1>6. ASSUME Resolve(r)
      PROVE  /\ UNCHANGED now
             /\ req' \in [Requests -> Request]
             /\ UNCHANGED breaker \/ Touches
  <2>1. [q EXCEPT !.pc = "cascade"] \in Request
    BY <1>1 DEF Request
  <2> HIDE DEF q, p
  <2>2. \/ Goto(r, [q EXCEPT !.pc = "cascade"]) /\ UNCHANGED breaker
        \/ Finish(r) /\ Store(p, RecordSuccess(breaker[p], now))
        \/ Open(r, q)
    BY <1>6 DEF Resolve, q, p
  <2>3. UNCHANGED now
    BY <1>6 DEF Resolve
  <2>4. CASE Open(r, q)
    BY <1>1, <2>3, <2>4, OpenLemma
  <2>5. CASE ~Open(r, q)
    BY <1>1, <2>1, <2>2, <2>3, <2>5, IdleLemma
       DEF Goto, Finish, TypeOK, Touches, Outcomes
  <2> QED BY <2>4, <2>5
<1> QED BY <1>2, <1>3, <1>4, <1>5, <1>6 DEF Advance

-----------------------------------------------------------------------------
\* The inductive invariant: no strengthening is needed, the counters of a
\* breaker depend on nothing but its own history of calls.
IInv == TypeOK /\ BreakerConsistent

\* Each method call is well typed, consistent and a step of the gate.
LEMMA OutcomeLemma ==
    ASSUME IInv, NEW p \in Providers, NEW c \in Outcomes(p)
    PROVE  c \in Breaker /\ Consistent(c, now) /\ GateStep(breaker[p], c, now)
<1>1. /\ breaker[p] \in Breaker
      /\ now \in Nat
      /\ Consistent(breaker[p], now)
  BY DEF IInv, TypeOK, BreakerConsistent
<1>2. CASE c = GetState(breaker[p], now)
  <2>1. /\ c \in Breaker
        /\ Consistent(c, now)
        /\ \/ c = breaker[p]
           \/ /\ breaker[p].state = "OPEN"
              /\ now - breaker[p].lastStateChange >= RecoveryTime
              /\ c.state = "HALF_OPEN"
              /\ c.lastStateChange = now
    BY <1>1, <1>2, GetStateLemma
  <2> QED BY <2>1 DEF GateStep
<1>3. CASE c = RecordSuccess(breaker[p], now)
  BY <1>1, <1>3, RecordSuccessLemma
<1>4. CASE c = RecordFailure(breaker[p], now)
  BY <1>1, <1>4, RecordFailureLemma
<1> QED BY <1>2, <1>3, <1>4 DEF Outcomes

\* A step within one life of the process does one of four things to the
\* breakers, and keeps the requests well typed.
LEMMA ServeLemma ==
    ASSUME TypeOK, Serve
    PROVE  /\ req' \in [Requests -> Request]
           /\ \/ UNCHANGED now /\ UNCHANGED breaker
              \/ UNCHANGED now /\ Touches
              \/ ReadSummary
              \/ Tick
<1>1. CASE \E r \in Requests : (\E k \in Kinds, p \in Providers : Begin(r, k, p))
                               \/ Advance(r)
  BY <1>1, RequestStepLemma
<1>2. CASE ReadSummary
  BY <1>2 DEF ReadSummary, TypeOK
<1>3. CASE Tick
  BY <1>3 DEF Tick, TypeOK
<1> QED BY <1>1, <1>2, <1>3 DEF Serve

LEMMA InitIInv == Init => IInv
<1> SUFFICES ASSUME Init PROVE IInv
  OBVIOUS
<1>1. NewBreaker(0) \in Breaker /\ Consistent(NewBreaker(0), 0)
  BY NewBreakerLemma
<1> QED BY <1>1, IdleLemma DEF Init, IInv, TypeOK, BreakerConsistent

LEMMA NextIInv == IInv /\ [Next]_vars => IInv'
<1> SUFFICES ASSUME IInv, [Next]_vars PROVE IInv'
  OBVIOUS
<1> USE DEF IInv
<1>1. CASE Serve
  <2>1. req' \in [Requests -> Request]
    BY <1>1, ServeLemma
  <2>2. CASE UNCHANGED now /\ UNCHANGED breaker
    BY <2>1, <2>2 DEF TypeOK, BreakerConsistent
  <2>3. CASE UNCHANGED now /\ Touches
    <3>1. PICK p \in Providers : \E c \in Outcomes(p) : Store(p, c)
      BY <2>3 DEF Touches
    <3>2. PICK c \in Outcomes(p) : Store(p, c)
      BY <3>1
    <3>3. c \in Breaker /\ Consistent(c, now)
      BY OutcomeLemma
    <3> QED BY <2>1, <2>3, <3>2, <3>3 DEF Store, TypeOK, BreakerConsistent
  <2>4. CASE ReadSummary
    <3>1. \A p \in Providers : /\ GetState(breaker[p], now) \in Breaker
                               /\ Consistent(GetState(breaker[p], now), now)
      BY OutcomeLemma DEF Outcomes
    <3> QED BY <2>1, <2>4, <3>1 DEF ReadSummary, TypeOK, BreakerConsistent
  <2>5. CASE Tick
    BY <2>1, <2>5 DEF Tick, TypeOK, BreakerConsistent, Consistent, Breaker
  <2> QED BY <1>1, <2>2, <2>3, <2>4, <2>5, ServeLemma
<1>2. CASE Restart
  <2>1. now + 1 \in Nat
    BY DEF TypeOK
  <2>2. NewBreaker(now + 1) \in Breaker /\ Consistent(NewBreaker(now + 1), now + 1)
    BY <2>1, NewBreakerLemma
  <2> QED BY <1>2, <2>1, <2>2, IdleLemma DEF Restart, TypeOK, BreakerConsistent
<1>3. CASE UNCHANGED vars
  BY <1>3 DEF vars, TypeOK, BreakerConsistent
<1> QED BY <1>1, <1>2, <1>3 DEF Next

LEMMA IInvHolds == Spec => []IInv
BY InitIInv, NextIInv, PTL DEF Spec

\* Every variable keeps its type, for every number of providers and requests.
THEOREM TypeCorrect == Spec => []TypeOK
BY IInvHolds, PTL DEF IInv

\* The counters of every breaker agree with its state at all times
\* (circuit-breaker.ts:94-149), whatever threshold it is built with.
THEOREM BreakersConsistent == Spec => []BreakerConsistent
BY IInvHolds, PTL DEF IInv

-----------------------------------------------------------------------------
InOrder(ts) == \A i, k \in 1..Len(ts) : i <= k => ts[i] <= ts[k]

\* Of timestamps in clock order PruneOldFailures drops a prefix, and keeps
\* exactly what the filter of the code keeps.
LEMMA PruneIsFilter ==
    ASSUME NEW b \in Breaker, NEW t \in Nat, InOrder(b.failureTimestamps)
    PROVE  LET ts   == b.failureTimestamps
               kept == PruneOldFailures(b, t).failureTimestamps
           IN  \E m \in 0..Len(ts) :
                  /\ Len(kept) = Len(ts) - m
                  /\ \A i \in 1..Len(ts) - m : kept[i] = ts[m + i]
                  /\ \A i \in 1..m : ts[i] < t - MonitoringWindow
                  /\ \A i \in m + 1..Len(ts) : ts[i] >= t - MonitoringWindow
<1> DEFINE ts    == b.failureTimestamps
           Old   == {i \in 1..Len(ts) : ts[i] < t - MonitoringWindow}
           stale == Cardinality(Old)
           kept  == PruneOldFailures(b, t).failureTimestamps
<1>1. ts \in Seq(Nat) /\ Len(ts) \in Nat /\ \A i \in 1..Len(ts) : ts[i] \in Nat
  <2>1. ts \in Seq(Nat)
    BY DEF Breaker
  <2> QED BY <2>1, LenProperties, ElementOfSeq
<1>2. IsFiniteSet(Old) /\ stale \in Nat /\ stale <= Len(ts)
  <2>1. IsFiniteSet(1..Len(ts)) /\ Cardinality(1..Len(ts)) = Len(ts)
    BY <1>1, IntervalCardinality
  <2>2. Old \subseteq 1..Len(ts)
    OBVIOUS
  <2> HIDE DEF Old
  <2>3. IsFiniteSet(Old) /\ Cardinality(Old) <= Len(ts)
    BY <2>1, <2>2, FS_Subset
  <2> QED BY <2>3, FS_CardinalityType
<1>3. \A i, k \in 1..Len(ts) : i <= k /\ k \in Old => i \in Old
  BY <1>1 DEF InOrder
<1>4. ASSUME NEW i \in 1..stale PROVE i \in Old
  <2> SUFFICES ASSUME i \notin Old PROVE FALSE
    OBVIOUS
  <2>1. i \in 1..Len(ts)
    BY <1>1, <1>2
  <2>2. Old \subseteq 1..(i - 1)
    <3> SUFFICES ASSUME NEW k \in Old PROVE k \in 1..(i - 1)
      OBVIOUS
    <3>1. ~(i <= k)
      BY <1>3, <2>1
    <3> QED BY <2>1, <3>1
  <2>3. IsFiniteSet(1..(i - 1)) /\ Cardinality(1..(i - 1)) = i - 1
    BY <2>1, IntervalCardinality
  <2> HIDE DEF Old
  <2>4. Cardinality(Old) <= i - 1
    BY <2>2, <2>3, FS_Subset
  <2> QED BY <1>2, <2>4
<1>5. ASSUME NEW i \in stale + 1..Len(ts) PROVE i \notin Old
  <2> SUFFICES ASSUME i \in Old PROVE FALSE
    OBVIOUS
  <2>1. i \in 1..Len(ts) /\ i \in Nat
    BY <1>1, <1>2
  <2>2. 1..i \subseteq Old
    <3> SUFFICES ASSUME NEW k \in 1..i PROVE k \in Old
      OBVIOUS
    <3>1. k \in 1..Len(ts) /\ k <= i
      BY <1>1, <2>1
    <3> QED BY <1>3, <2>1, <3>1
  <2>3. Cardinality(1..i) = i
    BY <2>1, IntervalCardinality
  <2> HIDE DEF Old
  <2>4. i <= Cardinality(Old)
    BY <1>2, <2>2, <2>3, FS_Subset
  <2> QED BY <1>2, <2>1, <2>4
<1>6. kept = SubSeq(ts, stale + 1, Len(ts))
  BY DEF PruneOldFailures, Breaker
<1>7. /\ \A i \in 1..stale : ts[i] < t - MonitoringWindow
      /\ \A i \in stale + 1..Len(ts) : ts[i] >= t - MonitoringWindow
  <2>1. \A i \in stale + 1..Len(ts) : i \in 1..Len(ts)
    BY <1>1, <1>2
  <2> QED BY <1>1, <1>4, <1>5, <2>1
<1>9. stale \in 0..Len(ts)
  BY <1>1, <1>2
<1> HIDE DEF stale, kept, ts
<1>8. /\ Len(kept) = Len(ts) - stale
      /\ \A i \in 1..Len(ts) - stale : kept[i] = ts[stale + i]
  <2>1. \A i \in stale + 1..Len(ts) : ts[i] \in Nat
    BY <1>1, <1>2
  <2>2. /\ Len(SubSeq(ts, stale + 1, Len(ts)))
             = IF stale + 1 <= Len(ts) THEN Len(ts) - (stale + 1) + 1 ELSE 0
        /\ \A i \in 1..Len(SubSeq(ts, stale + 1, Len(ts))) :
              SubSeq(ts, stale + 1, Len(ts))[i] = ts[stale + 1 + i - 1]
    BY <1>1, <1>2, <2>1, SubSeqProperties
  <2> QED BY <1>1, <1>6, <1>9, <2>2
<1> QED BY <1>7, <1>8, <1>9 DEF kept, ts

\* What a breaker remembers at time t is in clock order, of the past, and
\* within one monitoring window.
Remembers(ts, t) ==
    /\ InOrder(ts)
    /\ \A i \in 1..Len(ts) : ts[i] <= t
    /\ \A i, k \in 1..Len(ts) : ts[k] - ts[i] <= MonitoringWindow

\* Pruned to a window that ends now, the failures are within one window,
\* whatever was remembered before.
LEMMA PruneRemembers ==
    ASSUME NEW b \in Breaker, NEW t \in Nat, InOrder(b.failureTimestamps),
           \A i \in 1..Len(b.failureTimestamps) : b.failureTimestamps[i] <= t
    PROVE  Remembers(PruneOldFailures(b, t).failureTimestamps, t)
<1> DEFINE ts   == b.failureTimestamps
           kept == PruneOldFailures(b, t).failureTimestamps
<1>1. ts \in Seq(Nat) /\ Len(ts) \in Nat /\ \A i \in 1..Len(ts) : ts[i] \in Nat
  <2>1. ts \in Seq(Nat)
    BY DEF Breaker
  <2> QED BY <2>1, LenProperties, ElementOfSeq
<1>2. PICK m \in 0..Len(ts) :
         /\ Len(kept) = Len(ts) - m
         /\ \A i \in 1..Len(ts) - m : kept[i] = ts[m + i]
         /\ \A i \in m + 1..Len(ts) : ts[i] >= t - MonitoringWindow
  BY PruneIsFilter
<1> HIDE DEF kept, ts
<1>3. \A i \in 1..Len(kept) : /\ m + i \in 1..Len(ts)
                               /\ kept[i] = ts[m + i]
                               /\ kept[i] \in Nat
                               /\ kept[i] <= t
                               /\ kept[i] >= t - MonitoringWindow
  <2> SUFFICES ASSUME NEW i \in 1..Len(kept)
               PROVE  /\ m + i \in 1..Len(ts)
                      /\ kept[i] = ts[m + i]
                      /\ ts[m + i] \in Nat
                      /\ ts[m + i] <= t
                      /\ ts[m + i] >= t - MonitoringWindow
    OBVIOUS
  <2>1. i \in 1..Len(ts) - m /\ m + i \in 1..Len(ts) /\ m + i \in m + 1..Len(ts)
    BY <1>1, <1>2
  <2>2. \A k \in 1..Len(ts) : ts[k] <= t
    BY DEF ts
  <2> QED BY <1>1, <1>2, <2>1, <2>2
<1>4. InOrder(kept)
  <2>1. \A i, k \in 1..Len(ts) : i <= k => ts[i] <= ts[k]
    BY DEF InOrder, ts
  <2>2. \A i, k \in 1..Len(kept) : i <= k => m + i <= m + k
    BY <1>1, <1>2
  <2> QED BY <1>3, <2>1, <2>2 DEF InOrder
<1>5. ASSUME NEW i \in 1..Len(kept), NEW k \in 1..Len(kept)
      PROVE  kept[k] - kept[i] <= MonitoringWindow
  <2>1. kept[k] \in Nat /\ kept[i] \in Nat /\ kept[k] <= t
    BY <1>3
  <2>2. kept[i] >= t - MonitoringWindow
    BY <1>3
  <2> QED BY <2>1, <2>2
<1> QED BY <1>3, <1>4, <1>5 DEF Remembers, kept

LEMMA EmptyRemembers == \A t \in Nat : Remembers(<<>>, t)
BY DEF Remembers, InOrder

\* No method forgets the order or lets the failures spread.
LEMMA OutcomeRemembers ==
    ASSUME IInv, NEW p \in Providers, NEW c \in Outcomes(p),
           Remembers(breaker[p].failureTimestamps, now)
    PROVE  Remembers(c.failureTimestamps, now)
<1> DEFINE b   == breaker[p]
           cur == GetState(b, now)
<1>1. b \in Breaker /\ now \in Nat /\ Consistent(b, now)
  BY DEF IInv, TypeOK, BreakerConsistent
<1>2. cur \in Breaker /\ cur.failureTimestamps = b.failureTimestamps
  BY <1>1, GetStateLemma DEF GetState, TransitionTo, Breaker
<1>3. Remembers(cur.failureTimestamps, now)
  BY <1>2
<1>4. CASE c = RecordSuccess(b, now)
  <2>1. Remembers(PruneOldFailures(cur, now).failureTimestamps, now)
    BY <1>1, <1>2, <1>3, PruneRemembers DEF Remembers
  <2>2. ASSUME cur.state = "HALF_OPEN" PROVE Remembers(c.failureTimestamps, now)
    <3> DEFINE counted == [cur EXCEPT !.halfOpenSuccesses = @ + 1]
               closed  == TransitionTo(counted, "CLOSED", now)
    <3>1. c = Reset(closed) \/ c = counted
      BY <1>4, <2>2 DEF RecordSuccess
    <3>2. counted.failureTimestamps = cur.failureTimestamps
      BY <1>2 DEF Breaker
    <3>3. closed = [counted EXCEPT !.state = "CLOSED", !.lastStateChange = now]
      BY <1>2, <2>2 DEF TransitionTo, Breaker
    <3>4. Reset(closed).failureTimestamps = <<>>
      BY <1>2, <3>3 DEF Reset, Breaker
    <3> QED BY <1>1, <1>3, <3>1, <3>2, <3>4, EmptyRemembers
  <2>3. ASSUME cur.state = "CLOSED" PROVE Remembers(c.failureTimestamps, now)
    BY <1>4, <2>1, <2>3 DEF RecordSuccess
  <2>4. ASSUME cur.state = "OPEN" PROVE Remembers(c.failureTimestamps, now)
    BY <1>3, <1>4, <2>4 DEF RecordSuccess
  <2> QED BY <1>2, <2>2, <2>3, <2>4 DEF Breaker, CircuitState
<1>5. CASE c = RecordFailure(b, now)
  <2> DEFINE full   == [cur EXCEPT !.failureTimestamps = Append(@, now)]
             pushed == PruneOldFailures(full, now)
  <2>1. Remembers(pushed.failureTimestamps, now)
    <3> DEFINE ts == cur.failureTimestamps
               tt == Append(ts, now)
    <3>1. ts \in Seq(Nat) /\ Len(ts) \in Nat /\ \A i \in 1..Len(ts) : ts[i] \in Nat
      <4>1. ts \in Seq(Nat)
        BY <1>2 DEF Breaker
      <4> QED BY <4>1, LenProperties, ElementOfSeq
    <3>2. /\ tt \in Seq(Nat)
          /\ Len(tt) = Len(ts) + 1
          /\ \A i \in 1..Len(ts) : tt[i] = ts[i]
          /\ tt[Len(ts) + 1] = now
      BY <1>1, <3>1, AppendProperties
    <3>3. full \in Breaker /\ full.failureTimestamps = tt
      BY <1>2, <3>2 DEF Breaker
    <3> HIDE DEF tt, full
    <3> HIDE DEF ts
    <3>4. /\ \A i, k \in 1..Len(ts) : i <= k => ts[i] <= ts[k]
          /\ \A i \in 1..Len(ts) : ts[i] <= now
      BY <1>3 DEF Remembers, InOrder, ts
    <3>5. \A i \in 1..Len(tt) : tt[i] <= now
      <4> SUFFICES ASSUME NEW i \in 1..Len(tt) PROVE tt[i] <= now
        OBVIOUS
      <4>1. i \in 1..Len(ts) \/ i = Len(ts) + 1
        BY <3>1, <3>2
      <4> QED BY <1>1, <3>2, <3>4, <4>1
    <3>6. InOrder(tt)
      <4> SUFFICES ASSUME NEW i \in 1..Len(tt), NEW k \in 1..Len(tt), i <= k
                   PROVE  tt[i] <= tt[k]
        BY DEF InOrder
      <4>1. CASE k = Len(ts) + 1
        BY <3>2, <3>5, <4>1
      <4>2. CASE k # Len(ts) + 1
        <5>1. i \in 1..Len(ts) /\ k \in 1..Len(ts)
          BY <3>1, <3>2, <4>2
        <5> QED BY <3>2, <3>4, <5>1
      <4> QED BY <4>1, <4>2
    <3> QED BY <1>1, <3>3, <3>5, <3>6, PruneRemembers
  <2>2. ASSUME cur.state = "HALF_OPEN" PROVE Remembers(c.failureTimestamps, now)
    <3>1. c = TransitionTo(cur, "OPEN", now)
      BY <1>5, <2>2 DEF RecordFailure
    <3>2. c.failureTimestamps = cur.failureTimestamps
      BY <1>2, <3>1 DEF TransitionTo, Breaker
    <3> QED BY <1>3, <3>2
  <2>3. ASSUME cur.state = "CLOSED" PROVE Remembers(c.failureTimestamps, now)
    <3>1. c = TransitionTo(pushed, "OPEN", now) \/ c = pushed
      BY <1>5, <2>3 DEF RecordFailure
    <3>2. pushed \in Breaker
      <4>1. full \in Breaker
        BY <1>1, <1>2, AppendProperties DEF Breaker
      <4> HIDE DEF full
      <4> QED BY <1>1, <4>1, PruneLemma
    <3> HIDE DEF pushed
    <3>3. c.failureTimestamps = pushed.failureTimestamps
      BY <3>1, <3>2 DEF TransitionTo, Breaker
    <3> QED BY <2>1, <3>3
  <2>4. ASSUME cur.state = "OPEN" PROVE Remembers(c.failureTimestamps, now)
    BY <1>3, <1>5, <2>4 DEF RecordFailure
  <2> QED BY <1>2, <2>2, <2>3, <2>4 DEF Breaker, CircuitState
<1> QED BY <1>3, <1>4, <1>5 DEF Outcomes

\* The inductive invariant behind OpensOnBursts: it holds of a CLOSED breaker
\* too, whose failures are on their way to the threshold.
InWindow == \A p \in Providers : Remembers(breaker[p].failureTimestamps, now)

LEMMA InitInWindow == Init => InWindow
BY EmptyRemembers DEF Init, NewBreaker, InWindow

LEMMA NextInWindow == IInv /\ InWindow /\ [Next]_vars => InWindow'
<1> SUFFICES ASSUME IInv, InWindow, [Next]_vars PROVE InWindow'
  OBVIOUS
<1>0. now \in Nat /\ breaker \in [Providers -> Breaker]
  BY DEF IInv, TypeOK
<1>1. CASE Serve
  <2>1. CASE UNCHANGED now /\ UNCHANGED breaker
    BY <2>1 DEF InWindow, Remembers, InOrder
  <2>2. CASE UNCHANGED now /\ Touches
    <3>1. PICK p \in Providers : \E c \in Outcomes(p) : Store(p, c)
      BY <2>2 DEF Touches
    <3>2. PICK c \in Outcomes(p) : Store(p, c)
      BY <3>1
    <3>3. Remembers(c.failureTimestamps, now)
      BY OutcomeRemembers DEF InWindow
    <3>4. \A q \in Providers : breaker'[q] = IF q = p THEN c ELSE breaker[q]
      BY <1>0, <3>2 DEF Store
    <3> QED BY <2>2, <3>3, <3>4 DEF InWindow, Remembers, InOrder
  <2>3. CASE ReadSummary
    <3>1. \A p \in Providers :
             Remembers(GetState(breaker[p], now).failureTimestamps, now)
      BY OutcomeRemembers DEF InWindow, Outcomes
    <3>2. now' = now /\ \A p \in Providers : breaker'[p] = GetState(breaker[p], now)
      BY <2>3 DEF ReadSummary
    <3> QED BY <3>1, <3>2 DEF InWindow, Remembers, InOrder
  <2>4. CASE Tick
    <3>1. now' = now + 1 /\ breaker' = breaker
      BY <2>4 DEF Tick
    <3>2. ASSUME NEW p \in Providers
          PROVE  \A i \in 1..Len(breaker[p].failureTimestamps) :
                    breaker[p].failureTimestamps[i] \in Nat
      <4>1. breaker[p].failureTimestamps \in Seq(Nat)
        BY <1>0 DEF Breaker
      <4> QED BY <4>1, ElementOfSeq
    <3> QED BY <1>0, <3>1, <3>2 DEF InWindow, Remembers, InOrder
  <2> QED BY <1>1, <2>1, <2>2, <2>3, <2>4, ServeLemma DEF IInv
<1>2. CASE Restart
  <2>1. \A p \in Providers : breaker'[p].failureTimestamps = <<>>
    BY <1>2 DEF Restart, NewBreaker
  <2>2. now' \in Nat
    BY <1>0, <1>2 DEF Restart
  <2> QED BY <2>1, <2>2 DEF InWindow, Remembers, InOrder
<1>3. CASE UNCHANGED vars
  BY <1>3 DEF vars, InWindow, Remembers, InOrder
<1> QED BY <1>1, <1>2, <1>3 DEF Next

\* Only a burst trips a breaker, whatever number of callers record into it in
\* whatever order: as long as it is not CLOSED it remembers exactly the
\* FailureThreshold failures that tripped it, and they lie within one
\* monitoring window (circuit-breaker.ts:107-121 and :146-149).
THEOREM BreakersOpenOnBursts == Spec => [](BreakerConsistent /\ OpensOnBursts)
<1>1. InWindow => OpensOnBursts
  BY DEF InWindow, Remembers, OpensOnBursts
<1>2. Spec => []InWindow
  BY InitInWindow, NextInWindow, IInvHolds, PTL DEF Spec
<1> QED BY <1>1, <1>2, IInvHolds, PTL DEF IInv

-----------------------------------------------------------------------------
\* Opening a call leaves the breaker it asked in a state that lets calls through.
LEMMA OpenAdmits ==
    ASSUME IInv, NEW r \in Requests, NEW q \in Request, Open(r, q),
           req'[r].pc = "calling", Checked(req'[r])
    PROVE  breaker'[req'[r].target].state # "OPEN"
<1> DEFINE p == q.target
           n == [q EXCEPT !.pc = "calling", !.attempt = 1]
<1>1. p \in Providers /\ req \in [Requests -> Request]
      /\ breaker \in [Providers -> Breaker]
  BY DEF IInv, TypeOK, Request
<1>2. CASE ~Checked(q) \/ CanExecute(breaker[p], now)
  <2>1. Goto(r, n)
    BY <1>2 DEF Open
  <2>2. req'[r] = n /\ n.target = p /\ n.kind = q.kind
    BY <1>1, <2>1 DEF Goto, Request
  <2>3. Checked(q) /\ CanExecute(breaker[p], now)
    BY <1>2, <2>2 DEF Checked
  <2>4. Store(p, GetState(breaker[p], now))
    BY <1>2, <2>3 DEF Open
  <2>5. breaker'[p] = GetState(breaker[p], now)
    BY <1>1, <2>4 DEF Store
  <2> QED BY <2>2, <2>3, <2>5 DEF CanExecute
<1>3. CASE ~(~Checked(q) \/ CanExecute(breaker[p], now))
  <2>1. Finish(r) \/ Goto(r, [q EXCEPT !.pc = "settled", !.result = "threw"])
    BY <1>3 DEF Open
  <2>2. req'[r] = IdleRequest \/ req'[r] = [q EXCEPT !.pc = "settled", !.result = "threw"]
    BY <1>1, <2>1 DEF Finish, Goto
  <2>3. [q EXCEPT !.pc = "settled", !.result = "threw"].pc = "settled"
    BY DEF Request
  <2>4. req'[r].pc # "calling"
    BY <2>2, <2>3, IdlePc
  <2> QED BY <2>4
<1> QED BY <1>2, <1>3

\* Only Begin and Resolve start a call, and both through Open.
LEMMA StartsAreOpened ==
    ASSUME TypeOK, NEW r \in Requests, Serve,
           req[r].pc # "calling", req'[r].pc = "calling"
    PROVE  \E q \in Request : Open(r, q)
<1>1. req \in [Requests -> Request] /\ req[r] \in Request
  BY DEF TypeOK
<1>2. ASSUME NEW u \in Requests, u # r,
             (\E k \in Kinds, p \in Providers : Begin(u, k, p)) \/ Advance(u)
      PROVE  req'[r] = req[r]
  BY <1>1, <1>2
     DEF Begin, Advance, CompletionReply, StreamReply, Resume, Cascade, Resolve,
         Open, Settle, Retry, Finish, Goto
<1>3. ASSUME NEW k \in Kinds, NEW p \in Providers, Begin(r, k, p)
      PROVE  \E q \in Request : Open(r, q)
  <2> DEFINE q == [IdleRequest EXCEPT !.kind = k, !.target = p]
  <2>1. q \in Request
    BY IdleLemma DEF Request
  <2>2. CASE k = "simulated"
    <3>1. req'[r] = [q EXCEPT !.pc = "settled", !.result = "retryable_status"]
      BY <1>1, <1>3, <2>2 DEF Begin, Goto
    <3>2. req'[r].pc # "calling"
      BY <3>1, <2>1 DEF Request
    <3> QED BY <3>2
  <2>3. CASE k # "simulated"
    BY <1>3, <2>1, <2>3 DEF Begin
  <2> QED BY <2>2, <2>3
<1>4. ASSUME CompletionReply(r) \/ StreamReply(r) PROVE FALSE
  BY <1>4 DEF CompletionReply, StreamReply
<1>5. ASSUME Resume(r) PROVE FALSE
  <2> DEFINE again == [req[r] EXCEPT !.pc = "cascade", !.result = "none"]
  <2>1. \/ req'[r] = IdleRequest
        \/ req'[r] = again
        \/ req'[r] = [again EXCEPT !.todo = Fallbacks[req[r].target]]
    BY <1>1, <1>5 DEF Resume, Finish, Goto
  <2>2. /\ again.pc = "cascade"
        /\ [again EXCEPT !.todo = Fallbacks[req[r].target]].pc = "cascade"
    BY <1>1 DEF Request
  <2>3. req'[r].pc # "calling"
    BY <2>1, <2>2, IdlePc
  <2> QED BY <2>3
<1>6. ASSUME Cascade(r) PROVE FALSE
  <2> DEFINE q == req[r]
             rest == [q EXCEPT !.todo = Tail(q.todo)]
  <2>1. q.pc = "cascade"
    BY <1>6 DEF Cascade
  <2>2. \/ req'[r] = IdleRequest
        \/ req'[r] = rest
        \/ req'[r] = [rest EXCEPT !.pc = "resolving", !.target = Head(q.todo),
                                  !.fallback = TRUE]
    BY <1>1, <1>6 DEF Cascade, Finish, Goto, DropCandidate
  <2>3. /\ rest.pc = "cascade"
        /\ [rest EXCEPT !.pc = "resolving", !.target = Head(q.todo),
                        !.fallback = TRUE].pc = "resolving"
    BY <1>1, <2>1 DEF Request
  <2>4. req'[r].pc # "calling"
    BY <2>2, <2>3, IdlePc
  <2> QED BY <2>4
<1>7. ASSUME Resolve(r) PROVE \E q \in Request : Open(r, q)
  <2>1. \/ req'[r] = [req[r] EXCEPT !.pc = "cascade"]
        \/ req'[r] = IdleRequest
        \/ Open(r, req[r])
    BY <1>1, <1>7 DEF Resolve, Finish, Goto
  <2>2. CASE req'[r] = [req[r] EXCEPT !.pc = "cascade"] \/ req'[r] = IdleRequest
    <3>1. [req[r] EXCEPT !.pc = "cascade"].pc = "cascade"
      BY <1>1 DEF Request
    <3>2. req'[r].pc # "calling"
      BY <2>2, <3>1, IdlePc
    <3> QED BY <3>2
  <2> QED BY <1>1, <2>1, <2>2
<1>8. CASE ReadSummary \/ Tick
  BY <1>8 DEF ReadSummary, Tick
<1> QED BY <1>2, <1>3, <1>4, <1>5, <1>6, <1>7, <1>8 DEF Serve, Advance

LEMMA AdmissionStep ==
    ASSUME IInv, [Next]_vars, NEW r \in Requests,
           req[r].pc # "calling", req'[r].pc = "calling", Checked(req'[r])
    PROVE  breaker'[req'[r].target].state # "OPEN"
<1>1. CASE Serve
  <2>1. PICK q \in Request : Open(r, q)
    BY <1>1, StartsAreOpened DEF IInv
  <2> QED BY <2>1, OpenAdmits
<1>2. CASE Restart
  BY <1>2 DEF Restart, IdleRequest
<1>3. CASE UNCHANGED vars
  BY <1>3 DEF vars
<1> QED BY <1>1, <1>2, <1>3 DEF Next

\* Whatever request of whatever kind starts a call that consults its breaker,
\* a fallback candidate after its credentials were awaited included, finds
\* the breaker not OPEN at that moment (retry-client.ts:78-80).
THEOREM AdmissionsFindNoOpenBreaker == Spec => AdmittedOnlyWhenNotOpen
<1>1. IInv /\ [Next]_vars =>
        [\A r \in Requests :
            /\ req[r].pc # "calling"
            /\ req'[r].pc = "calling"
            /\ Checked(req'[r])
            => breaker'[req'[r].target].state # "OPEN"]_vars
  BY AdmissionStep
<1> QED BY <1>1, IInvHolds, PTL DEF Spec, AdmittedOnlyWhenNotOpen

-----------------------------------------------------------------------------
\* What EveryRequestEnds rests on besides fairness: the steps a request can
\* still take are counted down by each of them.  A candidate takes at most
\* Width steps: it is looked up and resolved, each attempt is answered, its
\* outcome is read and the loop goes on.
Width == CandidateRetries + 4

\* Candidates not tried yet; a request that has not failed yet may try all.
Ahead(q) == IF q.fallback \/ q.pc = "cascade" THEN Len(q.todo)
                                              ELSE Len(Fallbacks[q.target])

OwnSteps(q) ==
    IF q.pc = "cascade" THEN 1
    ELSE IF q.pc = "settled" THEN 2
    ELSE IF q.pc = "calling" THEN 3 + MaxAttempts(q) - q.attempt
    ELSE CandidateRetries + 4

StepsLeft(q) == IF q.pc = "idle" THEN 0 ELSE OwnSteps(q) + Width * Ahead(q)

\* An attempt is one of those the call may make; only a candidate is resolved.
InBounds(q) == /\ q.pc = "calling" => q.attempt <= MaxAttempts(q)
               /\ q.pc = "resolving" => q.fallback

AttemptsBounded == \A r \in Requests : InBounds(req[r])

CallsProgress ==
    [][\A r \in Requests :
          req'[r] # req[r] /\ req[r].pc # "idle"
          => StepsLeft(req'[r]) < StepsLeft(req[r])]_vars

LEMMA WidthLemma ==
    /\ Width \in Nat
    /\ \A n \in Nat : /\ Width * n \in Nat
                      /\ Width * (n + 1) = Width * n + Width
<1>1. Width \in Nat
  BY CallsAssumption DEF CallsAssumption, Width
<1> QED BY <1>1

LEMMA AttemptsType ==
    ASSUME NEW q \in Request
    PROVE  /\ MaxAttempts(q) \in Nat \ {0}
           /\ q.fallback => MaxAttempts(q) = CandidateRetries + 1
<1>1. q.kind \in Kinds /\ q.fallback \in BOOLEAN
  BY DEF Request
<1> QED BY <1>1, CallsAssumption DEF CallsAssumption, MaxAttempts, Kinds

LEMMA AheadType ==
    ASSUME NEW q \in Request
    PROVE  /\ Ahead(q) \in Nat
           /\ Width * Ahead(q) \in Nat
           /\ Len(q.todo) \in Nat
           /\ Len(Fallbacks[q.target]) \in Nat
<1>1. q.todo \in Seq(Providers) /\ q.target \in Providers
  BY DEF Request
<1>2. Fallbacks[q.target] \in Seq(Providers)
  BY <1>1, CallsAssumption DEF CallsAssumption
<1>3. Len(q.todo) \in Nat /\ Len(Fallbacks[q.target]) \in Nat
  BY <1>1, <1>2, LenProperties
<1>4. Ahead(q) \in Nat
  BY <1>3 DEF Ahead
<1> QED BY <1>3, <1>4, WidthLemma

LEMMA StepsType ==
    ASSUME NEW q \in Request, InBounds(q)
    PROVE  StepsLeft(q) \in Nat /\ (q.pc # "idle" => StepsLeft(q) > 0)
<1>1. q.attempt \in Nat /\ CandidateRetries \in Nat
  BY CallsAssumption DEF CallsAssumption, Request
<1>2. MaxAttempts(q) \in Nat /\ Width * Ahead(q) \in Nat
  BY AttemptsType, AheadType
<1>3. OwnSteps(q) \in Nat \ {0}
  BY <1>1, <1>2 DEF OwnSteps, InBounds
<1> QED BY <1>2, <1>3 DEF StepsLeft

\* n is a state request q may go on to.
Nearer(q, n) == InBounds(n) /\ StepsLeft(n) < StepsLeft(q)

LEMMA EndIsNearer ==
    ASSUME NEW q \in Request, InBounds(q), q.pc # "idle"
    PROVE  Nearer(q, IdleRequest)
<1>1. StepsLeft(IdleRequest) = 0 /\ InBounds(IdleRequest)
  BY IdlePc DEF StepsLeft, InBounds
<1> QED BY <1>1, StepsType DEF Nearer

\* A call is answered and settled, or tried once more.
LEMMA AnswerIsNearer ==
    ASSUME NEW q \in Request, InBounds(q), q.pc = "calling"
    PROVE  /\ \A res \in Results :
                 Nearer(q, [q EXCEPT !.pc = "settled", !.attempt = 0, !.result = res])
           /\ q.attempt < MaxAttempts(q) => Nearer(q, [q EXCEPT !.attempt = @ + 1])
<1>1. q.attempt \in Nat /\ q.attempt <= MaxAttempts(q) /\ MaxAttempts(q) \in Nat
  BY AttemptsType DEF Request, InBounds
<1>2. Width * Ahead(q) \in Nat
  BY AheadType
<1>3. StepsLeft(q) = 3 + MaxAttempts(q) - q.attempt + Width * Ahead(q)
  BY DEF StepsLeft, OwnSteps
<1>4. ASSUME NEW res \in Results
      PROVE  Nearer(q, [q EXCEPT !.pc = "settled", !.attempt = 0, !.result = res])
  <2> DEFINE n == [q EXCEPT !.pc = "settled", !.attempt = 0, !.result = res]
  <2>1. /\ n.pc = "settled" /\ n.fallback = q.fallback /\ n.todo = q.todo
        /\ n.target = q.target
    BY DEF Request
  <2> HIDE DEF n
  <2>2. Ahead(n) = Ahead(q)
    BY <2>1 DEF Ahead
  <2>3. StepsLeft(n) = 2 + Width * Ahead(q)
    BY <2>1, <2>2 DEF StepsLeft, OwnSteps
  <2>4. Nearer(q, n)
    BY <1>1, <1>2, <1>3, <2>1, <2>3 DEF Nearer, InBounds
  <2> QED BY <2>4 DEF n
<1>5. ASSUME q.attempt < MaxAttempts(q) PROVE Nearer(q, [q EXCEPT !.attempt = @ + 1])
  <2> DEFINE n == [q EXCEPT !.attempt = @ + 1]
  <2>1. /\ n.pc = "calling" /\ n.fallback = q.fallback /\ n.todo = q.todo
        /\ n.target = q.target /\ n.kind = q.kind /\ n.attempt = q.attempt + 1
    BY DEF Request
  <2> HIDE DEF n
  <2>2. Ahead(n) = Ahead(q) /\ MaxAttempts(n) = MaxAttempts(q)
    BY <2>1 DEF Ahead, MaxAttempts
  <2>3. StepsLeft(n) = 3 + MaxAttempts(q) - (q.attempt + 1) + Width * Ahead(q)
    BY <2>1, <2>2 DEF StepsLeft, OwnSteps
  <2>4. Nearer(q, n)
    BY <1>1, <1>2, <1>3, <1>5, <2>1, <2>2, <2>3 DEF Nearer, InBounds
  <2> QED BY <2>4 DEF n
<1> QED BY <1>4, <1>5

LEMMA ReplyIsNearer ==
    ASSUME TypeOK, NEW r \in Requests, InBounds(req[r]),
           CompletionReply(r) \/ StreamReply(r)
    PROVE  Nearer(req[r], req'[r])
<1> DEFINE q == req[r]
<1>1. /\ q \in Request /\ req \in [Requests -> Request]
      /\ q.pc = "calling" /\ q.attempt \in Nat /\ MaxAttempts(q) \in Nat
  BY AttemptsType DEF TypeOK, CompletionReply, StreamReply, Request
<1>2. \/ \E res \in Results :
            req'[r] = [q EXCEPT !.pc = "settled", !.attempt = 0, !.result = res]
      \/ req'[r] = IdleRequest
      \/ /\ ~(q.attempt >= MaxAttempts(q))
         /\ req'[r] = [q EXCEPT !.attempt = @ + 1]
  <2>1. CASE CompletionReply(r)
    BY <1>1, <2>1 DEF CompletionReply, Settle, Retry, Goto, Results
  <2>2. CASE StreamReply(r)
    BY <1>1, <2>2 DEF StreamReply, Finish, Retry, Goto
  <2> QED BY <2>1, <2>2
<1> HIDE DEF q
<1>3. q.attempt < MaxAttempts(q) \/ q.attempt >= MaxAttempts(q)
  BY <1>1
<1>4. InBounds(q) /\ q.pc # "idle"
  BY <1>1 DEF q
<1>5. Nearer(q, req'[r])
  BY <1>1, <1>2, <1>3, <1>4, AnswerIsNearer, EndIsNearer
<1> QED BY <1>5 DEF q

LEMMA ResumeIsNearer ==
    ASSUME TypeOK, NEW r \in Requests, InBounds(req[r]), Resume(r)
    PROVE  Nearer(req[r], req'[r])
<1> DEFINE q     == req[r]
           again == [q EXCEPT !.pc = "cascade", !.result = "none"]
           start == [again EXCEPT !.todo = Fallbacks[q.target]]
<1>1. q \in Request /\ req \in [Requests -> Request] /\ q.pc = "settled"
  BY DEF TypeOK, Resume
<1>2. \/ req'[r] = IdleRequest
      \/ q.fallback /\ req'[r] = again
      \/ ~q.fallback /\ req'[r] = start
  BY <1>1 DEF Resume, Finish, Goto
<1>3. /\ again.pc = "cascade" /\ again.todo = q.todo
      /\ start.pc = "cascade" /\ start.todo = Fallbacks[q.target]
  BY <1>1 DEF Request
<1> HIDE DEF again, start
<1>4. /\ StepsLeft(q) = 2 + Width * Ahead(q)
      /\ StepsLeft(again) = 1 + Width * Len(q.todo)
      /\ StepsLeft(start) = 1 + Width * Len(Fallbacks[q.target])
  BY <1>1, <1>3 DEF StepsLeft, OwnSteps, Ahead
<1>5. /\ q.fallback => Ahead(q) = Len(q.todo)
      /\ ~q.fallback => Ahead(q) = Len(Fallbacks[q.target])
  BY <1>1 DEF Ahead
<1>6. Width * Ahead(q) \in Nat
  BY <1>1, AheadType
<1>7. InBounds(again) /\ InBounds(start)
  BY <1>3 DEF InBounds
<1>8. Nearer(q, IdleRequest)
  BY <1>1, EndIsNearer
<1>9. q.fallback => Nearer(q, again)
  BY <1>4, <1>5, <1>6, <1>7 DEF Nearer
<1>10. ~q.fallback => Nearer(q, start)
  BY <1>4, <1>5, <1>6, <1>7 DEF Nearer
<1> QED BY <1>2, <1>8, <1>9, <1>10

LEMMA CascadeIsNearer ==
    ASSUME TypeOK, NEW r \in Requests, InBounds(req[r]), Cascade(r)
    PROVE  Nearer(req[r], req'[r])
<1> DEFINE q    == req[r]
           rest == [q EXCEPT !.todo = Tail(q.todo)]
           look == [rest EXCEPT !.pc = "resolving", !.target = Head(q.todo),
                                !.fallback = TRUE]
<1>1. /\ q \in Request /\ req \in [Requests -> Request] /\ q.pc = "cascade"
      /\ q.todo \in Seq(Providers)
  BY DEF TypeOK, Cascade, Request
<1>2. \/ req'[r] = IdleRequest
      \/ q.todo # <<>> /\ req'[r] = rest
      \/ q.todo # <<>> /\ req'[r] = look
  BY <1>1 DEF Cascade, Finish, Goto, DropCandidate
<1>3. Nearer(q, IdleRequest)
  BY <1>1, EndIsNearer
<1>4. ASSUME q.todo # <<>> PROVE Nearer(q, rest) /\ Nearer(q, look)
  <2> DEFINE m == Len(Tail(q.todo))
  <2>1. m \in Nat /\ Len(q.todo) = m + 1
    BY <1>1, <1>4, HeadTailProperties, LenProperties
  <2>2. /\ rest.pc = "cascade" /\ rest.todo = Tail(q.todo)
        /\ look.pc = "resolving" /\ look.fallback = TRUE /\ look.todo = Tail(q.todo)
    BY <1>1 DEF Request
  <2> HIDE DEF m, rest, look
  <2>3. Ahead(q) = m + 1 /\ Ahead(rest) = m /\ Ahead(look) = m
    BY <1>1, <2>1, <2>2 DEF Ahead, m
  <2>4. /\ StepsLeft(q) = 1 + Width * (m + 1)
        /\ StepsLeft(rest) = 1 + Width * m
        /\ StepsLeft(look) = CandidateRetries + 4 + Width * m
    BY <1>1, <2>2, <2>3 DEF StepsLeft, OwnSteps
  <2>5. Width * m \in Nat /\ Width * (m + 1) = Width * m + Width
    BY <2>1, WidthLemma
  <2>6. Width = CandidateRetries + 4 /\ CandidateRetries \in Nat
    BY CallsAssumption DEF Width, CallsAssumption
  <2>7. InBounds(rest) /\ InBounds(look)
    BY <2>2 DEF InBounds
  <2> QED BY <2>4, <2>5, <2>6, <2>7 DEF Nearer
<1> QED BY <1>2, <1>3, <1>4

LEMMA ResolveIsNearer ==
    ASSUME TypeOK, NEW r \in Requests, InBounds(req[r]), Resolve(r)
    PROVE  Nearer(req[r], req'[r])
<1> DEFINE q    == req[r]
           back == [q EXCEPT !.pc = "cascade"]
           call == [q EXCEPT !.pc = "calling", !.attempt = 1]
           shut == [q EXCEPT !.pc = "settled", !.result = "threw"]
<1>1. /\ q \in Request /\ req \in [Requests -> Request] /\ q.pc = "resolving"
      /\ q.fallback
  BY DEF TypeOK, Resolve, InBounds
<1>2. \/ req'[r] = IdleRequest
      \/ req'[r] = back
      \/ req'[r] = call
      \/ req'[r] = shut
  <2>1. CASE Open(r, q)
    BY <1>1, <2>1 DEF Open, Finish, Goto
  <2>2. CASE ~Open(r, q)
    BY <1>1, <2>2 DEF Resolve, Finish, Goto
  <2> QED BY <2>1, <2>2
<1>3. Nearer(q, IdleRequest)
  BY <1>1, EndIsNearer
<1>4. /\ back.pc = "cascade" /\ back.todo = q.todo
      /\ shut.pc = "settled" /\ shut.todo = q.todo /\ shut.fallback = q.fallback
      /\ call.pc = "calling" /\ call.todo = q.todo /\ call.fallback = q.fallback
      /\ call.attempt = 1
  BY <1>1 DEF Request
<1>5. MaxAttempts(call) = CandidateRetries + 1
  BY <1>1, <1>4 DEF MaxAttempts
<1> HIDE DEF back, call, shut
<1>6. /\ StepsLeft(q) = CandidateRetries + 4 + Width * Len(q.todo)
      /\ StepsLeft(back) = 1 + Width * Len(q.todo)
      /\ StepsLeft(shut) = 2 + Width * Len(q.todo)
      /\ StepsLeft(call) = 3 + (CandidateRetries + 1) - 1 + Width * Len(q.todo)
  BY <1>1, <1>4, <1>5 DEF StepsLeft, OwnSteps, Ahead
<1>7. Width * Len(q.todo) \in Nat /\ CandidateRetries \in Nat
  BY <1>1, AheadType, WidthLemma, CallsAssumption DEF CallsAssumption
<1>8. InBounds(back) /\ InBounds(shut) /\ InBounds(call)
  BY <1>4, <1>5, <1>7 DEF InBounds
<1>9. Nearer(q, back) /\ Nearer(q, shut) /\ Nearer(q, call)
  BY <1>6, <1>7, <1>8 DEF Nearer
<1> QED BY <1>2, <1>3, <1>9

LEMMA BeginInBounds ==
    ASSUME TypeOK, NEW r \in Requests, NEW k \in Kinds, NEW p \in Providers,
           Begin(r, k, p)
    PROVE  InBounds(req'[r])
<1> DEFINE q    == [IdleRequest EXCEPT !.kind = k, !.target = p]
           call == [q EXCEPT !.pc = "calling", !.attempt = 1]
<1>1. q \in Request /\ req \in [Requests -> Request]
  BY IdleLemma DEF Request, TypeOK
<1>2. \/ req'[r] = [q EXCEPT !.pc = "settled", !.result = "retryable_status"]
      \/ req'[r] = [q EXCEPT !.pc = "settled", !.result = "threw"]
      \/ req'[r] = IdleRequest
      \/ req'[r] = call
  <2>1. CASE k = "simulated"
    BY <1>1, <2>1 DEF Begin, Goto
  <2>2. CASE k # "simulated"
    <3>1. Open(r, q)
      BY <2>2 DEF Begin
    <3> HIDE DEF q
    <3> QED BY <1>1, <3>1 DEF Open, Finish, Goto
  <2> QED BY <2>1, <2>2
<1> HIDE DEF q
<1>3. /\ [q EXCEPT !.pc = "settled", !.result = "retryable_status"].pc = "settled"
      /\ [q EXCEPT !.pc = "settled", !.result = "threw"].pc = "settled"
      /\ call \in Request /\ call.pc = "calling" /\ call.attempt = 1
  BY <1>1 DEF Request
<1> HIDE DEF call
<1>4. InBounds(call)
  BY <1>3, AttemptsType DEF InBounds
<1> QED BY <1>2, <1>3, <1>4, IdlePc DEF InBounds

\* A step moves one request on, or starts it, or ends all of them.
LEMMA RequestProgress ==
    ASSUME TypeOK, AttemptsBounded, [Next]_vars, NEW r \in Requests
    PROVE  /\ InBounds(req'[r])
           /\ req'[r] # req[r] /\ req[r].pc # "idle"
              => StepsLeft(req'[r]) < StepsLeft(req[r])
<1>1. req[r] \in Request /\ InBounds(req[r]) /\ req \in [Requests -> Request]
  BY DEF TypeOK, AttemptsBounded
<1>2. CASE req'[r] = req[r]
  BY <1>1, <1>2
<1>3. CASE req'[r] = IdleRequest
  BY <1>1, <1>3, EndIsNearer, IdlePc DEF Nearer, InBounds
<1>4. ASSUME NEW u \in Requests, u # r,
             (\E k \in Kinds, p \in Providers : Begin(u, k, p)) \/ Advance(u)
      PROVE  req'[r] = req[r]
  BY <1>1, <1>4
     DEF Begin, Advance, CompletionReply, StreamReply, Resume, Cascade, Resolve,
         Open, Settle, Retry, Finish, Goto
<1>5. ASSUME NEW k \in Kinds, NEW p \in Providers, Begin(r, k, p)
      PROVE  InBounds(req'[r]) /\ req[r].pc = "idle"
  BY <1>5, BeginInBounds DEF Begin
<1>6. CASE Advance(r)
  BY <1>1, <1>6, ReplyIsNearer, ResumeIsNearer, CascadeIsNearer, ResolveIsNearer
     DEF Advance, Nearer
<1>7. CASE Restart
  BY <1>3, <1>7 DEF Restart
<1>8. CASE ReadSummary \/ Tick \/ UNCHANGED vars
  BY <1>2, <1>8 DEF ReadSummary, Tick, vars
<1> QED BY <1>2, <1>4, <1>5, <1>6, <1>7, <1>8 DEF Next, Serve

LEMMA AttemptsAlwaysBounded == Spec => []AttemptsBounded
<1>1. Init => AttemptsBounded
  BY IdlePc DEF Init, AttemptsBounded, InBounds
<1>2. TypeOK /\ AttemptsBounded /\ [Next]_vars => AttemptsBounded'
  BY RequestProgress DEF AttemptsBounded, InBounds, MaxAttempts
<1> QED BY <1>1, <1>2, TypeCorrect, PTL DEF Spec

\* A request can only take finitely many steps: however the providers answer
\* and whatever breakers do meanwhile, every step of it brings it nearer to
\* its end, through retries (retry-client.ts:82-166) and the cascade through
\* its fallbacks (router.ts:86-322), and no other step takes it back.
THEOREM RequestsComeToAnEnd ==
    Spec => [](\A r \in Requests : StepsLeft(req[r]) \in Nat) /\ CallsProgress
<1>1. TypeOK /\ AttemptsBounded => \A r \in Requests : StepsLeft(req[r]) \in Nat
  BY StepsType DEF TypeOK, AttemptsBounded
<1>2. TypeOK /\ AttemptsBounded /\ [Next]_vars =>
        [\A r \in Requests :
            req'[r] # req[r] /\ req[r].pc # "idle"
            => StepsLeft(req'[r]) < StepsLeft(req[r])]_vars
  BY RequestProgress
<1> QED BY <1>1, <1>2, TypeCorrect, AttemptsAlwaysBounded, PTL
        DEF Spec, CallsProgress

-----------------------------------------------------------------------------
LEMMA GateInitLemma == Init => Gate!GateInit
BY DEF Init, NewBreaker, Gate!GateInit

\* One method call of one breaker is a step of its gate, or a stutter.
LEMMA GateTouchLemma ==
    ASSUME IInv, UNCHANGED now, Touches
    PROVE  [Gate!GateNext]_(Gate!gateVars)
<1>0. PICK p \in Providers : \E c \in Outcomes(p) : Store(p, c)
  BY DEF Touches
<1>1. PICK c \in Outcomes(p) : Store(p, c)
  BY <1>0
<1>2. c \in Breaker /\ GateStep(breaker[p], c, now)
  BY OutcomeLemma
<1>3. /\ breaker \in [Providers -> Breaker]
      /\ breaker' = [breaker EXCEPT ![p] = c]
  BY <1>1 DEF IInv, TypeOK, Store
<1>4. CASE c.state = "OPEN" /\ ~(breaker[p].state = "OPEN"
                                 /\ c.lastStateChange = breaker[p].lastStateChange)
  <2>1. Gate!Shut(p)
    BY <1>2, <1>3, <1>4 DEF Gate!Shut, Gate!Rested, GateStep
  <2> QED BY <2>1 DEF Gate!GateNext
<1>5. CASE c.state # "OPEN" /\ breaker[p].state = "OPEN"
  <2>1. Gate!Release({p})
    BY <1>2, <1>3, <1>5 DEF Gate!Release, Gate!Rested, GateStep
  <2> QED BY <2>1 DEF Gate!GateNext
<1>6. CASE \/ c.state = "OPEN" /\ breaker[p].state = "OPEN"
              /\ c.lastStateChange = breaker[p].lastStateChange
           \/ c.state # "OPEN" /\ breaker[p].state # "OPEN"
  BY <1>3, <1>6 DEF Gate!gateVars
<1> QED BY <1>4, <1>5, <1>6

\* Reading every breaker releases the gates that have rested.
LEMMA GateReadLemma ==
    ASSUME IInv, ReadSummary
    PROVE  Gate!GateNext
<1>1. \A p \in Providers :
         \/ breaker'[p] = breaker[p]
         \/ /\ breaker[p].state = "OPEN"
            /\ now - breaker[p].lastStateChange >= RecoveryTime
            /\ breaker'[p].state = "HALF_OPEN"
  <2> SUFFICES ASSUME NEW p \in Providers
               PROVE  \/ breaker'[p] = breaker[p]
                      \/ /\ breaker[p].state = "OPEN"
                         /\ now - breaker[p].lastStateChange >= RecoveryTime
                         /\ breaker'[p].state = "HALF_OPEN"
    OBVIOUS
  <2>1. breaker'[p] = GetState(breaker[p], now)
    BY DEF ReadSummary
  <2>2. breaker[p] \in Breaker /\ now \in Nat /\ Consistent(breaker[p], now)
    BY DEF IInv, TypeOK, BreakerConsistent
  <2> QED BY <2>1, <2>2, GetStateLemma
<1>2. PICK P \in SUBSET Providers :
         P = {p \in Providers : breaker[p].state = "OPEN" /\ breaker'[p].state # "OPEN"}
  OBVIOUS
<1>3. \A p \in Providers :
         /\ p \in P => /\ breaker[p].state = "OPEN"
                       /\ now - breaker[p].lastStateChange >= RecoveryTime
                       /\ breaker'[p].state = "HALF_OPEN"
         /\ p \notin P => breaker'[p] = breaker[p]
  BY <1>1, <1>2
<1>4. UNCHANGED now
  BY DEF ReadSummary
<1> DEFINE G(b) == IF b.state = "OPEN" THEN "shut" ELSE "passing"
           A(b) == IF b.state = "OPEN" THEN b.lastStateChange ELSE 0
<1>5. Gate!Release(P)
  <2>1. \A p \in Providers : /\ G(breaker'[p]) = IF p \in P THEN "passing" ELSE G(breaker[p])
                             /\ A(breaker'[p]) = IF p \in P THEN 0 ELSE A(breaker[p])
    BY <1>3
  <2>2. \A p \in P : /\ p \in Providers
                     /\ G(breaker[p]) = "shut"
                     /\ now - A(breaker[p]) >= RecoveryTime
    BY <1>2, <1>3
  <2> HIDE DEF G, A
  <2>3. /\ \A p \in P : /\ [q \in Providers |-> G(breaker[q])][p] = "shut"
                        /\ now - [q \in Providers |-> A(breaker[q])][p] >= RecoveryTime
        /\ [p \in Providers |-> G(breaker'[p])]
             = [p \in Providers |-> IF p \in P THEN "passing"
                                   ELSE [q \in Providers |-> G(breaker[q])][p]]
        /\ [p \in Providers |-> A(breaker'[p])]
             = [p \in Providers |-> IF p \in P THEN 0
                                   ELSE [q \in Providers |-> A(breaker[q])][p]]
    BY <2>1, <2>2
  <2> QED BY <1>4, <2>3 DEF Gate!Release, Gate!Rested, G, A
<1> QED BY <1>5 DEF Gate!GateNext

LEMMA GateStepLemma == IInv /\ [Next]_vars => [Gate!GateNext]_(Gate!gateVars)
<1> SUFFICES ASSUME IInv, [Next]_vars PROVE [Gate!GateNext]_(Gate!gateVars)
  OBVIOUS
<1>1. CASE Serve
  <2>1. CASE UNCHANGED now /\ UNCHANGED breaker
    BY <2>1 DEF Gate!gateVars
  <2>2. CASE UNCHANGED now /\ Touches
    BY <2>2, GateTouchLemma
  <2>3. CASE ReadSummary
    BY <2>3, GateReadLemma
  <2>4. CASE Tick
    BY <2>4 DEF Tick, Gate!GateNext, Gate!Pass
  <2> QED BY <1>1, <2>1, <2>2, <2>3, <2>4, ServeLemma DEF IInv
<1>2. CASE Restart
  <2>1. Gate!Forget
    BY <1>2 DEF Restart, NewBreaker, Gate!Forget
  <2> QED BY <2>1 DEF Gate!GateNext
<1>3. CASE UNCHANGED vars
  BY <1>3 DEF vars, Gate!gateVars
<1> QED BY <1>1, <1>2, <1>3 DEF Next

\* The breakers implement the gates: an OPEN breaker stays shut for
\* RecoveryTime (circuit-breaker.ts:71-79), whatever late answers, retries,
\* fallbacks, streams and probes of any number of requests record meanwhile.
THEOREM BreakersAreGates == Spec => GateSpec
<1>1. Init => Gate!GateInit
  BY GateInitLemma
<1>2. IInv /\ [Next]_vars => [Gate!GateNext]_(Gate!gateVars)
  BY GateStepLemma
<1> QED BY <1>1, <1>2, IInvHolds, PTL DEF Spec, GateSpec, Gate!GateSpec
=============================================================================
