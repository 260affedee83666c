---------------------------- MODULE GatewayCalls ----------------------------
(***************************************************************************)
(* Upstream calls of the TypeScript gateway: concurrent client requests     *)
(* that share one process-wide breaker per provider.  A request runs        *)
(* through routeGatewayChatRequest (router.ts, stages 9 and 10), which      *)
(* calls the provider through executeProviderHttpWithRetry                  *)
(* (retry-client.ts), or, for a stream, through a loop of its own, and      *)
(* falls back to other providers in attemptCrossProviderFallback.           *)
(*                                                                         *)
(* JavaScript runs one continuation at a time: an action is the code        *)
(* between two awaits, and requests interleave at awaits only.              *)
(***************************************************************************)
EXTENDS CircuitBreaker

CONSTANTS
    Providers,
    Requests,           \* client requests in flight at once
    Fallbacks,          \* Fallbacks[p]: candidate providers, in cascade order
    CompletionRetries,  \* maxRetries of an entitled completion, 2
    CandidateRetries,   \* maxRetries of a fallback candidate, 1
    StreamAttempts,     \* maxStreamAttempts of an entitled stream, 4
    MaxTime             \* bound of the clock (model checking only)

ASSUME CallsAssumption ==
    /\ Providers # {}
    /\ Fallbacks \in [Providers -> Seq(Providers)]
    /\ CompletionRetries \in Nat
    /\ CandidateRetries \in Nat
    /\ StreamAttempts \in Nat \ {0}

VARIABLES
    now,      \* Date.now()
    breaker,  \* breaker[p]: providerRegistry
    req       \* req[r]: the control state of request r

vars == <<now, breaker, req>>

\* Paid plans have canUseCircuitBreaker and canUseCustomFallbacks, the free
\* plan neither: its completions never meet a breaker and are left out, its
\* streams record into the breaker without asking it.  "simulated" is a paid
\* completion with a header that simulates a failure of its provider.
Kinds == {"completion", "stream", "freeStream", "simulated"}
Streaming(k) == k \in {"stream", "freeStream"}

\* How one provider call ends, seen by the code after the await.
Results == {"none", "ok", "client_error", "retryable_status", "threw"}

Request == [pc       : {"idle", "calling", "settled", "cascade", "resolving"},
            kind     : Kinds,
            target   : Providers,
            fallback : BOOLEAN,        \* target is a fallback candidate
            attempt  : Nat,
            result   : Results,
            todo     : Seq(Providers)] \* candidates not tried yet

IdleRequest == [pc |-> "idle", kind |-> "completion",
                target |-> CHOOSE p \in Providers : TRUE,
                fallback |-> FALSE, attempt |-> 0, result |-> "none",
                todo |-> <<>>]

Init ==
    /\ now = 0
    /\ breaker = [p \in Providers |-> NewBreaker(0)]
    /\ req = [r \in Requests |-> IdleRequest]

-----------------------------------------------------------------------------
\* Attempts a call may make: maxRetries + 1, or the stream loop's bound.
MaxAttempts(q) ==
    IF q.fallback THEN CandidateRetries + 1
    ELSE CASE q.kind = "completion" -> CompletionRetries + 1
           [] q.kind = "stream" -> StreamAttempts
           [] OTHER -> 1

\* Only a free stream is opened without checkExecution.
Checked(q) == q.kind # "freeStream"

Store(p, b) == breaker' = [breaker EXCEPT ![p] = b]

Goto(r, q) == req' = [req EXCEPT ![r] = q]

Finish(r) == Goto(r, IdleRequest)

\* The candidate's breaker is trusted since canExecute, before the await.
OpenStale(r, q) ==
    /\ Goto(r, [q EXCEPT !.pc = "calling", !.attempt = 1])
    /\ UNCHANGED breaker

\* checkExecution and, when it lets the call through, the first fetch.
\* A refused stream answers 504 to the client; a refused completion throws.
Open(r, q) ==
    LET p == q.target IN
    IF ~Checked(q) \/ CanExecute(breaker[p], now)
    THEN /\ Goto(r, [q EXCEPT !.pc = "calling", !.attempt = 1])
         /\ IF Checked(q) THEN Store(p, GetState(breaker[p], now))
                          ELSE UNCHANGED breaker
    ELSE /\ UNCHANGED breaker
         /\ IF Streaming(q.kind) THEN Finish(r)
            ELSE Goto(r, [q EXCEPT !.pc = "settled", !.result = "threw"])

-----------------------------------------------------------------------------
\* A client request reaches the execution stages for its provider.  A
\* simulated failure answers 5xx without touching provider or breaker.
Begin(r, k, p) ==
    /\ req[r].pc = "idle"
    /\ LET q == [IdleRequest EXCEPT !.kind = k, !.target = p]
       IN  IF k = "simulated"
           THEN /\ Goto(r, [q EXCEPT !.pc = "settled",
                                     !.result = "retryable_status"])
                /\ UNCHANGED breaker
           ELSE Open(r, q)
    /\ UNCHANGED now

\* Attempts counted down instead of up.
RetryDown(r) == req' = [req EXCEPT ![r].attempt = @ - 1] /\ UNCHANGED breaker

Retry(r) == req' = [req EXCEPT ![r].attempt = @ + 1] /\ UNCHANGED breaker

Settle(r, result) ==
    Goto(r, [req[r] EXCEPT !.pc = "settled", !.attempt = 0, !.result = result])

\* One fetch of executeProviderHttpWithRetry answers.  A transient exception
\* is one isRetryableError accepts; the abort by the deadline timer is not.
CompletionReply(r) ==
    LET q    == req[r]
        p    == q.target
        last == q.attempt >= MaxAttempts(q)
        Keep == UNCHANGED breaker
        Fail == Store(p, RecordFailure(breaker[p], now))
    IN  /\ q.pc = "calling"
        /\ ~Streaming(q.kind)
        /\ \/ Settle(r, "ok") /\ Store(p, RecordSuccess(breaker[p], now))
           \/ Settle(r, "client_error") /\ Keep
           \/ ~last /\ Retry(r)
           \/ last /\ Settle(r, "retryable_status") /\ Keep    \* 429
           \/ last /\ Settle(r, "retryable_status") /\ Fail    \* 5xx
           \/ last /\ Settle(r, "threw") /\ Fail               \* transient
           \/ Settle(r, "threw") /\ Fail                       \* permanent
        /\ UNCHANGED now

\* The stream loop: exceptions are retried whatever they say and never
\* recorded; the final status is, and success is as soon as headers arrive.
\* A client that is gone ends the loop early, with what the call answered.
StreamReply(r) ==
    LET q    == req[r]
        p    == q.target
        last == q.attempt >= MaxAttempts(q)
        Keep == UNCHANGED breaker
    IN  /\ q.pc = "calling"
        /\ Streaming(q.kind)
        /\ \/ Finish(r) /\ Store(p, RecordSuccess(breaker[p], now))
           \/ Finish(r) /\ Keep                    \* 4xx, 429, exception
           \/ ~last /\ Retry(r)
           \/ Finish(r) /\ Store(p, RecordFailure(breaker[p], now))   \* 5xx
        /\ UNCHANGED now

\* The caller of executeProviderHttpWithRetry resumes.  For a candidate it
\* records the outcome a second time, a client error as a failure too.
Resume(r) ==
    LET q     == req[r]
        p     == q.target
        again == [q EXCEPT !.pc = "cascade", !.result = "none"]
    IN  /\ q.pc = "settled"
        /\ \/ /\ q.fallback
              /\ q.result = "ok"
              /\ Finish(r)
              /\ Store(p, RecordSuccess(breaker[p], now))
           \/ /\ q.fallback
              /\ q.result # "ok"
              /\ Goto(r, again)
              /\ Store(p, RecordFailure(breaker[p], now))
           \/ /\ ~q.fallback
              /\ q.result \in {"retryable_status", "threw"}
              /\ Goto(r, [again EXCEPT !.todo = Fallbacks[p]])
              /\ UNCHANGED breaker
           \/ /\ ~q.fallback
              /\ q.result \in {"ok", "client_error"}
              /\ Finish(r)
              /\ UNCHANGED breaker
        /\ UNCHANGED now

\* The loop's bug that would never end: the candidate is not consumed.
DropCandidateNever(q) == q

DropCandidate(q) == [q EXCEPT !.todo = Tail(@)]

\* Top of the candidate loop.  A candidate equal to what just failed, or
\* named by the simulation header, is skipped before its breaker is read.
Cascade(r) ==
    LET q    == req[r]
        c    == Head(q.todo)
        rest == DropCandidate(q)
    IN  /\ q.pc = "cascade"
        /\ \/ q.todo = <<>> /\ Finish(r) /\ UNCHANGED breaker
           \/ q.todo # <<>> /\ Goto(r, rest) /\ UNCHANGED breaker
           \/ /\ q.todo # <<>>
              /\ Store(c, GetState(breaker[c], now))
              /\ IF CanExecute(breaker[c], now)
                 THEN Goto(r, [rest EXCEPT !.pc = "resolving", !.target = c,
                                           !.fallback = TRUE])
                 ELSE Goto(r, rest)
        /\ UNCHANGED now

\* resolveProviderCredentials of the candidate returns: nothing usable; a
\* simulated key, which answers without a call but records a success; or a
\* key to call with, after a second look at the breaker.
Resolve(r) ==
    LET q == req[r] IN
    /\ q.pc = "resolving"
    /\ \/ /\ q.kind # "simulated"
          /\ Goto(r, [q EXCEPT !.pc = "cascade"])
          /\ UNCHANGED breaker
       \/ /\ q.kind = "simulated"
          /\ Finish(r)
          /\ Store(q.target, RecordSuccess(breaker[q.target], now))
       \/ q.kind # "simulated" /\ Open(r, q)
    /\ UNCHANGED now

-----------------------------------------------------------------------------
\* /api/ready and the diagnostics service read every breaker's state.
ReadSummary ==
    /\ breaker' = [p \in Providers |-> GetState(breaker[p], now)]
    /\ UNCHANGED <<now, req>>

\* The process dies and starts again, which takes time: the registry is
\* empty, calls in flight are lost.
Restart ==
    /\ now < MaxTime
    /\ now' = now + 1
    /\ breaker' = [p \in Providers |-> NewBreaker(now + 1)]
    /\ req' = [r \in Requests |-> IdleRequest]

Tick ==
    /\ now < MaxTime
    /\ now' = now + 1
    /\ UNCHANGED <<breaker, req>>

Advance(r) == CompletionReply(r) \/ StreamReply(r) \/ Resume(r) \/ Cascade(r)
              \/ Resolve(r)

\* A step within one life of the process.
Serve ==
    \/ \E r \in Requests :
          \/ \E k \in Kinds, p \in Providers : Begin(r, k, p)
          \/ Advance(r)
    \/ ReadSummary
    \/ Tick

Next == Serve \/ Restart

\* Every await ends: fetch is aborted by the deadline timer (retry-client.ts
\* and router.ts set one per attempt), backoff sleeps are bounded, and the
\* event loop runs every continuation.  Nothing makes new requests arrive.
Fairness == \A r \in Requests : WF_vars(Advance(r))

Spec == Init /\ [][Next]_vars

FairSpec == Spec /\ Fairness

-----------------------------------------------------------------------------
\* Every variable has its type.
TypeOK ==
    /\ now \in Nat
    /\ breaker \in [Providers -> Breaker]
    /\ req \in [Requests -> Request]

\* The counters of a breaker agree with its state: while it lets calls
\* through the number of remembered failures is below the threshold, once it
\* has tripped exactly the tripping failures stay remembered, and a success
\* counted in HALF_OPEN never survives into CLOSED.
Consistent(b, t) ==
    /\ b.lastStateChange <= t
    /\ b.halfOpenSuccesses < HalfOpenSuccessThreshold
    /\ b.state = "CLOSED" => /\ Len(b.failureTimestamps) < FailureThreshold
                             /\ b.halfOpenSuccesses = 0
    /\ b.state # "CLOSED" => Len(b.failureTimestamps) = FailureThreshold

\* Every breaker is consistent, whatever its callers interleave
\* (circuit-breaker.ts:94-149).
BreakerConsistent == \A p \in Providers : Consistent(breaker[p], now)

\* A breaker trips on bursts only: while it is not CLOSED, the failures that
\* tripped it are remembered and lie within one monitoring window, however
\* old the ones before them are and whoever recorded them
\* (circuit-breaker.ts:107-121 and :146-149).
OpensOnBursts ==
    \A p \in Providers :
        LET ts == breaker[p].failureTimestamps IN
        breaker[p].state # "CLOSED" =>
            \A i, k \in 1..Len(ts) : ts[k] - ts[i] <= MonitoringWindow

\* A call that consults the breaker starts only when its provider's breaker
\* is not OPEN at that very moment, also for a fallback candidate whose
\* breaker was read before its credentials were awaited
\* (retry-client.ts:78-80, router.ts:107-117).
AdmittedOnlyWhenNotOpen ==
    [][\A r \in Requests :
          /\ req[r].pc # "calling"
          /\ req'[r].pc = "calling"
          /\ Checked(req'[r])
          => breaker'[req'[r].target].state # "OPEN"]_vars

\* Under fairness every client request comes to an end, however the
\* provider answers and whatever the breakers do meanwhile.
EveryRequestEnds == \A r \in Requests : req[r].pc # "idle" ~> req[r].pc = "idle"

\* The breakers implement the gates of ProviderGate: an OPEN breaker is a
\* shut gate, and late answers of calls begun earlier cannot open it early.
Gate == INSTANCE ProviderGate WITH
            gate   <- [p \in Providers |->
                         IF breaker[p].state = "OPEN" THEN "shut" ELSE "passing"],
            shutAt <- [p \in Providers |->
                         IF breaker[p].state = "OPEN"
                         THEN breaker[p].lastStateChange ELSE 0]

GateSpec == Gate!GateSpec
=============================================================================
