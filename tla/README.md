# OsterdOps: verification project

TLA+ models of the stateful core of OsterdOps, their model-checking
configurations, and machine-checked proofs about them.  OsterdOps is a gateway
for AI providers with cost governance: a Next.js server in TypeScript
(`src/osterdops/`) and a separate high-throughput gateway in C++
(`src/gateway-cpp/`).  Below, `lib/` is `src/osterdops/src/lib/`, `docs/` is
`src/osterdops/docs/` and `gateway-cpp/` is `src/gateway-cpp/`.

Contents: [components](#1-components-of-the-system) ·
[modules and the code](#2-modules-and-their-correspondence-to-the-code) ·
[runs](#3-runs) · [what the checks found](#4-disagreements-found) ·
[fairness](#5-fairness) · [proofs](#6-proofs) ·
[left out](#7-abstractions-and-what-is-left-out) · [plan](#8-plan) ·
[how to run](#9-running-the-checks)

## 1. Components of the system

| component | state it keeps | operations | correct when |
|---|---|---|---|
| provider circuit breaker, `lib/gateway/circuit-breaker.ts` | per provider, in the process: state, failure timestamps, probe successes, time of last change | `getState`, `canExecute`, `recordSuccess`, `recordFailure`, registry look-up | an OPEN breaker stays shut for its recovery time; state and counters agree; it closes only on enough probes |
| gateway calls, `lib/gateway/router.ts`, `retry-client.ts` | control state of every request in flight | primary call with retries, streaming call, cascade through fallback candidates | no checked call goes through an OPEN breaker; every request ends |
| budgets, `lib/services/budget.service.ts`, `lib/budget/evaluator.ts` | budget documents in Firestore | create, patch, pause, resume, delete, evaluate, preflight (`checkBudgetEnforcement`) | an exhausted HARD budget blocks, within a bounded time; a paused or deleted one does not |
| budget alerts, `lib/services/alert.service.ts` | alert documents, one per budget, threshold and period | deduplicated create, acknowledge, resolve | a budget becomes EXCEEDED only after its alert is stored |
| cost ledger and usage, `lib/services/cost.service.ts`, `usage.service.ts` | cost records, usage records, counters of project and organization | `recordCost`, `recordGatewayUsage`, `aggregateSpend` | each request id is counted once; counters and documents stay in step |
| cache pools, `lib/cache/` | bounded LRU maps with expiry, in the process | get, set, invalidate, evict | a stale entry lives for a bounded time |
| C++ gateway, `gateway-cpp/src/` | limiter windows and budgets, in memory, each under a mutex | `check_and_consume`, `check_preflight`, `record_spend`, connection thread | the limiter's window slides; a HARD budget's overshoot is bounded |
| job queue and shutdown, `lib/jobs/`, `lib/infrastructure/shutdown.ts` | pending list, all jobs, dead letters, idempotency keys, the running shutdown | enqueue, process, retry, recover, replay, prune, clear; drain, deadline, exit | no accepted job is lost; none is in two places; a key has one unfinished job; the drain ends with its handlers, the shutdown in any case |
| API keys, `lib/services/api-key.service.ts`, the routes `api/v1/api-keys`, `keys`, `projects/…/api-keys`, `organizations/…/keys` | key documents, each process's registry, the verification cache | create (four routes), list, count against the plan (two of them), revoke, rotate, authenticate | a key a client was given survives; a revoked key is refused within a bounded time |
| idempotency, `lib/api/idempotency.ts` | records PROCESSING/COMPLETED, in the memory of each process and in Firestore | check, save | a retry of an answered request creates nothing and gets the first reply, on any process and after restarts |
| streaming, `lib/gateway/stream.ts` | finalisation flag and accumulated usage per stream | read loop, cancel, finalise | usage of a stream is recorded once |
| billing, `lib/billing/`, the Stripe webhook route | subscription and invoice documents, one record per accepted event | webhook events, plan changes, cancellation, invoices, access check | an accepted event has taken effect; it is applied once |
| rate limiting, `lib/rate-limit.ts`, `lib/infrastructure/rate-limit/` | fixed-window buckets | consume, prune, evict | at most the limit per window |
| outgoing webhooks, workflows, integrations, audit, … | mostly Firestore documents | see `PROJECT.json` | see `PROJECT.json` |

How they interact.  A client request enters `routeGatewayChatRequest`: it is
authenticated (API keys, cache), counted by the rate limiter, checked against
the budgets (preflight and its cache), sent upstream through retry client,
breakers and fallback cascade, and finally recorded as usage, which invalidates
the cached verdict and starts an unawaited evaluation of the project's budgets,
which may raise alerts.  The breakers are shared by all tenants of a process;
budgets, alerts and usage are shared by all processes through Firestore.
First of all a request is admitted by the monthly quota, on a cached copy of the
counter that its own recording will increment.  Keys, members, subscription and
invoices change through routes of their own; the plan in the subscription decides
the limits of the key and quota checks.  Background jobs are drained by the
shutdown coordinator.  The C++ gateway is a program of its own that shares no
state with the server.

What is hard here: requests interleave at every `await` over shared breakers,
cached verdicts and documents that are read, then overwritten; answers arrive
after the state they were asked in is gone; any awaited access may fail between
two writes; the process-wide state is lost at a restart; in the C++ program two
critical sections per request leave a gap that threads share.
`PROJECT.json` lists each hazard at its line with the property that covers it, or
why none does.

## 2. Modules and their correspondence to the code

| module | models |
|---|---|
| `CircuitBreaker` | class `CircuitBreaker`: a record and one function per method |
| `ProviderGate` | abstract specification: what breakers promise their callers |
| `GatewayCalls` | concurrent gateway requests over the breakers; EXTENDS `CircuitBreaker`, refines `ProviderGate` |
| `GatewayProbes` | `GatewayCalls` with a history variable counting probe answers |
| `BudgetEnforcement` | budgets, evaluation, alerts, preflight and its cache |
| `CppGateway` | limiter, budgets and connection threads of the C++ gateway |
| `JobLifecycle` | abstract specification: what the queue promises about one job |
| `JobQueue` | queue, workers, drain, recovery and shutdown; refines `JobLifecycle` |
| `Billing` | subscription, invoices, members and the Stripe webhook |
| `UsageLedger` | admission by the quota, streams, recording of usage, counters |
| `OnceOnly` | abstract specification: what an idempotency key promises |
| `KeyIssuance` | creation of API keys by four routes, idempotency records, the plan's limit, revocation and rotation; refines `OnceOnly` |
| `*Proofs` | the theorems about the module they are named after |
| `MC*` | values for TLC: fallback tables, capped budgets, symmetry |

**CircuitBreaker, GatewayCalls.**  JavaScript runs one continuation at a time, so
a breaker method is atomic and an action of `GatewayCalls` is the code between
two awaits.

| action | code |
|---|---|
| `Begin` | stage 9 up to the first `fetch`, or the refusal by `checkExecution` |
| `CompletionReply` | one turn of the loop in `executeProviderHttpWithRetry` |
| `StreamReply` | one turn of the streaming loop in `router.ts` |
| `Resume` | the caller takes the outcome: done, or `attemptCrossProviderFallback`; a candidate's outcome is recorded a second time, as the code does |
| `Cascade`, `Resolve` | the candidate loop before and after its credentials are awaited |
| `ReadSummary` | `/api/ready` and diagnostics: reading the state of a breaker moves it on |
| `Restart`, `Tick` | the process starts anew; time passes |

Reading has effects here: `getState` turns OPEN into HALF_OPEN, so every read
that the code does stores its result.

**BudgetEnforcement.**  A task is a request; each step is one Firestore access or
the code up to the next await.  `BeginRequest`, `Query`, `Answer` are the preflight:
the query reads the store in one step and its answer is cached in a later one,
over whatever was invalidated meanwhile.  `RecordUsage`, `AfterSpend`,
`ListBudgets` follow a successful call.  `ReadBudget`, `Aggregate`, `ReadAlert`,
`WriteAlert`, `WriteBudget` are `evaluateBudget`, which keeps its own copy of the
limit and the period and ends by overwriting status and spend.  `BeginChange`,
`Change`, `ClearCache` are pause, resume, patch and delete (existence check, write,
invalidation).  `Fail` ends a task at any await.  `RecordCost` stands for `recordCost`,
which no code in the repository calls: it is an action of the environment.
`RecordUsage` leaves the budgets and the ledger as they are, as the code does.
`held`, `openAge` and `shutAge` are history variables that no guard reads.

**CppGateway.**  `Consume`, `Preflight` and `RecordSpend` are the three critical
sections of a connection thread, in the order `gateway_server.cpp` calls them; the
upstream call lies between the last two.  The deque of the limiter is a sequence,
`Recent` its `while` loop.  The constructor enters its one budget for a project and
for an organization, two entries with a spend each, and a charge adds to both.  The
alerts `record_spend` returns are not modelled: its caller discards them.  `admitted`
is a history variable.

**JobQueue.**  An action is the code between two awaits: `Enqueue` with pruning and
key check; `Take` (inside `ProcessNext` and `WorkerClaims`) up to the handler's await;
`Settle` the rest of `processNext`, with the outcome and its classification chosen.
`processBatch` starts its workers in one synchronous loop, in which each claims
its first job: they are "fresh" until then and nothing else runs (`Quiet`).  A
shutdown drains (`BeginShutdown`, `WorkerClaims`, `WorkerLeaves`), recovers
(`Recover`) and ends (`EndShutdown`); its `Deadline` may settle the promise while the
drain runs on, and another shutdown may then begin.  `Exit` empties everything: the
queue is in memory.  A handler is awaited without a timeout and may never settle.  `disturbed` is history: jobs `recoverInterruptedJobs` or `clear`
took from under a running handler, for which the code promises nothing.
`JobLifecycle` knows only a job's status and attempts; each action of the queue is
one of its moves, or touches disturbed jobs.

**Billing.**  A delivery is one POST of the webhook: `Begin` or `Skip` after the
look-up of the event's record, `FindInvoice`, `MarkInvoice`, `WriteSubscription` as the
event's type asks, `Record`, `Reply`; `Fail` ends it at any step with an error.
`Send` and `Resend` are Stripe: an event comes again until it is accepted, twice at a
time if it likes.  Members change the subscription (`CreateSubscription`,
`ChangePlan`, `CancelSubscription`, `ReactivateSubscription`) and create invoices
(`LookUpInvoice`, `WriteInvoice`) in between.  Documents hold the raw status the code
writes: `Reported` are the statuses Stripe names and `Asked` those a member names for
an invoice, any of them.  `Read` is what `sanitizeSubscription` makes of one, TRIALING
of every status it does not know, and `Grants` whether that gives access.  History: `known`, the events whose
invoice existed when they were first sent; `done`, the writes of each event;
`applications`, how often it was applied.

**UsageLedger.**  `Admit` is the quota check on the cached organization
(`OrganizationSeen`, `Expire`).  A reply is whole (`Answer`) or a stream (`OpenStream`),
whose end (`LoopEnds`) races with `ClientLeaves` and its callback (`CancelEnds`).  A
recording looks for the document of its request id (`LookUp`), commits the batch
(`Commit`) and counts the organization's request again (`CountAgain`), each of which
may fail and is then swallowed as in the code.  `Crash` loses requests, recordings and
cache.  History: `counted`, `countedAgain`, and `contested`, the requests that found no
document while another recording of their id was about to commit.

**KeyIssuance.**  A request carries a header and a body and is served by one process,
chosen in `Init`.  `Arrive` reads the record in memory, `LookUp` and `Claim` the
document (two accesses, with a gap between), `Mark` the memory again: that is
`checkIdempotency`, whose errors are swallowed (`LookUpFails`, `ClaimFails`).  A record
of another body makes the request fail: the route's `catch` turns the conflict into
status 500.  A record that is being processed lets it through.  `ArriveUnkeyed` stands
for `POST /api/v1/api-keys` without the header and for the three routes that read
none, of which `/api/v1/keys` counts the keys and the two under a project do not.
`CountKeys` is `checkCanCreateKey`; `CountBlindly` the same when the listing fails and
only the process's own keys are seen.  `Store`, `StoreFails`, `Register` create the key;
`Save` and `Persist` complete the record.  A refused request leaves its PROCESSING
record behind, as the code does.  `Revoke` and `Rotate` change a key's status; a
rotation makes a revoked key active again.  `Crash` takes the requests and the memory
of a process.  History: `contested` (two requests of a key at once), `interrupted` (a
request that did not complete its record), `retries` (arrived after a request of its
key was answered and while none was under way), `unwritten` (its document failed).

## 3. Runs

| run | question | bounds |
|---|---|---|
| `gateway_calls` | do breakers stay consistent and shut while requests of every kind interleave, and does every request end? `BreakerConsistent`, `OpensOnBursts`, `AdmittedOnlyWhenNotOpen`, `EveryRequestEnds` under `FairSpec`, and `GateSpec`: the breakers implement `ProviderGate` | 2 requests, 1 provider with itself as fallback, threshold 3, the real retry counts, clock 0..3 |
| `gateway_probes` | violation, see 4.1 | 2 requests, 1 provider, threshold 2, clock 0..3 |
| `budget_verdicts` | for how long is a stale verdict used, and what do failing and overlapping evaluations leave behind? `AdmissionLag`, `RefusalLag`, `PausedNeverBlocks`, `ExceededIsAnnounced`, `DeletedStaysDeleted` | 1 budget, 2 tasks, 2 periods, lives 1 and 0, answers within the instant |
| `budget_pause` | violation, see 4.2 | as `budget_verdicts`, lives 0 |
| `cpp_gateway` | how far may threads overspend, and beat the window? `SpendBounded`, `WindowSlides` | 3 threads, 2 keys, the 2 entries of the seeded budget, a cost of up to 2 against a limit of 2, window 2, clock 0..3 |
| `job_queue` | are jobs found, in one place, exclusive per key, true to `JobLifecycle`, and do drain and shutdown end? `JobsAreFound`, `OnePlace`, `OneJobPerKey`, `LifecycleSpec`, `DrainEnds`, `ShutdownSettles` | 2 jobs, 1 key, 1 type, 2 attempts, 1 retained job, 1 caller, a shutdown with 2 workers |
| `billing` | has an accepted event taken effect, how often, and does it in the end? `AckedWasApplied`, `DuplicatesAreBounded`, `EventsTakeEffect` | 2 of 4 events (a failed and a paid invoice, a status the code knows and one it does not), 2 deliveries at a time, 1 invoice, 1 creator, 1 fault |
| `billing_single_execution` | violation, see 4.3 | as `billing`, no fault |
| `usage_ledger` | is each id counted once, do the counters agree, is a stream metered once and settled? `CountedOnce`, `CountersInStep`, `StreamsAreMetered`, `StreamsAreSettled` | 3 requests, two with one id, one a stream, quota 3, 2 faults |
| `usage_quota` | violation, see 4.4 | as `usage_ledger`, no fault |
| `key_issuance` | what does a retry do, and what does it get? `RetriesCreateNothing`, `RetriesReplay`, and `OnceSpec`: the records implement `OnceOnly` | 3 requests by any route, with or without the one key, 2 bodies, 2 processes, limit 1, 1 fault |
| `key_durability` | violation, see 4.5 | 2 requests, 2 processes, 2 faults |

Every passing run checks `TypeOK` besides.

Why the bounds are enough.  Breakers of different providers share nothing but their
callers, so two requests on one provider give every pairwise interleaving of calls,
late answers and cascades at a breaker; its fallback list names the provider itself,
as a model's fallback may be another model of the same provider.  Two failing requests
with the real retries make more failures than the threshold of 3; a clock of three
recoveries and monitoring windows lets a breaker open, be probed, open again, and
forget failures.  Two tasks are an
evaluation and what overtakes it; verdict lives of different length tell which
one a property depends on.  In `CppGateway` three threads can all pass one
preflight before the first is charged, and a cost of 2 against a limit of 2 lets each
of them spend all of it; four clock values show an admission expire at the very end of
its window.  Two jobs and one retained job make pruning drop one job's key while the
other is unfinished; a batch of two with a caller beside it lets the drain, the
caller and recovery meet at one job, and two attempts tell a retry from the last
one.  Two deliveries at a time are a duplicate or a reordering; one fault
separates two writes of one event, and the events taken two at a time give every
pair that could overwrite each other; a checkout and a deletion write what members
write.  Three requests are two of an id
and a third that meets the quota they used up.  Three requests for a key are one
that completes, one that retries, and one that overtakes either; the second
process is where the retry finds no memory.  Where a bound matters most the
theorems of section 6 remove it: they hold for every number of jobs, events,
requests, processes, amounts, lives and late answers.

Symmetry is declared for requests, tasks, threads, keys, bodies and processes,
which differ in nothing but their names, and only in runs without liveness
properties.  The deadlock check is on except in the runs of `UsageLedger` and
`KeyIssuance`, whose finitely many requests all come to their end.

What each property guards against, and the mutation of the code it detects, is
in `PROJECT.json` (`mutants`); the mutated operator stands next to the original in
the module.

`OrgWide` is empty in every budget run, so that the restriction of `ListBudgets` to
budgets with this project's id makes no difference there; the theorems about
`BudgetEnforcement` hold for every `OrgWide`.

## 4. Disagreements found

4.1 *A breaker closes on fewer probes than promised* (`gateway_probes`,
`ClosesOnlyAfterProbes`).  `docs/disaster-recovery.md:69` asks for two consecutive
successes.  A successful candidate is recorded by the retry client and again by
its caller (`retry-client.ts:93`, `router.ts:305`), and a failed probe reopens the
breaker without resetting the successes (`circuit-breaker.ts:111`).

4.2 *An evaluation ends a pause* (`budget_pause`, `PausedStaysPaused`).
`docs/budgets.md:27`: "PAUSED: Budget is temporarily deactivated; alerts and
blocking are suppressed."  An evaluation that read the budget before the pause
writes ACTIVE or EXCEEDED over it (`budget.service.ts:584`).  Blocking stays
suppressed, because the pause also clears `enabled`, which evaluations leave alone: that is
`PausedNeverBlocks`, and it holds.

4.3 *A webhook event is executed twice* (`billing_single_execution`,
`SingleExecution`).  `docs/payment-providers.md:39` promises "idempotent
single-execution" by the event's record.  The record is looked for at the beginning of
the handler and written at its end (`route.ts:49`, `:121`): two deliveries at a time both
apply the event, although nothing fails.  What holds is `DuplicatesAreBounded`: an event
is applied at most once per failed delivery and per delivery that runs at the same
time.

4.4 *The monthly quota lasts for half its requests* (`usage_quota`, `QuotaIsGranted`).
`router.ts:421`: "If monthly requests exceed monthlyRequestQuota, reject with 429".
Each recording increments the organization's counter in its batch
(`usage.service.ts:165`) and again after it (`:182`), where the comment speaks of the
simulated organization in memory only.  That nobody is refused before half the quota
was begun to be recorded is the theorem `QuotaLastsHalf`.

4.5 *A key can be lost* (`key_durability`, `AnsweredKeysSurvive`).
`docs/disaster-recovery.md:22` promises "zero credential loss".  A key whose document
cannot be written is kept in the memory of the process and answered with 201
(`api-key.service.ts:184`); the process's end loses it.  That nothing else loses a key
is the theorem `AnswersWereMade`.

Seen while modelling, and described here rather than by a run: each shows in a step or
two, or in a call that is missing.

- `docs/disaster-recovery.md:63` records a breaker failure on "5xx / Timeout Exhausted".
  The cascade records one for every candidate reply that is not ok (`router.ts:301`),
  so that a 400 or 401 of one tenant counts against the provider for all of them.
- `docs/disaster-recovery.md:61` sends a "Single Probe Request" through a HALF_OPEN
  breaker; `canExecute` lets every request through.
- `docs/budgets.md:39` lets the gateway reject requests once a HARD budget is exceeded.
  The gateway records its spend as usage (`router.ts:1255`); budgets are evaluated from
  the cost ledger, which only `recordCost` fills and nothing calls.
- `docs/disaster-recovery.md:101` and `usage.service.ts:83` promise no double count.  Two
  recordings of one id that overlap are both counted; `CountedOnce` says that nothing
  else is.
- `docs/api/idempotency.md:25` answers a key reused with another body with 409 and
  IDEMPOTENCY_CONFLICT; the route's `catch` makes it a 500 (`api-keys/route.ts:195`).
- `docs/api/idempotency.md:3` prevents "duplicate execution during network retries".
  A retry that meets a request of its key under way, or one that was refused or cut off
  before its record was complete, is let through and creates a second key
  (`idempotency.ts:82`).  Of bodies that race, the completed record may name one body
  and carry the reply of the other.
- The plan's limit of keys: the two routes under a project do not count
  (`projects/[projectId]/api-keys/route.ts:63`,
  `organizations/[orgId]/projects/[projectId]/keys/route.ts:51`), a rotation makes a
  revoked key active (`api-key.service.ts:535`), and requests that overlap each find
  room.
- `gateway-cpp/README.md:45` announces "Budget Threshold Alerts"; the server discards
  what `record_spend` returns (`gateway_server.cpp:439`, `:472`), and the one budget it
  seeds is entered twice, so that a crossing makes two alerts of one budget.
- A subscription status the code does not know, as Stripe's `paused` or
  `incomplete_expired`, is stored as it came and read as TRIALING, which grants access
  (`subscription.service.ts:46-54`).
- A payment event whose invoice does not exist yet is accepted and lost
  (`route.ts:98`).
- A job recovered from under a running handler is run twice
  (`memory-queue.ts:196`), which `OnePlace` and `OneJobPerKey` except.

## 5. Fairness

Fairness is weak throughout and is given only to code that the event loop is bound
to run.

- `GatewayCalls`: the continuation of each request (`Advance(r)`).  Every attempt sets
  a deadline timer that aborts its `fetch`, and backoff sleeps are bounded.
  Neither arrivals, nor the clock, nor restarts, nor a particular answer are
  assumed: `EveryRequestEnds` rests on the attempt counters and on the candidate
  list growing shorter.
- `JobQueue`: the steps of a drain's workers between handlers (`WorkerTurn`), `Recover`,
  and the timer of the `Deadline`.  Handlers are the callers' code, awaited without a
  timeout: no fairness makes them settle.  `DrainEnds` says so as its condition
  (`HandlersSettle`: those the drain itself called) and rests on the `processed`
  counter, for retries and replays refill the queue; `ShutdownSettles` needs no such
  condition and rests on the deadline.  Nothing is assumed of other callers.
- `Billing`: the handler runs on (`Handle(d)`) and Stripe resends an event until it is
  accepted (`Resend(e)`).  Failures are bounded, not excluded; that is what a service
  that recovers means.
- `UsageLedger`: a provider's reply ends, a cancelled reader settles, and each step of
  a recording runs.  No client has to leave, and no call has to fail.

No liveness is claimed for budgets, for nothing in the code schedules an
evaluation, nor for requests for a key, whose steps are one straight line.

## 6. Proofs

`GatewayCallsProofs`, from `BreakerAssumption` and `CallsAssumption`, for all sets of
providers and requests, all thresholds, windows, retry limits and fallback lists:

- `TypeCorrect` and `BreakersConsistent`.  `TypeOK /\ BreakerConsistent` is inductive as it
  stands.  The argument goes through one lemma per breaker method: each maps a
  consistent breaker to a consistent one, whatever the caller is doing.
  Pruning can only shorten the window, and a push that reaches the threshold
  leaves CLOSED in the same method.
- `BreakersAreGates`: `Spec => GateSpec`.  The gate of a provider is shut exactly
  while its breaker is OPEN.  Each breaker method either leaves the gate, shuts it
  (`Shut`), or releases it after its rest (`Release`); the lemmas per method say
  which, and the theorem collects them over the actions.  The invariant is needed for
  "a gate is only shut anew once it has rested".
- `BreakersOpenOnBursts`: a breaker that is not CLOSED still remembers the failures
  that tripped it, and no two of them are further apart than the monitoring
  window.  This is not inductive for the breakers that are not CLOSED alone:
  `InWindow` extends it to those on their way to the threshold, with the order of
  the timestamps, from which it follows that the filter of `recordFailure`, modelled
  as dropping a prefix, drops exactly the old ones.
- `AdmissionsFindNoOpenBreaker`: `AdmittedOnlyWhenNotOpen`, from one lemma on `Open`, the
  only way into a call, and one that says that every other turn leaves a call where
  it is or begins it there.
- `RequestsComeToAnEnd`: the measure of a request is its attempts and its candidates
  left, weighted so that moving on to the next candidate costs more than the
  attempts it brings.  Each turn of the request lowers it and no other step
  touches it.  The proof found a defect of an earlier model: the retry count of a
  request was a `CASE` whose guards overlapped, which TLC reads from the top and
  TLA+ does not; it is an `IF` now, as in the code.

`CppGatewayProofs`, from `CppAssumption`, for any number of threads, keys and budgets:

- `TypeCorrect`.
- `SpendIsBounded`: the bound alone is not inductive, since a thread that has
  passed its preflight may still be charged.  `SpendCovered` strengthens it:
  `spend + MaxCost * |threads that will be charged| < Limit + MaxCost * |Threads|`.
- `LimiterSlides`: `WindowIsTail` strengthens `WindowSlides`: a key's window is the end
  of its admission history, both are in clock order, and everything dropped from
  the window is at least `Window` old.

`BudgetEnforcementProofs`, from `BudgetAssumption`, for all budgets, tasks, amounts,
periods, lives and answer times:

- `TypeCorrect`.
- `PausedDoNotBlock`: a pause also clears `enabled`, and no evaluation writes that
  field; `HeldAreOff` says so and is inductive.
- `AdmissionIsTimely`, `RefusalIsTimely`: the age of the store's state must be compared
  with the ages of every verdict still under way and of the cached one.  `Timely`
  (`AnswersTimely` for verdicts not yet used, `EntryTimely` for the cached one, whose
  remaining life tells its age) carries these ages through every step and the clock.
- `ExceededWereAnnounced`: `WritingAnnounced` says that an evaluation about to write
  EXCEEDED has an alert stored for its period; alerts are never removed.
- `DeletedBudgetsStay`: `BudgetWriters` names the only steps that write a budget, and each
  of them needs the document to exist.

`JobQueueProofs`, from `JobQueueAssumption`, for any number of jobs, keys, callers,
shutdowns and any limits:

- `TypeCorrect`, `NoJobLost`, `JobInOnePlace`, `KeysAreExclusive`,
  `ImplementsLifecycle`.  The invariant `Inv` joins the three properties with what they
  lean on: `WorkersBelong` (a drain's worker works only while it drains),
  `AttemptsLeft` (a queued job has an attempt left), `KeysName` (the key of a
  retained job names it) and `UnfinishedKept` (an unfinished job is retained, whatever
  is pruned).
- `FreshWorkersFindWork`: no worker that a batch starts finds the queue or the batch
  used up.  `FreshInOrder` makes it inductive: the workers of one batch only are
  fresh, those after the last that claimed, and the queue holds a job for each that
  the batch has left.  It rests on the synchronous loop of `processBatch`.
- `DrainsComeToAnEnd`: `DrainLeft` counts the jobs a drain may still claim, twice, its
  workers and its handlers.  Each step of its workers lowers it; retries, replays,
  new jobs and a second drain, which all refill the queue, do not raise it.

`BillingProofs`, from `BillingAssumption`:

- `TypeCorrect`, `AcceptedEventsWereApplied`, `DuplicatesBounded`.  `AckedWasApplied` is
  not inductive: a delivery must be `OnCourse` (at its step, what comes before is
  done), a recorded event must be applied, and an accepted one recorded.  `Bound`
  counts, per event, the deliveries that are still applying it.
- `EventsAreWorkedOff`: a delivery under way only gets nearer to its end with the
  steps of its handler, and others do not hold it up; its end is an acceptance after
  all writes of its event, or a failure; and the write of a cancellation or a failed
  payment refuses access, that of a payment marks the invoice paid.

`UsageLedgerProofs`, from `UsageAssumption`:

- `TypeCorrect`, `StreamsMetered`, `IdsAreCountedOnce`, `CountersAreInStep`,
  `QuotaLastsHalf` (half of what `QuotaIsGranted` asks).  `StreamCourse` and `RecordingCourse` tie each request's stages
  together; `ClaimedOnce` extends the claim on an id to recordings about to commit;
  `Counters` equates the counters with the sets that were counted, and `Quotas` bounds
  the cached copy by the counter.
- `StreamsComeToAnEnd`: as long as the usage of a stream is not settled, its loop, its
  cancellation or its recording is at work (`StreamsAreAttended`, by
  `FinalizedIsRecorded`: a finalized stream has a recording), and each of their steps,
  and the leaving of the client, uses up some of `StreamLeft`, which nothing refills.

`KeyIssuanceProofs`, from `IssuanceAssumption`, for all requests, keys, bodies,
processes and limits:

- `TypeCorrect`, with `HasKey` and `Marked`: a request at a step that writes a record has
  a key, and from its mark on finds a record in its process.  `Effect` says once what a
  step of one request may change.
- `AnswersWereMade`: `NamesIssued` follows the names of keys through results, records,
  memories and replies, back to a document or a write that failed.
- `RetriesAreIdle`: `Orderly` says of each key nobody interrupted that it is `Live` (a
  record that is being processed, in the document or in a memory, belongs to a
  request of the key that is under way and will complete it) and, once retried,
  `Final` (the document is complete and no memory holds a record being processed).
  Requests that overlapped may leave any of their completed records behind, so `Final`
  names none; when the last of them is over, `Live` amounts to `Final`.
- `RetriesAreReplayed`: `Clean` says of each key nobody contested or interrupted that it
  is unused (`Idle`), used by one request whose records agree with its stage
  (`Busy`), or complete (`Over`): the document holds its result, every process holds
  that or nothing, and every other request replays it or fails.  The document
  must survive what memories forget, which is why all three are needed.

- `RecordsImplementOnceOnly`: `KeyIssuance` implements `OnceOnly`, in which a request is
  served in one step.  A key's winner is the request its document names, a request
  has ended when its answer is out, and a key is void once it is contested or
  interrupted.  The step that takes effect is the last of the request, `Persist` or
  the reply; `Clean` gives what the abstract guards need (the winner exists, its body
  is the recorded one) and `AnswerFits` that a first reply names the request itself.
- `OneApiKeyPerIdempotencyKey`: two requests of a key that is not void never have an
  API key each, by `Clean` and `StoredLater` (a stored key is past its creation).

Every property of the passing runs that is not a liveness property is stated by a
theorem.  The five liveness properties (`EveryRequestEnds`, `DrainEnds`,
`ShutdownSettles`, `EventsTakeEffect`, `StreamsAreSettled`) are only model-checked, since fairness and
`ENABLED` are beyond the prover; what is proved of each is the part that is about
safety, for all but `ShutdownSettles`, which is its timer's: a measure in `Nat` that
each step of the fair actions lowers and no other step raises (`RequestsComeToAnEnd`, `DrainsComeToAnEnd`, `EventsAreWorkedOff`,
`StreamsComeToAnEnd`).  What remains to the runs is that a fair action is enabled as
long as the measure is not used up, and that Stripe resends what failed.  The
measures, `AnswersWereMade` and `QuotaLastsHalf` are stated by the theorems alone.

## 7. Abstractions and what is left out

- Requests: a completion of the free plan uses neither breaker nor fallback and
  is left out; a reply with status 3xx is treated as a client error; `NODE_ENV` is
  assumed to be production (no simulated credentials outside the simulation
  header).  Payloads, models and message formats do not occur.
- Budgets: HARD budgets only (SOFT ones never block); the 100 % threshold stands
  for all thresholds, and the rounding of percentages is finer than the unit of
  cost.  CUSTOM periods, EXPIRED and changes of period or thresholds by PATCH
  are left out.  One server process, so one cache: other processes' caches are
  not invalidated by this one's changes and only expire, which is the case
  `AdmissionLag` bounds already.  Costs are counted in records of one unit.
  The time a query may take (`AnswerTime`) is an assumption; without it no
  bound on staleness exists.
- C++ gateway: the alerts (discarded, see section 4), the breaker (nothing calls
  `record_failure`), the cost engine, telemetry and the upstream stub; `reset_spend`
  has no caller.  Costs are
  integers where the code has doubles.
- Bounds on the clock and on record counts (`MaxTime`, `MaxRecords`) exist
  for model checking and are named as such in the modules.
- Job queue: the backoff is computed and never waited for, in the code too; batches
  outside a shutdown have no caller; the other shutdown handlers hold no state of
  the queue.
- Billing: plans, intervals, amounts and dates; `finalizeInvoice` and `voidInvoice`, which
  nothing calls; proration, entitlements and reconciliation, which are arithmetic
  or read-only.  A payment event whose invoice does not exist yet is recorded and
  lost: `AckedWasApplied` and `EventsTakeEffect` except such events (`known`).  An
  organization without a subscription document reads as TRIALING with a trial that
  begins anew at each read.
- Usage: tokens and cost have one weight per recording, so a retry that finds the
  record of its failed first attempt (`usage.service.ts:132`) is modelled without a
  property that tells the two apart.  The monthly counter is never reset by the
  code.  `QuotaIsGranted` counts recordings begun, so that a request which failed or was
  rate limited counts against the quota, as it does in the code.
- Keys: the secrets, their collision check (which is about chance), the new secret of
  a rotation and the verification of a secret.  An organization has one project, so that one query
  lists its keys.  What the route does before the idempotency check, creating a
  default organization or project, is not replayed and is left out.  The 24 hours
  of a record are written and never read.
- The limiter of the TypeScript gateway: one synchronous call in one process, which
  no other step can interrupt.
- Components marked `not_modelled` in `PROJECT.json`, with the reasons there.

## 8. Plan

Done, each with proofs: breaker, gate and gateway calls; budgets, alerts and the
preflight cache; the C++ gateway; the job queue with its life cycle; billing; usage,
quota and streams; issuing of keys with their idempotency records.

Left, in this order:

1. Authentication against the cached verification: a rotated or revoked key is
   accepted for at most the life of a cache entry after a late answer, by the argument
   of `AdmissionLag`.
2. Several projects per organization: budgets of the organization beside those of a
   project (`OrgWide`), and a listing of keys that takes several queries, during which
   a key may be created behind the reader's back.
3. Workflows and automation (`lib/workflows/`, `lib/automation/`): interpreters of
   user-defined steps over definitions in memory, which may be changed or deleted
   while they run.
4. Fixed windows of the TypeScript limiter against the sliding window of `CppGateway`.

Most of the repository's lines are pages of the dashboard, adapters for
providers' formats, price tables and read-only listings.  They keep no state that
outlives a call, and a model of them would repeat them.

## 9. Running the checks

    tlasany GatewayCalls.tla
    tlc -workers 2 -config GatewayCalls.cfg MCGatewayCalls.tla
    tlapm GatewayCallsProofs.tla

Each run of section 3 names its module and configuration in `PROJECT.json`.  A
run takes from a few seconds to about three minutes; the proofs take from half a
minute to a few minutes per module.
