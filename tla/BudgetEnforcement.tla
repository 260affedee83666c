------------------------- MODULE BudgetEnforcement -------------------------
(***************************************************************************)
(* HARD budgets of the TypeScript gateway: the preflight check and its      *)
(* cache, the evaluation that follows spend, the alerts it raises and the   *)
(* budget operations of the API, for one project of one organization on one *)
(* server process (budget.service.ts, budget/evaluator.ts,                  *)
(* alert.service.ts, cache/registry.ts, router.ts stage 4).                 *)
(*                                                                         *)
(* A task is one request being served.  Each of its steps is one Firestore  *)
(* access or the code up to the next await; tasks interleave between steps, *)
(* and any awaited access may fail.  Costs are counted in cost records of   *)
(* one unit each; the 100 % threshold stands for all thresholds.            *)
(***************************************************************************)
EXTENDS Integers, FiniteSets

CONSTANTS
    Budgets,       \* budget document ids
    OrgWide,       \* those without a projectId
    Tasks,         \* requests served at once
    Limits,        \* amounts a budget may be given
    PageLimit,     \* cost records aggregateSpend reads at most, 200
    AllowedTTL,    \* life of a cached "allowed" verdict, 10 s
    BlockedTTL,    \* life of a cached "blocked" verdict, 5 s
    AnswerTime,    \* a budget query answers within this time or fails
    MaxRecords,    \* bound on cost records per period (model checking only)
    Periods        \* 0..n, the periods explored

ASSUME BudgetAssumption ==
    /\ Budgets # {} /\ OrgWide \subseteq Budgets
    /\ Limits \subseteq Nat \ {0}
    /\ Limits # {}
    /\ PageLimit \in Nat \ {0}
    /\ AllowedTTL \in Nat /\ BlockedTTL \in Nat /\ AnswerTime \in Nat
    /\ Periods \subseteq Nat /\ 0 \in Periods

VARIABLES
    budget,    \* budget[b]: the document organizations/{org}/budgets/{b}
    costs,     \* costs[n]: number of cost records of period n
    alerts,    \* alerts[b][n]: status of the alert of b's 100 % threshold
    period,    \* the present budget period
    cache,     \* the project's entry in cacheRegistry.budgetPreflight
    task,      \* task[t]: what request t is doing
    held,      \* history: budgets whose last (de)activation was pauseBudget
    openAge,   \* history: time since no stored budget was blocking
    shutAge    \* history: time since some stored budget was blocking

vars == <<budget, costs, alerts, period, cache, task, held, openAge, shutAge>>
store == <<budget, costs, alerts, period>>

Statuses == {"ACTIVE", "PAUSED", "EXCEEDED", "ARCHIVED"}

BudgetDoc == [life    : {"unborn", "stored", "deleted"},
              status  : Statuses,
              enabled : BOOLEAN,
              limit   : Limits,
              spend   : Nat]

Verdicts == {"none", "allowed", "blocked"}
CacheEntry == [verdict : Verdicts, left : Nat]
NoEntry == [verdict |-> "none", left |-> 0]

Ops == {"pause", "resume", "amount", "status", "enabled", "delete"}

Task == [pc      : {"idle", "asking", "answered", "calling", "recorded",
                    "listing", "reading", "aggregating", "alerting",
                    "announcing", "writing", "changing", "clearing"},
         op      : Ops,            \* of a budget operation
         b       : Budgets,        \* the budget read, evaluated or changed
         todo    : SUBSET Budgets, \* budgets to evaluate after it
         limit   : Limits,         \* the evaluation's copy of the limit,
         period  : Periods,        \* its period boundaries
         spend   : Nat,            \* and its spend aggregate
         verdict : Verdicts,       \* of the preflight query
         age     : Nat]            \* time since that query read the store

IdleTask == [pc |-> "idle", op |-> "pause", b |-> CHOOSE b \in Budgets : TRUE,
             todo |-> {}, limit |-> CHOOSE n \in Limits : TRUE, period |-> 0,
             spend |-> 0, verdict |-> "none", age |-> 0]

Stored(b) == budget[b].life = "stored"

\* The preflight condition: the status query, the filters and the comparison.
Blocks(d) ==
    /\ d.life = "stored"
    /\ d.status \in {"ACTIVE", "EXCEEDED"}
    /\ d.enabled
    /\ d.status = "EXCEEDED" \/ d.spend >= d.limit

Blocking(docs) == \E b \in Budgets : Blocks(docs[b])

Evaluable(d) == d.life = "stored" /\ d.status \notin {"ARCHIVED", "PAUSED"}

Smaller(m, n) == IF m <= n THEN m ELSE n

\* aggregateSpend adds up one page of the newest records of the period.
AggregateSpend(n) == Smaller(costs[n], PageLimit)

Init ==
    /\ budget \in [Budgets -> {[life |-> "unborn", status |-> "ACTIVE",
                                enabled |-> TRUE, limit |-> n, spend |-> 0]
                               : n \in Limits}]
    /\ costs = [n \in Periods |-> 0]
    /\ alerts = [b \in Budgets |-> [n \in Periods |-> "none"]]
    /\ period = 0
    /\ cache = NoEntry
    /\ task = [t \in Tasks |-> IdleTask]
    /\ held = {}
    /\ openAge = 0
    /\ shutAge = AllowedTTL + BlockedTTL + AnswerTime + 1

-----------------------------------------------------------------------------
Goto(t, k) == task' = [task EXCEPT ![t] = k]
At(t, pc) == task[t].pc = pc
Finish(t) == Goto(t, IdleTask)

\* The loop over the budgets to evaluate, in any order, or its end.
EvaluateNext(t, todo) ==
    \/ todo = {} /\ Finish(t)
    \/ \E b \in todo :
          Goto(t, [IdleTask EXCEPT !.pc = "reading", !.b = b, !.todo = todo \ {b}])

-----------------------------------------------------------------------------
\* A gateway request: checkBudgetEnforcement answers from the cache, or asks.
\* A cached "blocked" verdict refuses it (HTTP 429), which changes nothing.
BeginRequest(t) ==
    /\ At(t, "idle")
    /\ \/ /\ cache.verdict = "allowed"
          /\ Goto(t, [IdleTask EXCEPT !.pc = "calling"])
       \/ /\ cache.verdict = "none"
          /\ Goto(t, [IdleTask EXCEPT !.pc = "asking"])
    /\ UNCHANGED <<store, cache, held>>

\* The budget query reads the store.
Query(t) ==
    /\ At(t, "asking")
    /\ Goto(t, [IdleTask EXCEPT
                  !.pc = "answered",
                  !.verdict = IF Blocking(budget) THEN "blocked" ELSE "allowed"])
    /\ UNCHANGED <<store, cache, held>>

\* The two lives of an entry mixed up.
TTLSwapped(verdict) == IF verdict = "blocked" THEN AllowedTTL ELSE BlockedTTL

TTL(verdict) == IF verdict = "blocked" THEN BlockedTTL ELSE AllowedTTL

\* The answer arrives and is cached, whatever was invalidated meanwhile.
Answer(t) ==
    /\ At(t, "answered")
    /\ cache' = [verdict |-> task[t].verdict, left |-> TTL(task[t].verdict)]
    /\ IF task[t].verdict = "allowed"
       THEN Goto(t, [IdleTask EXCEPT !.pc = "calling"])
       ELSE Finish(t)
    /\ UNCHANGED <<store, held>>

\* The upstream call has succeeded and recordGatewayUsage commits its cost,
\* to the usage records and not to the cost records the budgets add up.
RecordUsage(t) ==
    /\ At(t, "calling")
    /\ Goto(t, [task[t] EXCEPT !.pc = "recorded"])
    /\ UNCHANGED <<store, cache, held>>

\* Invalidate, then evaluateBudgetsAfterSpend starts listing, unawaited.
AfterSpend(t) ==
    /\ At(t, "recorded")
    /\ cache' = NoEntry
    /\ Goto(t, [task[t] EXCEPT !.pc = "listing"])
    /\ UNCHANGED <<store, held>>

\* evaluateProjectBudgets lists the budgets with this projectId only.
ListBudgets(t) ==
    /\ At(t, "listing")
    /\ EvaluateNext(t, {b \in Budgets \ OrgWide :
                          Evaluable(budget[b]) /\ budget[b].enabled})
    /\ UNCHANGED <<store, cache, held>>

-----------------------------------------------------------------------------
\* The status and evaluate routes call evaluateBudget for any budget.
BeginEvaluate(t, b) ==
    /\ At(t, "idle")
    /\ EvaluateNext(t, {b})
    /\ UNCHANGED <<store, cache, held>>

\* evaluateBudget: the document and the boundaries of the present period.
ReadBudget(t) ==
    LET k == task[t] IN
    /\ At(t, "reading")
    /\ IF Evaluable(budget[k.b])
       THEN Goto(t, [k EXCEPT !.pc = "aggregating", !.period = period,
                              !.limit = budget[k.b].limit])
       ELSE EvaluateNext(t, k.todo)
    /\ UNCHANGED <<store, cache, held>>

Exceeded(spend, limit) == spend >= limit

\* The threshold compared with ">" where the status is compared with ">=".
CrossedStrictly(spend, limit) == spend > limit

\* A budget whose thresholds hold 100 %, as by default, crosses it exactly
\* when it is exceeded; the percentage is rounded to two decimals, which is
\* finer than the unit costs are counted in here.
Crossed(spend, limit) == Exceeded(spend, limit)

\* The evaluator's own status stored as it is.
StatusUnmapped(spend, limit) == IF Exceeded(spend, limit) THEN "EXCEEDED" ELSE "NORMAL"

\* NORMAL, INFO, WARNING and CRITICAL are all stored as ACTIVE.
StatusAfter(spend, limit) == IF Exceeded(spend, limit) THEN "EXCEEDED" ELSE "ACTIVE"

\* aggregateSpend, and evaluateBudgetThresholds with its result.
Aggregate(t) ==
    LET k == task[t]
        s == AggregateSpend(k.period)
    IN  /\ At(t, "aggregating")
        /\ Goto(t, [k EXCEPT !.spend = s,
                             !.pc = IF Crossed(s, k.limit) THEN "alerting"
                                                           ELSE "writing"])
        /\ UNCHANGED <<store, cache, held>>

\* createDeduplicatedAlert looks for a live alert of the period ...
ReadAlert(t) ==
    LET k == task[t] IN
    /\ At(t, "alerting")
    /\ Goto(t, [k EXCEPT !.pc = IF alerts[k.b][k.period] \in {"ACTIVE", "ACKNOWLEDGED"}
                                THEN "writing" ELSE "announcing"])
    /\ UNCHANGED <<store, cache, held>>

\* ... and sets it, over whatever has become of it since.
WriteAlert(t) ==
    LET k == task[t] IN
    /\ At(t, "announcing")
    /\ alerts' = [alerts EXCEPT ![k.b][k.period] = "ACTIVE"]
    /\ Goto(t, [k EXCEPT !.pc = "writing"])
    /\ UNCHANGED <<budget, costs, period, cache, held>>

\* The write as a merging set, which brings a deleted document back.
WriteBudgetUpsert(t) ==
    LET k == task[t] IN
    /\ At(t, "writing")
    /\ budget' = [budget EXCEPT ![k.b].life = "stored",
                                ![k.b].spend = k.spend,
                                ![k.b].status = StatusAfter(k.spend, k.limit)]
    /\ EvaluateNext(t, k.todo)
    /\ UNCHANGED <<costs, alerts, period, cache, held>>

\* The result overwrites spend and status.  The update of a deleted document
\* throws, which also ends the loop.
WriteBudget(t) ==
    LET k == task[t] IN
    /\ At(t, "writing")
    /\ IF Stored(k.b)
       THEN /\ budget' = [budget EXCEPT
                            ![k.b].spend = k.spend,
                            ![k.b].status = StatusAfter(k.spend, k.limit)]
            /\ EvaluateNext(t, k.todo)
       ELSE UNCHANGED budget /\ Finish(t)
    /\ UNCHANGED <<costs, alerts, period, cache, held>>

-----------------------------------------------------------------------------
\* createBudget sets a new document.
CreateBudget(t, b) ==
    /\ At(t, "idle")
    /\ budget[b].life = "unborn"
    /\ budget' = [budget EXCEPT ![b].life = "stored"]
    /\ Goto(t, [IdleTask EXCEPT !.pc = "clearing", !.b = b])
    /\ UNCHANGED <<costs, alerts, period, cache, held>>

\* updateBudget, pauseBudget, resumeBudget and deleteBudget first get the
\* document and give up when there is none.
BeginChange(t, op, b) ==
    /\ At(t, "idle")
    /\ Stored(b)
    /\ Goto(t, [IdleTask EXCEPT !.pc = "changing", !.op = op, !.b = b])
    /\ UNCHANGED <<store, cache, held>>

\* A pause that only sets the status.
PausedStatusOnly(d) == [d EXCEPT !.status = "PAUSED"]

Paused(d) == [d EXCEPT !.status = "PAUSED", !.enabled = FALSE]

\* What an operation makes of the document; PATCH chooses its new value.
Changed(b, op) ==
    LET d == budget[b]
        Put(e) == budget' = [budget EXCEPT ![b] = e]
    IN  \/ /\ op = "pause" /\ Put(Paused(d))
           /\ held' = held \cup {b}
        \/ /\ op = "amount" /\ \E n \in Limits : Put([d EXCEPT !.limit = n])
           /\ UNCHANGED held
        \/ /\ \/ op = "resume" /\ Put([d EXCEPT !.status = "ACTIVE", !.enabled = TRUE])
              \/ op = "status" /\ \E s \in Statuses : Put([d EXCEPT !.status = s])
              \/ op = "enabled" /\ \E e \in BOOLEAN : Put([d EXCEPT !.enabled = e])
              \/ op = "delete" /\ Put([d EXCEPT !.life = "deleted"])
           /\ held' = held \ {b}

\* The write; an update of a document deleted meanwhile throws.
Change(t) ==
    LET k == task[t] IN
    /\ At(t, "changing")
    /\ \/ /\ Stored(k.b)
          /\ Changed(k.b, k.op)
          /\ Goto(t, [k EXCEPT !.pc = "clearing"])
       \/ /\ ~Stored(k.b)
          /\ Finish(t)
          /\ UNCHANGED <<budget, held>>
    /\ UNCHANGED <<costs, alerts, period, cache>>

\* The cached verdict is dropped when the write returns; a resumed budget is
\* evaluated at once.
ClearCache(t) ==
    LET k == task[t] IN
    /\ At(t, "clearing")
    /\ cache' = NoEntry
    /\ IF k.op = "resume" THEN EvaluateNext(t, {k.b}) ELSE Finish(t)
    /\ UNCHANGED <<store, held>>

\* An awaited access fails and the request with it; an upstream call may
\* fail too, and ends without an evaluation.
Fail(t) ==
    /\ task[t].pc \notin {"idle", "recorded"}
    /\ Finish(t)
    /\ UNCHANGED <<store, cache, held>>

-----------------------------------------------------------------------------
\* recordCost adds a record of one unit to the present period.
RecordCost ==
    /\ costs[period] < MaxRecords
    /\ costs' = [costs EXCEPT ![period] = @ + 1]
    /\ UNCHANGED <<budget, alerts, period, cache, task, held>>

\* A user acknowledges or resolves an existing alert, whatever its status.
SetAlert(b, n, status) ==
    /\ alerts[b][n] # "none"
    /\ alerts' = [alerts EXCEPT ![b][n] = status]
    /\ UNCHANGED <<budget, costs, period, cache, task, held>>

NextPeriod ==
    /\ period + 1 \in Periods
    /\ period' = period + 1
    /\ UNCHANGED <<budget, costs, alerts, cache, task, held>>

\* The server process restarts: the cache and the tasks are gone.
Restart ==
    /\ cache' = NoEntry
    /\ task' = [t \in Tasks |-> IdleTask]
    /\ UNCHANGED <<store, held>>

\* An entry whose expiry nobody looks at.
AgedForever(c) == [c EXCEPT !.left = IF @ = 0 THEN 0 ELSE @ - 1]

Aged(c) == IF c.left = 0 THEN NoEntry ELSE [c EXCEPT !.left = @ - 1]

\* Time passes: an entry is dropped once it has lived longer than its time,
\* and a query that has not answered in time will not answer at all.
Tick ==
    /\ \A t \in Tasks : At(t, "answered") => task[t].age < AnswerTime
    /\ task' = [t \in Tasks |-> IF At(t, "answered")
                                THEN [task[t] EXCEPT !.age = @ + 1] ELSE task[t]]
    /\ cache' = Aged(cache)
    /\ UNCHANGED <<store, held>>

\* The history variables, d time units later; they stop at a value no bound
\* reaches.
Observe(d) ==
    LET top == AllowedTTL + BlockedTTL + AnswerTime + 1 IN
    IF Blocking(budget')
    THEN openAge' = Smaller(openAge + d, top) /\ shutAge' = 0
    ELSE openAge' = 0 /\ shutAge' = Smaller(shutAge + d, top)

Serve(t) ==
    \/ BeginRequest(t) \/ Query(t) \/ Answer(t)
    \/ RecordUsage(t) \/ AfterSpend(t) \/ ListBudgets(t)
    \/ \E b \in Budgets : BeginEvaluate(t, b) \/ CreateBudget(t, b)
    \/ ReadBudget(t) \/ Aggregate(t) \/ ReadAlert(t) \/ WriteAlert(t)
    \/ WriteBudget(t)
    \/ \E op \in Ops, b \in Budgets : BeginChange(t, op, b)
    \/ Change(t) \/ ClearCache(t) \/ Fail(t)

Next ==
    \/ /\ \/ \E t \in Tasks : Serve(t)
          \/ RecordCost \/ NextPeriod \/ Restart
          \/ \E b \in Budgets, n \in Periods, s \in {"ACKNOWLEDGED", "RESOLVED"} :
                SetAlert(b, n, s)
       /\ Observe(0)
    \/ Tick /\ Observe(1)

Spec == Init /\ [][Next]_vars

-----------------------------------------------------------------------------
\* Every variable has its type.
TypeOK ==
    /\ budget \in [Budgets -> BudgetDoc]
    /\ costs \in [Periods -> Nat]
    /\ alerts \in [Budgets -> [Periods -> {"none", "ACTIVE", "ACKNOWLEDGED",
                                          "RESOLVED"}]]
    /\ period \in Periods
    /\ cache \in CacheEntry
    /\ task \in [Tasks -> Task]
    /\ held \subseteq Budgets
    /\ openAge \in Nat
    /\ shutAge \in Nat

\* A budget paused by pauseBudget and not touched by a user since never
\* blocks, though an evaluation that began before the pause overwrites its
\* status (budget.service.ts:398 "hard blocking [is] temporarily disabled").
PausedNeverBlocks == \A b \in held : ~Blocks(budget[b])

\* Once a stored budget blocks, requests are let through for at most the time
\* a late answer and the life of its cache entry add up to, although budget
\* writes of evaluations invalidate nothing (budget.service.ts:646-700).
AdmissionLag ==
    /\ cache.verdict = "allowed" => openAge <= AllowedTTL + AnswerTime
    /\ \A t \in Tasks : At(t, "answered") /\ task[t].verdict = "allowed"
                         => openAge <= AnswerTime

\* Likewise requests are refused only for so long after the last blocking
\* budget was paused, raised, deleted or evaluated anew.
RefusalLag ==
    /\ cache.verdict = "blocked" => shutAge <= BlockedTTL + AnswerTime
    /\ \A t \in Tasks : At(t, "answered") /\ task[t].verdict = "blocked"
                         => shutAge <= AnswerTime

\* An evaluation marks a budget EXCEEDED only after the alert of its period
\* was stored, by itself or by another one (budget.service.ts:545-593).
ExceededIsAnnounced ==
    [][\A t \in Tasks :
          LET k == task[t] IN
          /\ At(t, "writing") /\ task'[t] # k
          /\ budget' # budget /\ budget'[k.b].status = "EXCEEDED"
          => alerts[k.b][k.period] # "none"]_vars

\* No evaluation or change in flight brings a deleted budget back.
DeletedStaysDeleted ==
    [][\A b \in Budgets :
          budget[b].life = "deleted" => budget'[b].life = "deleted"]_vars

\* docs/budgets.md:27 "PAUSED: Budget is temporarily deactivated; alerts and
\* blocking are suppressed": an evaluation does not end a pause.
PausedStaysPaused ==
    [][\A t \in Tasks :
          /\ At(t, "writing") /\ task'[t] # task[t]
          /\ budget[task[t].b].status = "PAUSED"
          => budget'[task[t].b].status = "PAUSED"]_vars
=============================================================================
