---------------------- MODULE BudgetEnforcementProofs ----------------------
(***************************************************************************)
(* What BudgetEnforcement promises, proved for all budgets, tasks, amounts, *)
(* lives of cached verdicts and periods.                                    *)
(***************************************************************************)
EXTENDS BudgetEnforcement, TLAPS

USE DEF At, Stored, store

-----------------------------------------------------------------------------
(* Types. *)

LEMMA IdleTyped == IdleTask \in Task
  BY BudgetAssumption DEF IdleTask, Task, Ops, Verdicts

LEMMA DocTyped ==
  ASSUME NEW d \in BudgetDoc
  PROVE  /\ \A s \in Statuses : [d EXCEPT !.status = s] \in BudgetDoc
         /\ \A n \in Limits : [d EXCEPT !.limit = n] \in BudgetDoc
         /\ \A e \in BOOLEAN : [d EXCEPT !.enabled = e] \in BudgetDoc
         /\ [d EXCEPT !.life = "stored"] \in BudgetDoc
         /\ [d EXCEPT !.life = "deleted"] \in BudgetDoc
         /\ \A n \in Nat : [d EXCEPT !.spend = n] \in BudgetDoc
<1>1. \A s \in Statuses : [d EXCEPT !.status = s] \in BudgetDoc
  BY DEF BudgetDoc
<1>2. \A n \in Limits : [d EXCEPT !.limit = n] \in BudgetDoc
  BY DEF BudgetDoc
<1>3. \A e \in BOOLEAN : [d EXCEPT !.enabled = e] \in BudgetDoc
  BY DEF BudgetDoc
<1>4. [d EXCEPT !.life = "stored"] \in BudgetDoc
  BY DEF BudgetDoc
<1>5. [d EXCEPT !.life = "deleted"] \in BudgetDoc
  BY DEF BudgetDoc
<1>6. \A n \in Nat : [d EXCEPT !.spend = n] \in BudgetDoc
  BY DEF BudgetDoc
<1> QED  BY <1>1, <1>2, <1>3, <1>4, <1>5, <1>6

\* Every budget operation makes a budget document of a budget document.
LEMMA ChangedTyped ==
  ASSUME TypeOK, NEW b \in Budgets, NEW op, Changed(b, op)
  PROVE  budget' \in [Budgets -> BudgetDoc] /\ held' \subseteq Budgets
<1>1. budget[b] \in BudgetDoc /\ held \subseteq Budgets /\ budget \in [Budgets -> BudgetDoc]
  BY DEF TypeOK
<1>2. held' \subseteq Budgets
  BY <1>1 DEF Changed
<1>3. ASSUME NEW e \in BudgetDoc, budget' = [budget EXCEPT ![b] = e]
      PROVE  budget' \in [Budgets -> BudgetDoc]
  BY <1>1, <1>3
<1>4. /\ [budget[b] EXCEPT !.status = "PAUSED"] \in BudgetDoc
      /\ [budget[b] EXCEPT !.status = "ACTIVE"] \in BudgetDoc
      /\ TRUE \in BOOLEAN /\ FALSE \in BOOLEAN
  BY <1>1, DocTyped DEF Statuses
<1>5. Paused(budget[b]) \in BudgetDoc
  BY <1>4, DocTyped DEF Paused
<1>6. [budget[b] EXCEPT !.status = "ACTIVE", !.enabled = TRUE] \in BudgetDoc
  BY <1>4, DocTyped
<1>7. \/ budget' = [budget EXCEPT ![b] = Paused(budget[b])]
      \/ \E n \in Limits : budget' = [budget EXCEPT ![b] = [budget[b] EXCEPT !.limit = n]]
      \/ budget' = [budget EXCEPT ![b] = [budget[b] EXCEPT !.status = "ACTIVE", !.enabled = TRUE]]
      \/ \E s \in Statuses : budget' = [budget EXCEPT ![b] = [budget[b] EXCEPT !.status = s]]
      \/ \E e \in BOOLEAN : budget' = [budget EXCEPT ![b] = [budget[b] EXCEPT !.enabled = e]]
      \/ budget' = [budget EXCEPT ![b] = [budget[b] EXCEPT !.life = "deleted"]]
  BY Zenon DEF Changed
<1> HIDE DEF Paused
<1>8. budget' \in [Budgets -> BudgetDoc]
  <2>1. \E e \in BudgetDoc : budget' = [budget EXCEPT ![b] = e]
    BY <1>1, <1>5, <1>6, <1>7, DocTyped, Zenon
  <2> QED  BY <1>3, <2>1
<1> QED  BY <1>2, <1>8

\* Where the loop over the budgets to evaluate leaves a task.
LEMMA EvaluateNextEffect ==
  ASSUME TypeOK, NEW t \in Tasks, NEW todo \in SUBSET Budgets, EvaluateNext(t, todo)
  PROVE  /\ task' \in [Tasks -> Task]
         /\ task'[t].pc \in {"idle", "reading"}
         /\ \A u \in Tasks \ {t} : task'[u] = task[u]
<1>1. CASE Finish(t)
  BY <1>1, IdleTyped DEF Finish, Goto, TypeOK, IdleTask
<1>2. ASSUME NEW b \in todo,
             Goto(t, [IdleTask EXCEPT !.pc = "reading", !.b = b, !.todo = todo \ {b}])
      PROVE  /\ task' \in [Tasks -> Task]
             /\ task'[t].pc \in {"idle", "reading"}
             /\ \A u \in Tasks \ {t} : task'[u] = task[u]
  <2> DEFINE k == [IdleTask EXCEPT !.pc = "reading", !.b = b, !.todo = todo \ {b}]
  <2>1. k \in Task /\ k.pc = "reading"
    BY IdleTyped DEF Task
  <2>2. task' = [task EXCEPT ![t] = k]
    BY <1>2 DEF Goto
  <2> HIDE DEF k
  <2> QED  BY <2>1, <2>2 DEF TypeOK
<1> QED  BY <1>1, <1>2 DEF EvaluateNext
-----------------------------------------------------------------------------
(* Steps. *)

\* What one step of request t leaves behind.
Effect(t) ==
  /\ budget' \in [Budgets -> BudgetDoc]
  /\ costs' \in [Periods -> Nat]
  /\ alerts' \in [Budgets -> [Periods -> {"none", "ACTIVE", "ACKNOWLEDGED", "RESOLVED"}]]
  /\ period' \in Periods /\ cache' \in CacheEntry /\ held' \subseteq Budgets
  /\ task' \in [Tasks -> Task]
  /\ \A u \in Tasks \ {t} : task'[u] = task[u]
  /\ task'[t].pc = "answered" => Query(t)
  /\ task'[t].pc = "writing" => Aggregate(t) \/ ReadAlert(t) \/ WriteAlert(t)
  /\ cache' \in {cache, NoEntry} \/ Answer(t)

\* A step that moves task t to k and writes nothing but perhaps the cache.
LEMMA MoveEffect ==
  ASSUME TypeOK, NEW t \in Tasks, NEW k \in Task, Goto(t, k), UNCHANGED <<store, held>>,
         k.pc \notin {"answered", "writing"}, cache' \in {cache, NoEntry}
  PROVE  Effect(t)
  BY DEF Goto, Effect, TypeOK, NoEntry, CacheEntry, Verdicts

LEMMA FinishEffect ==
  ASSUME TypeOK, NEW t \in Tasks, Finish(t), UNCHANGED <<store, held>>,
         cache' \in {cache, NoEntry}
  PROVE  Effect(t)
<1>1. IdleTask.pc = "idle"
  BY DEF IdleTask
<1> QED  BY <1>1, IdleTyped, MoveEffect DEF Finish

LEMMA LoopEffect ==
  ASSUME TypeOK, NEW t \in Tasks, NEW todo \in SUBSET Budgets, EvaluateNext(t, todo),
         UNCHANGED <<store, held>>, cache' \in {cache, NoEntry}
  PROVE  Effect(t)
  BY EvaluateNextEffect DEF Effect, TypeOK, NoEntry, CacheEntry, Verdicts

\* The task of a request that starts anew at pc.
LEMMA StartTyped ==
  /\ \A pc \in {"calling", "asking"} : [IdleTask EXCEPT !.pc = pc] \in Task
  /\ \A v \in Verdicts : [IdleTask EXCEPT !.pc = "answered", !.verdict = v] \in Task
  /\ \A b \in Budgets : [IdleTask EXCEPT !.pc = "clearing", !.b = b] \in Task
  /\ \A b \in Budgets, op \in Ops :
        [IdleTask EXCEPT !.pc = "changing", !.op = op, !.b = b] \in Task
  BY IdleTyped DEF Task

LEMMA PreflightEffect ==
  ASSUME TypeOK, NEW t \in Tasks, BeginRequest(t) \/ Query(t) \/ Answer(t)
  PROVE  Effect(t)
<1>1. CASE BeginRequest(t)
  <2>1. PICK pc \in {"calling", "asking"} : Goto(t, [IdleTask EXCEPT !.pc = pc])
    BY <1>1 DEF BeginRequest
  <2> DEFINE k == [IdleTask EXCEPT !.pc = pc]
  <2>2. k \in Task
    BY StartTyped
  <2>3. k.pc = pc
    BY DEF IdleTask
  <2>4. Goto(t, k) /\ UNCHANGED <<store, cache, held>>
    BY <1>1, <2>1 DEF BeginRequest
  <2> HIDE DEF k
  <2> QED  BY <2>2, <2>3, <2>4, MoveEffect
<1>2. CASE Query(t)
  <2> DEFINE v == IF Blocking(budget) THEN "blocked" ELSE "allowed"
             k == [IdleTask EXCEPT !.pc = "answered", !.verdict = v]
  <2>1. v \in Verdicts
    BY DEF Verdicts
  <2>2. k \in Task
    BY <2>1, StartTyped
  <2>3. task' = [task EXCEPT ![t] = k] /\ UNCHANGED <<store, cache, held>>
    BY <1>2 DEF Query, Goto
  <2>4. k.pc = "answered"
    BY DEF IdleTask
  <2> HIDE DEF k
  <2> QED  BY <1>2, <2>2, <2>3, <2>4 DEF Effect, TypeOK
<1>3. CASE Answer(t)
  <2>1. cache' \in CacheEntry
    BY <1>3, BudgetAssumption DEF Answer, TypeOK, Task, CacheEntry, TTL
  <2>2. PICK k \in {IdleTask, [IdleTask EXCEPT !.pc = "calling"]} : Goto(t, k)
    BY <1>3 DEF Answer, Finish
  <2>3. k \in Task
    BY StartTyped, IdleTyped
  <2>5. k.pc \in {"idle", "calling"}
    BY DEF IdleTask
  <2>4. UNCHANGED <<store, held>>
    BY <1>3 DEF Answer
  <2> QED  BY <1>3, <2>1, <2>2, <2>3, <2>4, <2>5 DEF Effect, TypeOK, Goto
<1> QED  BY <1>1, <1>2, <1>3

\* A task that keeps its data and goes on at pc.
LEMMA AdvanceTyped ==
  ASSUME TypeOK, NEW t \in Tasks
  PROVE  /\ \A pc \in {"recorded", "listing", "writing", "announcing", "clearing"} :
              [task[t] EXCEPT !.pc = pc] \in Task /\ [task[t] EXCEPT !.pc = pc].pc = pc
         /\ task[t] \in Task /\ task[t].b \in Budgets /\ task[t].todo \subseteq Budgets
         /\ task[t].op \in Ops /\ task[t].period \in Periods /\ task[t].spend \in Nat
         /\ task[t].limit \in Limits
<1>1. task[t] \in Task
  BY DEF TypeOK
<1>2. \A pc \in {"recorded", "listing", "writing", "announcing", "clearing"} :
         [task[t] EXCEPT !.pc = pc] \in Task
  BY <1>1 DEF Task
<1>3. \A pc \in STRING : [task[t] EXCEPT !.pc = pc].pc = pc
  BY <1>1 DEF Task
<1> QED  BY <1>1, <1>2, <1>3 DEF Task

LEMMA SpendEffect ==
  ASSUME TypeOK, NEW t \in Tasks, RecordUsage(t) \/ AfterSpend(t) \/ ListBudgets(t)
  PROVE  Effect(t)
<1>1. CASE RecordUsage(t)
  <2> DEFINE k == [task[t] EXCEPT !.pc = "recorded"]
  <2>1. k \in Task /\ k.pc = "recorded"
    BY AdvanceTyped
  <2>2. Goto(t, k) /\ UNCHANGED <<store, cache, held>>
    BY <1>1 DEF RecordUsage
  <2> HIDE DEF k
  <2> QED  BY <2>1, <2>2, MoveEffect
<1>2. CASE AfterSpend(t)
  <2> DEFINE k == [task[t] EXCEPT !.pc = "listing"]
  <2>1. k \in Task /\ k.pc = "listing"
    BY AdvanceTyped
  <2>2. Goto(t, k) /\ cache' = NoEntry /\ UNCHANGED <<store, held>>
    BY <1>2 DEF AfterSpend
  <2> HIDE DEF k
  <2> QED  BY <2>1, <2>2, MoveEffect
<1>3. CASE ListBudgets(t)
  <2> DEFINE todo == {b \in Budgets \ OrgWide : Evaluable(budget[b]) /\ budget[b].enabled}
  <2>1. todo \in SUBSET Budgets /\ EvaluateNext(t, todo) /\ UNCHANGED <<store, cache, held>>
    BY <1>3 DEF ListBudgets
  <2> HIDE DEF todo
  <2> QED  BY <2>1, LoopEffect
<1> QED  BY <1>1, <1>2, <1>3

LEMMA AggregateTyped == TypeOK => \A n \in Periods : AggregateSpend(n) \in Nat
  BY BudgetAssumption DEF AggregateSpend, Smaller, TypeOK

LEMMA EvaluationEffect ==
  ASSUME TypeOK, NEW t \in Tasks,
         ReadBudget(t) \/ Aggregate(t) \/ ReadAlert(t) \/ WriteAlert(t) \/ WriteBudget(t)
  PROVE  Effect(t)
<1>1. CASE ReadBudget(t)
  <2>1. CASE Evaluable(budget[task[t].b])
    <3> DEFINE n == budget[task[t].b].limit
               k == [task[t] EXCEPT !.pc = "aggregating", !.period = period, !.limit = n]
    <3>1. n \in Limits /\ period \in Periods
      BY AdvanceTyped DEF TypeOK, BudgetDoc
    <3>2. k \in Task /\ k.pc = "aggregating"
      <4> HIDE DEF n
      <4> QED  BY <3>1, AdvanceTyped DEF Task
    <3>3. Goto(t, k) /\ UNCHANGED <<store, cache, held>>
      BY <1>1, <2>1 DEF ReadBudget
    <3> HIDE DEF k
    <3> QED  BY <3>2, <3>3, MoveEffect
  <2>2. CASE ~Evaluable(budget[task[t].b])
    <3>1. EvaluateNext(t, task[t].todo) /\ UNCHANGED <<store, cache, held>>
      BY <1>1, <2>2 DEF ReadBudget
    <3> QED  BY <3>1, AdvanceTyped, LoopEffect
  <2> QED  BY <2>1, <2>2
<1>2. CASE Aggregate(t)
  <2> DEFINE s == AggregateSpend(task[t].period)
             pc == IF Crossed(s, task[t].limit) THEN "alerting" ELSE "writing"
             k == [task[t] EXCEPT !.spend = s, !.pc = pc]
  <2>1. s \in Nat /\ pc \in {"alerting", "writing"}
    BY AggregateTyped, AdvanceTyped
  <2>2. task' = [task EXCEPT ![t] = k] /\ UNCHANGED <<store, cache, held>>
    BY <1>2 DEF Aggregate, Goto
  <2> HIDE DEF s, pc
  <2>3. k \in Task /\ k.pc = pc
    BY <2>1, AdvanceTyped DEF Task
  <2> HIDE DEF k
  <2> QED  BY <1>2, <2>1, <2>2, <2>3 DEF Effect, TypeOK
<1>3. CASE ReadAlert(t)
  <2>1. PICK pc \in {"writing", "announcing"} : Goto(t, [task[t] EXCEPT !.pc = pc])
    BY <1>3 DEF ReadAlert
  <2> DEFINE k == [task[t] EXCEPT !.pc = pc]
  <2>2. k \in Task /\ k.pc = pc
    BY AdvanceTyped
  <2>3. task' = [task EXCEPT ![t] = k] /\ UNCHANGED <<store, cache, held>>
    BY <1>3, <2>1 DEF ReadAlert, Goto
  <2> HIDE DEF k
  <2> QED  BY <1>3, <2>2, <2>3 DEF Effect, TypeOK
<1>4. CASE WriteAlert(t)
  <2> DEFINE k == [task[t] EXCEPT !.pc = "writing"]
  <2>1. k \in Task /\ k.pc = "writing"
    BY AdvanceTyped
  <2>2. task' = [task EXCEPT ![t] = k] /\ UNCHANGED <<budget, costs, period, cache, held>>
    BY <1>4 DEF WriteAlert, Goto
  <2>3. alerts' \in [Budgets -> [Periods -> {"none", "ACTIVE", "ACKNOWLEDGED", "RESOLVED"}]]
    BY <1>4, AdvanceTyped DEF WriteAlert, TypeOK
  <2> HIDE DEF k
  <2> QED  BY <1>4, <2>1, <2>2, <2>3 DEF Effect, TypeOK
<1>5. CASE WriteBudget(t)
  <2>1. UNCHANGED <<costs, alerts, period, cache, held>>
    BY <1>5 DEF WriteBudget
  <2>2. task' \in [Tasks -> Task] /\ task'[t].pc \in {"idle", "reading"}
        /\ \A u \in Tasks \ {t} : task'[u] = task[u]
    <3>1. CASE Finish(t)
      BY <3>1, IdleTyped DEF Finish, Goto, TypeOK, IdleTask
    <3>2. CASE EvaluateNext(t, task[t].todo)
      BY <3>2, AdvanceTyped, EvaluateNextEffect
    <3> QED  BY <1>5, <3>1, <3>2 DEF WriteBudget
  <2>3. budget' \in [Budgets -> BudgetDoc]
    <3> DEFINE b == task[t].b
               spent == [budget[b] EXCEPT !.spend = task[t].spend]
               status == StatusAfter(task[t].spend, task[t].limit)
    <3>1. b \in Budgets /\ spent \in BudgetDoc
      BY AdvanceTyped, DocTyped DEF TypeOK
    <3>2. status \in Statuses
      BY DEF StatusAfter, Statuses
    <3>3. budget' = [budget EXCEPT ![b] = [spent EXCEPT !.status = status]] \/ budget' = budget
      BY <1>5, <3>1 DEF WriteBudget, TypeOK
    <3> HIDE DEF b, spent, status
    <3>4. [spent EXCEPT !.status = status] \in BudgetDoc
      BY <3>1, <3>2, DocTyped
    <3> QED  BY <3>1, <3>3, <3>4 DEF TypeOK
  <2> QED  BY <2>1, <2>2, <2>3 DEF Effect, TypeOK
<1> QED  BY <1>1, <1>2, <1>3, <1>4, <1>5

LEMMA ChangeEffect ==
  ASSUME TypeOK, NEW t \in Tasks, Change(t) \/ ClearCache(t) \/ Fail(t)
  PROVE  Effect(t)
<1>1. CASE Change(t)
  <2> DEFINE k == [task[t] EXCEPT !.pc = "clearing"]
  <2>1. k \in Task /\ k.pc = "clearing"
    BY AdvanceTyped
  <2>2. budget' \in [Budgets -> BudgetDoc] /\ held' \subseteq Budgets
    <3>1. CASE Changed(task[t].b, task[t].op)
      BY <3>1, AdvanceTyped, ChangedTyped
    <3>2. CASE UNCHANGED <<budget, held>>
      BY <3>2 DEF TypeOK
    <3> QED  BY <1>1, <3>1, <3>2 DEF Change
  <2>3. UNCHANGED <<costs, alerts, period, cache>>
    BY <1>1 DEF Change
  <2>4. Goto(t, k) \/ Goto(t, IdleTask)
    BY <1>1 DEF Change, Finish
  <2>5. IdleTask.pc = "idle"
    BY DEF IdleTask
  <2> HIDE DEF k
  <2> QED  BY <2>1, <2>2, <2>3, <2>4, <2>5, IdleTyped DEF Effect, Goto, TypeOK
<1>2. CASE ClearCache(t)
  <2>1. cache' = NoEntry /\ UNCHANGED <<store, held>>
    BY <1>2 DEF ClearCache
  <2>2. CASE Finish(t)
    BY <2>1, <2>2, FinishEffect
  <2>3. CASE EvaluateNext(t, {task[t].b})
    BY <2>1, <2>3, AdvanceTyped, LoopEffect
  <2> QED  BY <1>2, <2>2, <2>3 DEF ClearCache
<1>3. CASE Fail(t)
  BY <1>3, FinishEffect DEF Fail
<1> QED  BY <1>1, <1>2, <1>3

LEMMA ArrivalEffect ==
  ASSUME TypeOK, NEW t \in Tasks, NEW b \in Budgets,
         \/ BeginEvaluate(t, b) \/ CreateBudget(t, b)
         \/ \E op \in Ops : BeginChange(t, op, b)
  PROVE  Effect(t)
<1>1. CASE BeginEvaluate(t, b)
  BY <1>1, LoopEffect DEF BeginEvaluate
<1>2. CASE CreateBudget(t, b)
  <2> DEFINE k == [IdleTask EXCEPT !.pc = "clearing", !.b = b]
             d == [budget[b] EXCEPT !.life = "stored"]
  <2>1. k \in Task
    BY StartTyped
  <2>2. k.pc = "clearing"
    BY DEF IdleTask
  <2>3. d \in BudgetDoc
    BY DocTyped DEF TypeOK
  <2>4. /\ budget' = [budget EXCEPT ![b] = d] /\ task' = [task EXCEPT ![t] = k]
        /\ UNCHANGED <<costs, alerts, period, cache, held>>
    BY <1>2 DEF CreateBudget, Goto, TypeOK
  <2> HIDE DEF k, d
  <2> QED  BY <2>1, <2>2, <2>3, <2>4 DEF Effect, TypeOK
<1>3. ASSUME NEW op \in Ops, BeginChange(t, op, b)
      PROVE  Effect(t)
  <2> DEFINE k == [IdleTask EXCEPT !.pc = "changing", !.op = op, !.b = b]
  <2>1. k \in Task
    BY StartTyped
  <2>2. k.pc = "changing"
    BY DEF IdleTask
  <2>3. Goto(t, k) /\ UNCHANGED <<store, cache, held>>
    BY <1>3 DEF BeginChange
  <2> HIDE DEF k
  <2> QED  BY <2>1, <2>2, <2>3, MoveEffect
<1> QED  BY <1>1, <1>2, <1>3

LEMMA ServeEffect ==
  ASSUME TypeOK, NEW t \in Tasks, Serve(t)
  PROVE  Effect(t)
  BY PreflightEffect, SpendEffect, EvaluationEffect, ChangeEffect, ArrivalEffect DEF Serve

LEMMA TickTyped ==
  ASSUME TypeOK, Tick
  PROVE  task' \in [Tasks -> Task] /\ cache' \in CacheEntry
<1>1. ASSUME NEW t \in Tasks
      PROVE  [task[t] EXCEPT !.age = @ + 1] \in Task
  <2>1. task[t] \in Task /\ task[t].age \in Nat
    BY DEF TypeOK, Task
  <2>2. task[t].age + 1 \in Nat
    BY <2>1
  <2>3. ASSUME NEW n \in Nat PROVE [task[t] EXCEPT !.age = n] \in Task
    BY <2>1 DEF Task
  <2> QED  BY <2>2, <2>3
<1>2. task' \in [Tasks -> Task]
  BY <1>1 DEF Tick, TypeOK
<1>3. cache' \in CacheEntry
  <2>1. cache \in CacheEntry /\ NoEntry \in CacheEntry
    BY DEF TypeOK, NoEntry, CacheEntry, Verdicts
  <2>2. cache.left # 0 => [cache EXCEPT !.left = @ - 1] \in CacheEntry
    BY <2>1 DEF CacheEntry
  <2> QED  BY <2>1, <2>2 DEF Tick, Aged
<1> QED  BY <1>2, <1>3

\* The history variables: the one that is not running is 0.
LEMMA Observed ==
  ASSUME TypeOK, NEW d \in {0, 1}, Observe(d)
  PROVE  /\ openAge' \in Nat /\ shutAge' \in Nat
         /\ openAge' <= openAge + d /\ shutAge' <= shutAge + d
         /\ ~Blocking(budget') => openAge' = 0
         /\ Blocking(budget') => shutAge' = 0
<1> DEFINE top == AllowedTTL + BlockedTTL + AnswerTime + 1
<1>1. top \in Nat /\ openAge \in Nat /\ shutAge \in Nat
  BY BudgetAssumption DEF TypeOK
<1>2. \A n \in Nat : Smaller(n + d, top) \in Nat /\ Smaller(n + d, top) <= n + d
  BY <1>1 DEF Smaller
<1>3. IF Blocking(budget')
      THEN openAge' = Smaller(openAge + d, top) /\ shutAge' = 0
      ELSE openAge' = 0 /\ shutAge' = Smaller(shutAge + d, top)
  BY DEF Observe
<1> HIDE DEF top
<1> QED  BY <1>1, <1>2, <1>3

\* The steps of Next that are no request's.
Outside ==
  \/ RecordCost \/ NextPeriod \/ Restart
  \/ \E b \in Budgets, n \in Periods, s \in {"ACKNOWLEDGED", "RESOLVED"} : SetAlert(b, n, s)

LEMMA OutsideEffect ==
  ASSUME TypeOK, Outside
  PROVE  /\ costs' \in [Periods -> Nat] /\ period' \in Periods
         /\ alerts' \in [Budgets -> [Periods -> {"none", "ACTIVE", "ACKNOWLEDGED", "RESOLVED"}]]
         /\ UNCHANGED <<budget, held>> /\ cache' \in {cache, NoEntry}
         /\ task' \in {task, [t \in Tasks |-> IdleTask]}
<1>1. CASE RecordCost
  BY <1>1 DEF RecordCost, TypeOK
<1>2. CASE NextPeriod
  BY <1>2 DEF NextPeriod, TypeOK
<1>3. CASE Restart
  BY <1>3 DEF Restart, TypeOK
<1>4. ASSUME NEW b \in Budgets, NEW n \in Periods, NEW s \in {"ACKNOWLEDGED", "RESOLVED"},
             SetAlert(b, n, s)
      PROVE  /\ costs' \in [Periods -> Nat] /\ period' \in Periods
             /\ alerts' \in [Budgets -> [Periods -> {"none", "ACTIVE", "ACKNOWLEDGED", "RESOLVED"}]]
             /\ UNCHANGED <<budget, held>> /\ cache' \in {cache, NoEntry}
             /\ task' \in {task, [t \in Tasks |-> IdleTask]}
  BY <1>4 DEF SetAlert, TypeOK
<1> QED  BY <1>1, <1>2, <1>3, <1>4 DEF Outside

\* The kinds of steps, with what the history variables observe.
LEMMA StepCases ==
  ASSUME TypeOK, [Next]_vars
  PROVE  \/ \E t \in Tasks : Serve(t) /\ Observe(0)
         \/ Outside /\ Observe(0)
         \/ Tick /\ Observe(1)
         \/ UNCHANGED vars
  BY DEF Next, Outside

LEMMA TypeInductive == TypeOK /\ [Next]_vars => TypeOK'
<1> SUFFICES ASSUME TypeOK, [Next]_vars PROVE TypeOK'
  OBVIOUS
<1>1. ASSUME NEW t \in Tasks, Serve(t), Observe(0)
      PROVE  TypeOK'
  BY <1>1, ServeEffect, Observed DEF Effect, TypeOK
<1>2. CASE Outside /\ Observe(0)
  <2>1. [t \in Tasks |-> IdleTask] \in [Tasks -> Task] /\ NoEntry \in CacheEntry
    BY IdleTyped DEF NoEntry, CacheEntry, Verdicts
  <2> QED  BY <1>2, <2>1, OutsideEffect, Observed DEF TypeOK
<1>3. CASE Tick /\ Observe(1)
  <2>1. UNCHANGED <<store, held>>
    BY <1>3 DEF Tick
  <2> QED  BY <1>3, <2>1, TickTyped, Observed DEF TypeOK
<1>4. CASE UNCHANGED vars
  BY <1>4 DEF vars, TypeOK
<1> QED  BY <1>1, <1>2, <1>3, <1>4, StepCases

\* Every variable of BudgetEnforcement keeps its type.
THEOREM TypeCorrect == Spec => []TypeOK
<1>1. Init => TypeOK
  <2> SUFFICES ASSUME Init PROVE TypeOK
    OBVIOUS
  <2>1. task \in [Tasks -> Task] /\ cache \in CacheEntry
    BY IdleTyped DEF Init, NoEntry, CacheEntry, Verdicts
  <2>2. budget \in [Budgets -> BudgetDoc]
    <3>1. \A n \in Limits : [life |-> "unborn", status |-> "ACTIVE", enabled |-> TRUE,
                             limit |-> n, spend |-> 0] \in BudgetDoc
      BY DEF BudgetDoc, Statuses
    <3> QED  BY <3>1 DEF Init
  <2>3. openAge \in Nat /\ shutAge \in Nat
    BY BudgetAssumption DEF Init
  <2> QED  BY <2>1, <2>2, <2>3, BudgetAssumption DEF Init, TypeOK
<1> QED  BY <1>1, TypeInductive, PTL DEF Spec

-----------------------------------------------------------------------------
(* PausedNeverBlocks. *)

\* Who writes budget documents: changes, evaluations and creations.
LEMMA BudgetWriters ==
  ASSUME TypeOK, [Next]_vars
  PROVE  \/ UNCHANGED <<budget, held>>
         \/ \E t \in Tasks : /\ Serve(t)
                            /\ \/ Change(t) \/ WriteBudget(t)
                               \/ \E b \in Budgets : CreateBudget(t, b)
<1>1. ASSUME NEW t \in Tasks, Serve(t), ~Change(t), ~WriteBudget(t),
             ~\E b \in Budgets : CreateBudget(t, b)
      PROVE  UNCHANGED <<budget, held>>
  BY <1>1
  DEF Serve, BeginRequest, Query, Answer, RecordUsage, AfterSpend, ListBudgets,
      BeginEvaluate, ReadBudget, Aggregate, ReadAlert, WriteAlert, BeginChange, ClearCache, Fail
<1>2. CASE Outside \/ Tick \/ UNCHANGED vars
  BY <1>2, OutsideEffect DEF Tick, vars
<1> QED  BY <1>1, <1>2, StepCases

\* A pause switches the budget off, and evaluations leave the switch alone.
HeldAreOff == \A b \in held : ~budget[b].enabled

LEMMA HeldInductive == TypeOK /\ HeldAreOff /\ [Next]_vars => HeldAreOff'
<1> SUFFICES ASSUME TypeOK, HeldAreOff, [Next]_vars PROVE HeldAreOff'
  OBVIOUS
<1>1. CASE UNCHANGED <<budget, held>>
  BY <1>1 DEF HeldAreOff
<1>2. ASSUME NEW t \in Tasks, Change(t)
      PROVE  HeldAreOff'
  <2>1. ASSUME Changed(task[t].b, task[t].op)
        PROVE  HeldAreOff'
    <3> DEFINE b == task[t].b
    <3>1. b \in Budgets /\ budget \in [Budgets -> BudgetDoc]
          /\ budget[b] \in BudgetDoc /\ held \subseteq Budgets
      BY AdvanceTyped DEF TypeOK
    <3>2. \A c \in held : c # b => budget'[c] = budget[c]
      BY <2>1, <3>1 DEF Changed
    <3>3. \/ held' = held \cup {b} /\ ~budget'[b].enabled
          \/ held' = held /\ (b \in held => budget'[b].enabled = budget[b].enabled)
          \/ held' = held \ {b}
      <4>1. Paused(budget[b]).enabled = FALSE
        BY <3>1 DEF Paused, BudgetDoc
      <4>2. \A n \in Limits : [budget[b] EXCEPT !.limit = n].enabled = budget[b].enabled
        BY <3>1 DEF BudgetDoc
      <4> HIDE DEF Paused
      <4>3. CASE budget' = [budget EXCEPT ![b] = Paused(budget[b])] /\ held' = held \cup {b}
        BY <3>1, <4>1, <4>3
      <4>4. ASSUME NEW n \in Limits, held' = held,
                   budget' = [budget EXCEPT ![b] = [budget[b] EXCEPT !.limit = n]]
            PROVE  held' = held /\ (b \in held => budget'[b].enabled = budget[b].enabled)
        BY <3>1, <4>2, <4>4
      <4> QED  BY <2>1, <4>3, <4>4 DEF Changed
    <3> QED  BY <3>2, <3>3 DEF HeldAreOff
  <2> QED  BY <1>1, <1>2, <2>1 DEF Change
<1>3. ASSUME NEW t \in Tasks, WriteBudget(t) \/ \E b \in Budgets : CreateBudget(t, b)
      PROVE  HeldAreOff'
  <2>1. held' = held /\ held \subseteq Budgets
    BY <1>3 DEF WriteBudget, CreateBudget, TypeOK
  <2>2. ASSUME NEW c \in Budgets
        PROVE  budget'[c].enabled = budget[c].enabled
    <3>1. budget \in [Budgets -> BudgetDoc] /\ budget[c] \in BudgetDoc
      BY DEF TypeOK
    <3>2. CASE WriteBudget(t)
      BY <3>1, <3>2 DEF WriteBudget, BudgetDoc
    <3>3. CASE \E b \in Budgets : CreateBudget(t, b)
      BY <3>1, <3>3 DEF CreateBudget, BudgetDoc
    <3> QED  BY <1>3, <3>2, <3>3
  <2> QED  BY <2>1, <2>2 DEF HeldAreOff
<1> QED  BY <1>1, <1>2, <1>3, BudgetWriters

\* A paused budget that no user has touched since never blocks.
THEOREM PausedDoNotBlock == Spec => []PausedNeverBlocks
<1>1. Init => HeldAreOff
  BY DEF Init, HeldAreOff
<1>2. HeldAreOff => PausedNeverBlocks
  BY DEF HeldAreOff, PausedNeverBlocks, Blocks
<1> QED  BY <1>1, <1>2, HeldInductive, TypeCorrect, PTL DEF Spec

-----------------------------------------------------------------------------
(* AdmissionLag and RefusalLag. *)

\* A verdict is as old as its query, while it is on its way ...
AnswersTimely ==
  \A t \in Tasks : At(t, "answered") =>
    /\ task[t].age <= AnswerTime
    /\ task[t].verdict = "allowed" => openAge <= task[t].age
    /\ task[t].verdict = "blocked" => shutAge <= task[t].age

\* ... and once it is cached, older by what its entry has lived.
EntryTimely ==
  /\ cache.verdict = "allowed" =>
       cache.left <= AllowedTTL /\ openAge <= AllowedTTL - cache.left + AnswerTime
  /\ cache.verdict = "blocked" =>
       cache.left <= BlockedTTL /\ shutAge <= BlockedTTL - cache.left + AnswerTime

Timely == AnswersTimely /\ EntryTimely

\* The numbers the ages are compared with.
LEMMA Numbers ==
  ASSUME TypeOK
  PROVE  /\ AllowedTTL \in Nat /\ BlockedTTL \in Nat /\ AnswerTime \in Nat
         /\ openAge \in Nat /\ shutAge \in Nat /\ cache.left \in Nat
         /\ \A t \in Tasks : task[t].age \in Nat
  BY BudgetAssumption DEF TypeOK, CacheEntry, Task

\* A query answers what its store says at that moment.
LEMMA QueryTimely ==
  ASSUME TypeOK, NEW t \in Tasks, Query(t), Observe(0)
  PROVE  /\ task'[t].age = 0
         /\ task'[t].verdict = "allowed" => openAge' = 0
         /\ task'[t].verdict = "blocked" => shutAge' = 0
<1> DEFINE v == IF Blocking(budget) THEN "blocked" ELSE "allowed"
           k == [IdleTask EXCEPT !.pc = "answered", !.verdict = v]
<1>1. budget' = budget /\ task' = [task EXCEPT ![t] = k]
  BY DEF Query, Goto
<1>2. k.age = 0 /\ k.verdict = v
  BY DEF IdleTask
<1>3. Blocking(budget') = Blocking(budget)
  BY <1>1
<1>4. /\ v = "allowed" => ~Blocking(budget')
      /\ v = "blocked" => Blocking(budget')
  BY <1>3
<1> HIDE DEF k, v
<1>5. task'[t] = k
  BY <1>1 DEF TypeOK
<1> QED  BY <1>2, <1>4, <1>5, Observed

LEMMA ServeTimely ==
  ASSUME TypeOK, TypeOK', Timely, NEW t \in Tasks, Serve(t), Observe(0)
  PROVE  Timely'
<1>1. openAge' <= openAge /\ shutAge' <= shutAge
  BY Numbers, Observed
<1>2. Effect(t)
  BY ServeEffect
<1>3. openAge' \in Nat /\ shutAge' \in Nat
  BY DEF TypeOK
<1>4. AnswersTimely'
  <2>1. ASSUME NEW u \in Tasks, u # t, task'[u].pc = "answered"
        PROVE  /\ task'[u].age <= AnswerTime
               /\ task'[u].verdict = "allowed" => openAge' <= task'[u].age
               /\ task'[u].verdict = "blocked" => shutAge' <= task'[u].age
    <3>1. task'[u] = task[u] /\ task[u].age \in Nat
      BY <1>2, <2>1, Numbers DEF Effect
    <3> QED  BY <1>1, <1>3, <2>1, <3>1, Numbers DEF Timely, AnswersTimely
  <2>2. ASSUME task'[t].pc = "answered"
        PROVE  /\ task'[t].age <= AnswerTime
               /\ task'[t].verdict = "allowed" => openAge' <= task'[t].age
               /\ task'[t].verdict = "blocked" => shutAge' <= task'[t].age
    BY <1>2, <2>2, QueryTimely, Numbers DEF Effect
  <2> QED  BY <2>1, <2>2 DEF AnswersTimely
<1>5. EntryTimely'
  <2>1. CASE cache' = cache
    BY <1>1, <1>3, <2>1, Numbers DEF Timely, EntryTimely
  <2>2. CASE cache' = NoEntry
    BY <2>2 DEF EntryTimely, NoEntry
  <2>3. CASE Answer(t)
    <3>1. cache'.verdict = task[t].verdict /\ cache'.left = TTL(task[t].verdict)
          /\ task[t].pc = "answered"
      BY <2>3 DEF Answer
    <3>2. TTL("allowed") = AllowedTTL /\ TTL("blocked") = BlockedTTL
      BY DEF TTL
    <3>3. /\ task[t].verdict = "allowed" => openAge' <= AnswerTime
          /\ task[t].verdict = "blocked" => shutAge' <= AnswerTime
      BY <1>1, <1>3, <3>1, Numbers DEF Timely, AnswersTimely
    <3> QED  BY <3>1, <3>2, <3>3, <1>3, Numbers DEF EntryTimely
  <2> QED  BY <1>2, <2>1, <2>2, <2>3 DEF Effect
<1> QED  BY <1>4, <1>5 DEF Timely

LEMMA OutsideTimely ==
  ASSUME TypeOK, TypeOK', Timely, Outside, Observe(0)
  PROVE  Timely'
<1>1. openAge' <= openAge /\ shutAge' <= shutAge /\ openAge' \in Nat /\ shutAge' \in Nat
  BY Numbers, Observed
<1>2. cache' \in {cache, NoEntry} /\ task' \in {task, [t \in Tasks |-> IdleTask]}
  BY OutsideEffect
<1>3. AnswersTimely'
  <2>1. ASSUME NEW t \in Tasks, task'[t].pc = "answered"
        PROVE  task'[t] = task[t]
    <3>1. IdleTask.pc = "idle"
      BY DEF IdleTask
    <3> QED  BY <1>2, <2>1, <3>1
  <2> QED  BY <1>1, <2>1, Numbers DEF Timely, AnswersTimely
<1>4. EntryTimely'
  BY <1>1, <1>2, Numbers DEF Timely, EntryTimely, NoEntry
<1> QED  BY <1>3, <1>4 DEF Timely

LEMMA TickTimely ==
  ASSUME TypeOK, TypeOK', Timely, Tick, Observe(1)
  PROVE  Timely'
<1>1. openAge' <= openAge + 1 /\ shutAge' <= shutAge + 1
      /\ openAge' \in Nat /\ shutAge' \in Nat
  BY Numbers, Observed
<1>2. AnswersTimely'
  <2>1. ASSUME NEW t \in Tasks, task'[t].pc = "answered"
        PROVE  /\ task[t].pc = "answered" /\ task[t].age < AnswerTime
               /\ task'[t].age = task[t].age + 1 /\ task'[t].verdict = task[t].verdict
    <3>1. task[t] \in Task
      BY DEF TypeOK
    <3>2. task'[t] = IF task[t].pc = "answered" THEN [task[t] EXCEPT !.age = @ + 1] ELSE task[t]
      BY DEF Tick
    <3>3. task[t].pc = "answered"
      BY <2>1, <3>2
    <3> QED  BY <3>1, <3>2, <3>3 DEF Tick, Task
  <2> QED  BY <1>1, <2>1, Numbers DEF Timely, AnswersTimely
<1>3. EntryTimely'
  <2>1. cache' = NoEntry \/ (cache.left # 0 /\ cache' = [cache EXCEPT !.left = @ - 1])
    <3>1. cache' = Aged(cache)
      BY DEF Tick
    <3>2. cache.left = 0 => Aged(cache) = NoEntry
      BY DEF Aged
    <3>3. cache.left # 0 => Aged(cache) = [cache EXCEPT !.left = @ - 1]
      BY DEF Aged
    <3> QED  BY <3>1, <3>2, <3>3
  <2>2. CASE cache' = NoEntry
    BY <2>2 DEF EntryTimely, NoEntry
  <2>3. CASE cache.left # 0 /\ cache' = [cache EXCEPT !.left = @ - 1]
    <3>1. cache'.left = cache.left - 1 /\ cache'.verdict = cache.verdict
      BY <2>3 DEF TypeOK, CacheEntry
    <3> QED  BY <1>1, <3>1, Numbers DEF Timely, EntryTimely
  <2> QED  BY <2>1, <2>2, <2>3
<1> QED  BY <1>2, <1>3 DEF Timely

LEMMA TimelyAlways == Spec => [](TypeOK /\ Timely)
<1>1. Init => Timely
  <2> SUFFICES ASSUME Init PROVE Timely
    OBVIOUS
  <2>1. \A t \in Tasks : task[t].pc = "idle"
    BY DEF Init, IdleTask
  <2> QED  BY <2>1 DEF Init, Timely, AnswersTimely, EntryTimely, NoEntry
<1>2. TypeOK /\ TypeOK' /\ Timely /\ [Next]_vars => Timely'
  <2>1. UNCHANGED vars /\ Timely => Timely'
    BY DEF vars, Timely, AnswersTimely, EntryTimely
  <2> QED  BY <2>1, StepCases, ServeTimely, OutsideTimely, TickTimely
<1> QED  BY <1>1, <1>2, TypeCorrect, PTL DEF Spec

\* Requests are let through past a blocking budget for a bounded time only.
THEOREM AdmissionIsTimely == Spec => []AdmissionLag
<1>1. TypeOK /\ Timely => AdmissionLag
  <2> SUFFICES ASSUME TypeOK, Timely PROVE AdmissionLag
    OBVIOUS
  <2>1. cache.verdict = "allowed" => openAge <= AllowedTTL + AnswerTime
    BY Numbers DEF Timely, EntryTimely
  <2>2. ASSUME NEW t \in Tasks, At(t, "answered"), task[t].verdict = "allowed"
        PROVE  openAge <= AnswerTime
    BY <2>2, Numbers DEF Timely, AnswersTimely
  <2> QED  BY <2>1, <2>2 DEF AdmissionLag
<1> QED  BY <1>1, TimelyAlways, PTL

\* Requests are refused without a blocking budget for a bounded time only.
THEOREM RefusalIsTimely == Spec => []RefusalLag
<1>1. TypeOK /\ Timely => RefusalLag
  <2> SUFFICES ASSUME TypeOK, Timely PROVE RefusalLag
    OBVIOUS
  <2>1. cache.verdict = "blocked" => shutAge <= BlockedTTL + AnswerTime
    BY Numbers DEF Timely, EntryTimely
  <2>2. ASSUME NEW t \in Tasks, At(t, "answered"), task[t].verdict = "blocked"
        PROVE  shutAge <= AnswerTime
    BY <2>2, Numbers DEF Timely, AnswersTimely
  <2> QED  BY <2>1, <2>2 DEF RefusalLag
<1> QED  BY <1>1, TimelyAlways, PTL
-----------------------------------------------------------------------------
(* DeletedStaysDeleted and ExceededIsAnnounced. *)

LEMMA DeletedKept ==
  ASSUME TypeOK, [Next]_vars, NEW b \in Budgets, budget[b].life = "deleted"
  PROVE  budget'[b].life = "deleted"
<1>1. budget \in [Budgets -> BudgetDoc]
  BY DEF TypeOK
<1>2. ASSUME NEW t \in Tasks, Change(t)
      PROVE  budget'[b] = budget[b]
  <2>1. budget' = budget \/ (task[t].b # b /\ Changed(task[t].b, task[t].op))
    BY <1>2 DEF Change
  <2> QED  BY <1>1, <2>1 DEF Changed
<1>3. ASSUME NEW t \in Tasks, WriteBudget(t)
      PROVE  budget'[b] = budget[b]
  <2>1. budget' = budget \/ task[t].b # b
    BY <1>3 DEF WriteBudget
  <2> QED  BY <1>1, <1>3, <2>1 DEF WriteBudget
<1>4. ASSUME NEW t \in Tasks, NEW c \in Budgets, CreateBudget(t, c)
      PROVE  budget'[b] = budget[b]
  <2>1. c # b
    BY <1>4 DEF CreateBudget
  <2> QED  BY <1>1, <1>4, <2>1 DEF CreateBudget
<1> QED  BY <1>2, <1>3, <1>4, BudgetWriters

\* No evaluation or change in flight brings a deleted budget back.
THEOREM DeletedBudgetsStay == Spec => DeletedStaysDeleted
<1>1. TypeOK /\ [Next]_vars =>
        \A b \in Budgets : budget[b].life = "deleted" => budget'[b].life = "deleted"
  BY DeletedKept
<1> QED  BY <1>1, TypeCorrect, PTL DEF Spec, DeletedStaysDeleted

\* An evaluation about to write a crossed threshold has its alert stored.
WritingAnnounced ==
  \A t \in Tasks :
    At(t, "writing") /\ Crossed(task[t].spend, task[t].limit)
    => alerts[task[t].b][task[t].period] # "none"

\* An alert that was stored stays, whatever becomes of its status.
LEMMA AlertsKept ==
  ASSUME TypeOK, [Next]_vars, NEW b \in Budgets, NEW n \in Periods, alerts[b][n] # "none"
  PROVE  alerts'[b][n] # "none"
<1>1. ASSUME NEW t \in Tasks, WriteAlert(t)
      PROVE  alerts'[b][n] # "none"
  BY <1>1, AdvanceTyped DEF WriteAlert, TypeOK
<1>2. ASSUME NEW c \in Budgets, NEW m \in Periods, NEW s \in {"ACKNOWLEDGED", "RESOLVED"},
             SetAlert(c, m, s)
      PROVE  alerts'[b][n] # "none"
  BY <1>2 DEF SetAlert, TypeOK
<1>3. ASSUME NEW t \in Tasks, Serve(t), ~WriteAlert(t)
      PROVE  alerts' = alerts
  BY <1>3
  DEF Serve, BeginRequest, Query, Answer, RecordUsage, AfterSpend, ListBudgets,
      BeginEvaluate, CreateBudget, ReadBudget, Aggregate, ReadAlert, WriteBudget,
      BeginChange, Change, ClearCache, Fail
<1>4. CASE RecordCost \/ NextPeriod \/ Restart \/ Tick \/ UNCHANGED vars
  BY <1>4 DEF RecordCost, NextPeriod, Restart, Tick, vars
<1> QED  BY <1>1, <1>2, <1>3, <1>4, StepCases DEF Outside

\* What brings an evaluation to its write.
LEMMA AnnouncedBefore ==
  ASSUME TypeOK, NEW t \in Tasks, Aggregate(t) \/ ReadAlert(t) \/ WriteAlert(t),
         task'[t].pc = "writing", Crossed(task'[t].spend, task'[t].limit)
  PROVE  alerts'[task'[t].b][task'[t].period] # "none"
<1>1. task[t] \in Task /\ task \in [Tasks -> Task]
  BY DEF TypeOK
<1>2. CASE Aggregate(t)
  <2> DEFINE s == AggregateSpend(task[t].period)
             pc == IF Crossed(s, task[t].limit) THEN "alerting" ELSE "writing"
             k == [task[t] EXCEPT !.spend = s, !.pc = pc]
  <2>1. task'[t] = k
    BY <1>1, <1>2 DEF Aggregate, Goto
  <2>2. k.spend = s /\ k.limit = task[t].limit /\ k.pc = pc
    BY <1>1 DEF Task
  <2>3. ~Crossed(s, task[t].limit)
    BY <2>1, <2>2
  <2> HIDE DEF s, k
  <2> QED  BY <2>1, <2>2, <2>3
<1>3. CASE ReadAlert(t)
  <2>1. PICK pc \in {"writing", "announcing"} :
           /\ task' = [task EXCEPT ![t] = [task[t] EXCEPT !.pc = pc]]
           /\ pc = "writing" => alerts[task[t].b][task[t].period] \in {"ACTIVE", "ACKNOWLEDGED"}
    BY <1>3 DEF ReadAlert, Goto
  <2>2. task'[t] = [task[t] EXCEPT !.pc = pc]
    BY <1>1, <2>1
  <2>3. task'[t].pc = pc /\ task'[t].b = task[t].b /\ task'[t].period = task[t].period
    BY <1>1, <2>2 DEF Task
  <2>4. alerts' = alerts
    BY <1>3 DEF ReadAlert
  <2> QED  BY <2>1, <2>3, <2>4
<1>4. CASE WriteAlert(t)
  <2>1. task' = [task EXCEPT ![t] = [task[t] EXCEPT !.pc = "writing"]]
    BY <1>4 DEF WriteAlert, Goto
  <2>2. task'[t].b = task[t].b /\ task'[t].period = task[t].period
    BY <1>1, <2>1 DEF Task
  <2>3. alerts'[task[t].b][task[t].period] = "ACTIVE"
    BY <1>4, AdvanceTyped DEF WriteAlert, TypeOK
  <2> QED  BY <2>2, <2>3
<1> QED  BY <1>2, <1>3, <1>4

LEMMA AnnouncedInductive == TypeOK /\ WritingAnnounced /\ [Next]_vars => WritingAnnounced'
<1> SUFFICES ASSUME TypeOK, WritingAnnounced, [Next]_vars,
                    NEW t \in Tasks, task'[t].pc = "writing",
                    Crossed(task'[t].spend, task'[t].limit)
             PROVE  alerts'[task'[t].b][task'[t].period] # "none"
  BY DEF WritingAnnounced
<1>1. CASE task'[t] = task[t]
  BY <1>1, AlertsKept, AdvanceTyped DEF WritingAnnounced
<1>2. ASSUME NEW u \in Tasks, Serve(u)
      PROVE  alerts'[task'[t].b][task'[t].period] # "none"
  <2>1. CASE u = t
    BY <1>2, <2>1, ServeEffect, AnnouncedBefore DEF Effect
  <2>2. CASE u # t
    BY <1>1, <1>2, <2>2, ServeEffect DEF Effect
  <2> QED  BY <2>1, <2>2
<1>3. CASE Outside
  <2>1. IdleTask.pc = "idle"
    BY DEF IdleTask
  <2> QED  BY <1>1, <1>3, <2>1, OutsideEffect
<1>4. CASE Tick
  <2>1. task'[t] = IF task[t].pc = "answered" THEN [task[t] EXCEPT !.age = @ + 1] ELSE task[t]
    BY <1>4 DEF Tick
  <2>2. [task[t] EXCEPT !.age = @ + 1].pc = task[t].pc
    BY DEF TypeOK, Task
  <2> QED  BY <1>1, <2>1, <2>2
<1>5. CASE UNCHANGED vars
  BY <1>1, <1>5 DEF vars
<1> QED  BY <1>2, <1>3, <1>4, <1>5, StepCases

LEMMA ExceededAnnounced ==
  ASSUME TypeOK, WritingAnnounced, [Next]_vars, NEW t \in Tasks,
         At(t, "writing"), task'[t] # task[t], budget' # budget,
         budget'[task[t].b].status = "EXCEEDED"
  PROVE  alerts[task[t].b][task[t].period] # "none"
<1>1. PICK u \in Tasks : /\ Serve(u)
                        /\ \/ Change(u) \/ WriteBudget(u)
                           \/ \E b \in Budgets : CreateBudget(u, b)
  BY BudgetWriters
<1>2. u = t
  BY <1>1, ServeEffect DEF Effect
<1>3. WriteBudget(t)
  BY <1>1, <1>2 DEF Change, CreateBudget
<1>4. budget'[task[t].b].status = StatusAfter(task[t].spend, task[t].limit)
  <2>1. budget \in [Budgets -> BudgetDoc] /\ task[t].b \in Budgets
    BY AdvanceTyped DEF TypeOK
  <2>2. budget' = [budget EXCEPT ![task[t].b].spend = task[t].spend,
                                 ![task[t].b].status = StatusAfter(task[t].spend, task[t].limit)]
    BY <1>3 DEF WriteBudget
  <2> QED  BY <2>1, <2>2 DEF BudgetDoc
<1>5. Crossed(task[t].spend, task[t].limit)
  BY <1>4 DEF StatusAfter, Crossed
<1> QED  BY <1>5 DEF WritingAnnounced

\* EXCEEDED is written only once the alert of the period is stored.
THEOREM ExceededWereAnnounced == Spec => ExceededIsAnnounced
<1>1. Init => WritingAnnounced
  <2>1. IdleTask.pc = "idle"
    BY DEF IdleTask
  <2> QED  BY <2>1 DEF Init, WritingAnnounced
<1>2. TypeOK /\ WritingAnnounced /\ [Next]_vars =>
        \A t \in Tasks :
          LET k == task[t] IN
          /\ At(t, "writing") /\ task'[t] # k
          /\ budget' # budget /\ budget'[k.b].status = "EXCEEDED"
          => alerts[k.b][k.period] # "none"
  BY ExceededAnnounced
<1> QED  BY <1>1, <1>2, AnnouncedInductive, TypeCorrect, PTL DEF Spec, ExceededIsAnnounced
============================================================================
