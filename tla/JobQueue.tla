------------------------------ MODULE JobQueue ------------------------------
(***************************************************************************)
(* The background job queue (lib/jobs/memory-queue.ts) and the shutdown     *)
(* coordinator that drains it (lib/infrastructure/shutdown.ts).             *)
(*                                                                         *)
(* An action is the code between two awaits.  processBatch starts its       *)
(* workers in one synchronous loop, in which each claims its first job: a   *)
(* worker is "fresh" until then, and nothing else runs meanwhile (Quiet).   *)
(* backoffMs is computed by the code and never waited for, so a retry is    *)
(* ready at once.                                                           *)
(***************************************************************************)
EXTENDS Integers, Sequences, FiniteSets

CONSTANTS
    MaxJobs,       \* jobs of one process life (model checking only)
    Keys,          \* idempotency keys
    NoKey,
    Types,         \* job types
    MaxAttempts,   \* maxAttempts, 3
    MaxRetained,   \* maxRetainedJobs, 10000
    PruneBatch,    \* completed jobs dropped at once, 500
    Callers,       \* callers of processNext outside a batch
    Shutdowns,     \* shutdown sequences of one process life
    BatchSize,     \* batchSize of the drain, 25
    Concurrency    \* concurrency of the drain, 5

ASSUME JobQueueAssumption ==
    /\ MaxJobs \in Nat
    /\ NoKey \notin Keys
    /\ Types # {}
    /\ MaxAttempts \in Nat \ {0}
    /\ MaxRetained \in Nat
    /\ PruneBatch \in Nat
    /\ BatchSize \in Nat
    /\ Concurrency \in Nat \ {0}
    /\ Callers \cap (Shutdowns \X (1..Concurrency)) = {}

Jobs == 1..MaxJobs    \* ids grow, as the insertion order of allJobs does
NoJob == 0

DrainWorkers == Shutdowns \X (1..Concurrency)
Workers == Callers \cup DrainWorkers

VARIABLES
    job,             \* job[j]: the Job object
    pending,         \* the array pending
    allJobs,         \* ids in the map allJobs
    deadLetters,     \* ids in the map deadLetters
    idempotencyMap,  \* key -> id, NoJob when absent
    handlers,        \* types with a registered handler
    worker,          \* worker[w]: a processNext call in flight
    shutdown,        \* shutdown[s]: one run of the shutdown handlers
    active,          \* the sequence behind activeShutdownPromise, a set
    disturbed        \* history: jobs recovered or cleared under their handler

vars == <<job, pending, allJobs, deadLetters, idempotencyMap, handlers, worker,
          shutdown, active, disturbed>>
queueVars == <<pending, allJobs, deadLetters, idempotencyMap, handlers>>
shutdownVars == <<shutdown, active>>

Statuses == {"NEW", "PENDING", "PROCESSING", "COMPLETED", "DEAD_LETTER"}
Job == [status : Statuses, attempt : Nat, type : Types, key : Keys \cup {NoKey}]
Worker == [pc : {"off", "fresh", "ready", "running"}, job : Jobs \cup {NoJob}]
Shutdown == [pc : {"idle", "draining", "cleaning", "over"},
             toProcess : Nat, processed : Nat]

NewJob == [status |-> "NEW", attempt |-> 0, type |-> CHOOSE t \in Types : TRUE,
           key |-> NoKey]
Off == [pc |-> "off", job |-> NoJob]
IdleShutdown == [pc |-> "idle", toProcess |-> 0, processed |-> 0]

Init ==
    /\ job = [j \in Jobs |-> NewJob]
    /\ pending = <<>>
    /\ allJobs = {}
    /\ deadLetters = {}
    /\ idempotencyMap = [k \in Keys |-> NoJob]
    /\ handlers = {}
    /\ worker = [w \in Workers |-> Off]
    /\ shutdown = [s \in Shutdowns |-> IdleShutdown]
    /\ active = {}
    /\ disturbed = {}

Quiet == \A w \in Workers : worker[w].pc # "fresh"

Runs(w, j) == worker[w].pc = "running" /\ worker[w].job = j

-----------------------------------------------------------------------------
RegisterHandler(t) ==
    /\ Quiet
    /\ handlers' = handlers \cup {t}
    /\ UNCHANGED <<job, pending, allJobs, deadLetters, idempotencyMap, worker,
                   shutdownVars, disturbed>>

\* The completed jobs pruneOldCompletedJobs drops, the oldest first.
Pruned ==
    LET completed == {j \in allJobs : job[j].status = "COMPLETED"}
    IN  IF Cardinality(allJobs) < MaxRetained THEN {}
        ELSE {j \in completed : Cardinality({i \in completed : i < j}) < PruneBatch}

\* Only a job on its way counts: a failed one may be submitted again.
KnownInFlight(k) ==
    /\ k # NoKey
    /\ \E j \in allJobs : /\ idempotencyMap[k] = j
                         /\ job[j].status \in {"PENDING", "PROCESSING"}

\* The key names a job that is still known: enqueue returns that job.
Known(k) == k # NoKey /\ idempotencyMap[k] \in allJobs \cup deadLetters

Enqueue(j, t, k) ==
    /\ Quiet
    /\ \A i \in Jobs : (job[i].status = "NEW") <=> (i >= j)
    /\ ~Known(k)
    /\ LET pruned == Pruned
           kept == [l \in Keys |-> IF \E i \in pruned : job[i].key = l
                                   THEN NoJob ELSE idempotencyMap[l]]
       IN  /\ allJobs' = (allJobs \ pruned) \cup {j}
           /\ idempotencyMap' =
                  [l \in Keys |-> IF l = k THEN j ELSE kept[l]]
    /\ job' = [job EXCEPT ![j] = [status |-> "PENDING", attempt |-> 0,
                                  type |-> t, key |-> k]]
    /\ pending' = Append(pending, j)
    /\ UNCHANGED <<deadLetters, handlers, worker, shutdownVars, disturbed>>

-----------------------------------------------------------------------------
\* processNext up to the handler's await.  Without a handler the job goes to
\* the dead letters, and the worker is in state idle again.
Take(w, idle) ==
    LET j == Head(pending) IN
    /\ pending # <<>>
    /\ pending' = Tail(pending)
    /\ \/ /\ job[j].type \in handlers
          /\ job' = [job EXCEPT ![j].attempt = @ + 1, ![j].status = "PROCESSING"]
          /\ worker' = [worker EXCEPT ![w] = [pc |-> "running", job |-> j]]
          /\ UNCHANGED deadLetters
       \/ /\ job[j].type \notin handlers
          /\ job' = [job EXCEPT ![j].attempt = @ + 1, ![j].status = "DEAD_LETTER"]
          /\ worker' = [worker EXCEPT ![w] = idle]
          /\ deadLetters' = deadLetters \cup {j}
    /\ UNCHANGED <<allJobs, idempotencyMap, handlers, active, disturbed>>

Ready == [pc |-> "ready", job |-> NoJob]

ProcessNext(c) ==
    /\ Quiet
    /\ worker[c] = Off
    /\ Take(c, Off)
    /\ UNCHANGED shutdown

Requeue(j) == pending' = Append(pending, j)

\* One attempt too many.
RetryOnceMore(j, outcome) == outcome = "transient" /\ job[j].attempt <= MaxAttempts

Retryable(j, outcome) == outcome = "transient" /\ job[j].attempt < MaxAttempts

\* The handler's promise settles: the rest of processNext.
Settle(w, outcome) ==
    LET j == worker[w].job IN
    /\ Quiet
    /\ worker[w].pc = "running"
    /\ worker' = [worker EXCEPT ![w] = IF w \in Callers THEN Off ELSE Ready]
    /\ \/ /\ outcome = "ok"
          /\ job' = [job EXCEPT ![j].status = "COMPLETED"]
          /\ UNCHANGED <<pending, deadLetters>>
       \/ /\ outcome # "ok"
          /\ Retryable(j, outcome)
          /\ job' = [job EXCEPT ![j].status = "PENDING"]
          /\ Requeue(j)
          /\ UNCHANGED deadLetters
       \/ /\ outcome # "ok"
          /\ ~Retryable(j, outcome)
          /\ job' = [job EXCEPT ![j].status = "DEAD_LETTER"]
          /\ deadLetters' = deadLetters \cup {j}
          /\ UNCHANGED pending
    /\ UNCHANGED <<allJobs, idempotencyMap, handlers, shutdownVars, disturbed>>

\* A replayed job keeps the attempts it has used up.
ReplayUsedUp(j) ==
    /\ Quiet
    /\ j \in deadLetters
    /\ deadLetters' = deadLetters \ {j}
    /\ job' = [job EXCEPT ![j].status = "PENDING"]
    /\ Requeue(j)
    /\ UNCHANGED <<allJobs, idempotencyMap, handlers, worker, shutdownVars,
                   disturbed>>

\* retryDeadLetter; requeueAllDeadLetters is this for each letter in turn.
RetryDeadLetter(j) ==
    /\ Quiet
    /\ j \in deadLetters
    /\ deadLetters' = deadLetters \ {j}
    /\ job' = [job EXCEPT ![j].status = "PENDING", ![j].attempt = 0]
    /\ Requeue(j)
    /\ UNCHANGED <<allJobs, idempotencyMap, handlers, worker, shutdownVars,
                   disturbed>>

Clear ==
    /\ Quiet
    /\ pending' = <<>>
    /\ allJobs' = {}
    /\ deadLetters' = {}
    /\ idempotencyMap' = [k \in Keys |-> NoJob]
    /\ disturbed' = disturbed \cup allJobs
    /\ UNCHANGED <<job, handlers, worker, shutdownVars>>

-----------------------------------------------------------------------------
\* shutdown() with no sequence under way: processBatch fixes how many jobs it
\* will process and starts its workers.  With one, the caller gets its promise.
BeginShutdown(s) ==
    /\ Quiet
    /\ active = {}
    /\ shutdown[s].pc = "idle"
    /\ active' = {s}
    /\ LET n == IF Len(pending) < BatchSize THEN Len(pending) ELSE BatchSize
       IN  /\ shutdown' = [shutdown EXCEPT ![s] =
                  [pc |-> "draining", toProcess |-> n, processed |-> 0]]
           /\ worker' = [w \in Workers |->
                  IF w \in DrainWorkers /\ w[1] = s /\ w[2] <= n
                  THEN [pc |-> "fresh", job |-> NoJob] ELSE worker[w]]
    /\ UNCHANGED <<job, queueVars, disturbed>>

\* Mutant of Count: the loop runs until the queue is empty.
CountNothing(s) == UNCHANGED shutdown

Count(s) == shutdown' = [shutdown EXCEPT ![s].processed = @ + 1]

\* Mutant of HasWork: one job too many.
HasWorkOneMore(s) ==
    shutdown[s].processed <= shutdown[s].toProcess /\ pending # <<>>

HasWork(s) == shutdown[s].processed < shutdown[s].toProcess /\ pending # <<>>

\* runWorker: one turn of the loop.  Fresh workers go first, in their order.
WorkerClaims(w) ==
    /\ \/ /\ worker[w].pc = "fresh"
          /\ \A i \in 1..(w[2] - 1) : worker[<<w[1], i>>].pc # "fresh"
       \/ worker[w].pc = "ready" /\ Quiet
    /\ HasWork(w[1])
    /\ Count(w[1])
    /\ Take(w, Ready)

WorkerLeaves(w) ==
    /\ Quiet
    /\ worker[w].pc = "ready"
    /\ ~HasWork(w[1])
    /\ worker' = [worker EXCEPT ![w] = Off]
    /\ UNCHANGED <<job, queueVars, shutdownVars, disturbed>>

\* The interrupted jobs are marked only.
RecoverUnqueued(S) == UNCHANGED pending

\* Each interrupted job, oldest first, is put at the front.
PutBack(S) ==
    \E front \in [1..Cardinality(S) -> S] :
        /\ \A i, k \in 1..Cardinality(S) : i < k => front[i] > front[k]
        /\ \A j \in S : \E i \in 1..Cardinality(S) : front[i] = j
        /\ pending' = front \o pending

Interrupted == {j \in allJobs : job[j].status = "PROCESSING"}

\* All workers have left: recoverInterruptedJobs requeues every job another
\* caller's or another drain's handler is still running.
Recover(s) ==
    /\ Quiet
    /\ shutdown[s].pc = "draining"
    /\ \A i \in 1..Concurrency : worker[<<s, i>>].pc = "off"
    /\ job' = [j \in Jobs |-> IF j \in Interrupted
                              THEN [job[j] EXCEPT !.status = "PENDING"]
                              ELSE job[j]]
    /\ PutBack(Interrupted)
    /\ disturbed' = disturbed \cup Interrupted
    /\ shutdown' = [shutdown EXCEPT ![s] = [IdleShutdown EXCEPT !.pc = "cleaning"]]
    /\ UNCHANGED <<allJobs, deadLetters, idempotencyMap, handlers, worker, active>>

\* The remaining handlers are done; without exitOnComplete the manager is
\* ready for another sequence.
EndShutdown(s) ==
    /\ Quiet
    /\ shutdown[s].pc = "cleaning"
    /\ shutdown' = [shutdown EXCEPT ![s] = [IdleShutdown EXCEPT !.pc = "over"]]
    /\ active' = active \ {s}
    /\ UNCHANGED <<job, queueVars, worker, disturbed>>

\* Mutant of Deadline: the sequence is awaited, with nothing to race it.
DeadlineAfterDrain(s) ==
    /\ Quiet
    /\ s \in active
    /\ shutdown[s].pc = "cleaning"
    /\ active' = {}
    /\ UNCHANGED <<job, queueVars, worker, shutdown, disturbed>>

\* The deadline wins the race: the promise settles, the handlers run on.
Deadline(s) ==
    /\ Quiet
    /\ s \in active
    /\ active' = {}
    /\ UNCHANGED <<job, queueVars, worker, shutdown, disturbed>>

\* process.exit after a shutdown, or a crash: everything is in memory.
Exit ==
    /\ job' = [j \in Jobs |-> NewJob]
    /\ pending' = <<>>
    /\ allJobs' = {}
    /\ deadLetters' = {}
    /\ idempotencyMap' = [k \in Keys |-> NoJob]
    /\ handlers' = {}
    /\ worker' = [w \in Workers |-> Off]
    /\ shutdown' = [s \in Shutdowns |-> IdleShutdown]
    /\ active' = {}
    /\ disturbed' = {}

-----------------------------------------------------------------------------
Outcomes == {"ok", "transient", "permanent"}

\* What the event loop runs by itself ...
WorkerTurn(w) == WorkerClaims(w) \/ WorkerLeaves(w)

\* ... and what the handler of a job brings about.
DrainStep(w) ==
    \/ WorkerTurn(w)
    \/ \E o \in Outcomes : Settle(w, o)

Next ==
    \/ \E t \in Types : RegisterHandler(t)
    \/ \E j \in Jobs, t \in Types, k \in Keys \cup {NoKey} : Enqueue(j, t, k)
    \/ \E c \in Callers : ProcessNext(c) \/ \E o \in Outcomes : Settle(c, o)
    \/ \E j \in Jobs : RetryDeadLetter(j)
    \/ Clear
    \/ \E s \in Shutdowns : \/ BeginShutdown(s) \/ Recover(s)
                            \/ EndShutdown(s) \/ Deadline(s)
    \/ \E w \in DrainWorkers : DrainStep(w)
    \/ Exit

\* The event loop runs every continuation of a drain and fires the timer of
\* the deadline.  A job's handler is whatever the caller registered, awaited
\* without a timeout (memory-queue.ts:110): nothing makes it settle.
Fairness ==
    /\ \A w \in DrainWorkers : WF_vars(WorkerTurn(w))
    /\ \A s \in Shutdowns : WF_vars(Recover(s)) /\ WF_vars(Deadline(s))

Spec == Init /\ [][Next]_vars
FairSpec == Spec /\ Fairness

-----------------------------------------------------------------------------
\* Types of all variables; a worker names a job exactly while it runs one,
\* and a drain claims no more jobs than its batch has.
TypeOK ==
    /\ job \in [Jobs -> Job]
    /\ pending \in Seq(Jobs)
    /\ allJobs \subseteq Jobs
    /\ deadLetters \subseteq Jobs
    /\ idempotencyMap \in [Keys -> Jobs \cup {NoJob}]
    /\ handlers \subseteq Types
    /\ worker \in [Workers -> Worker]
    /\ \A w \in Workers : worker[w].pc = "running" <=> worker[w].job # NoJob
    /\ shutdown \in [Shutdowns -> Shutdown]
    /\ \A s \in Shutdowns : shutdown[s].processed <= shutdown[s].toProcess
    /\ active \in SUBSET Shutdowns
    /\ disturbed \subseteq Jobs

Queued(j) == \E i \in 1..Len(pending) : pending[i] = j

\* No accepted job is lost: whatever retries, drains, recoveries and late
\* handlers do, a retained job is where its status says (memory-queue.ts).
JobsAreFound ==
    \A j \in allJobs :
        /\ job[j].status # "NEW"
        /\ job[j].status = "PENDING" => Queued(j)
        /\ job[j].status = "PROCESSING" => \E w \in Workers : Runs(w, j)
        /\ job[j].status = "DEAD_LETTER" => j \in deadLetters

\* A job no recovery or clear took from under its handler is in one place
\* only: once in the queue, or run by one worker, or a dead letter, and it
\* is attempted at most MaxAttempts times (processNext, retryDeadLetter).
OnePlace ==
    /\ \A i, k \in 1..Len(pending) :
           pending[i] = pending[k] /\ pending[i] \notin disturbed => i = k
    /\ \A v, w \in Workers : \A j \in Jobs \ disturbed :
           Runs(v, j) /\ Runs(w, j) => v = w
    /\ \A j \in Jobs \ disturbed :
           /\ Queued(j) => job[j].status = "PENDING"
           /\ (\E w \in Workers : Runs(w, j)) => job[j].status = "PROCESSING"
           /\ j \in deadLetters => job[j].status = "DEAD_LETTER"
           /\ job[j].attempt <= MaxAttempts

Unfinished(j) == job[j].status \in {"PENDING", "PROCESSING", "DEAD_LETTER"}

\* An idempotency key has at most one unfinished job at a time, also after
\* pruning has dropped completed jobs with their keys (docs/scalability.md C:
\* "Job idempotency keys prevent duplicate execution").
OneJobPerKey ==
    \A i, j \in Jobs \ disturbed :
        /\ Unfinished(i) /\ Unfinished(j)
        /\ job[i].key = job[j].key /\ job[i].key # NoKey
        => i = j

\* The queue implements the life cycle of docs/disaster-recovery.md section 7.
Lifecycle == INSTANCE JobLifecycle WITH
    status <- [j \in Jobs |-> job[j].status],
    attempt <- [j \in Jobs |-> job[j].attempt]

LifecycleSpec == Lifecycle!Spec

\* The handlers a drain has called settle, sooner or later.
HandlersSettle(s) == \A i \in 1..Concurrency : []<>(worker[<<s, i>>].pc # "running")

\* processBatch returns when the handlers it called do: jobs that fail, are
\* retried, replayed or added around a drain do not keep it going
\* (memory-queue.ts:147-152).
DrainEnds ==
    \A s \in Shutdowns :
        HandlersSettle(s) =>
            (shutdown[s].pc = "draining" ~> shutdown[s].pc # "draining")

\* And shutdown() returns even when a handler never does
\* (shutdown.ts:121-129).
ShutdownSettles == \A s \in Shutdowns : s \in active ~> s \notin active
=============================================================================
