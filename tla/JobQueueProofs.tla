--------------------------- MODULE JobQueueProofs ---------------------------
(***************************************************************************)
(* Theorems about JobQueue, for every number of jobs, keys, workers and     *)
(* shutdown sequences and every limit.  The lemmas about the array pending  *)
(* come first, then the inductive invariant, one lemma per operation.       *)
(***************************************************************************)
EXTENDS JobQueue, TLAPS, SequenceTheorems, FiniteSetTheorems

USE JobQueueAssumption DEF JobQueueAssumption

\* Writing a status, or a status and the attempts, of one job.
LEMMA JobUpdate ==
    ASSUME job \in [Jobs -> Job], NEW j \in Jobs, NEW st \in Statuses, NEW n \in Nat
    PROVE  /\ [job EXCEPT ![j].status = st] \in [Jobs -> Job]
           /\ [job EXCEPT ![j].attempt = n, ![j].status = st] \in [Jobs -> Job]
           /\ [job EXCEPT ![j].status = st, ![j].attempt = n] \in [Jobs -> Job]
<1>1. /\ [job[j] EXCEPT !.status = st] \in Job
      /\ [job[j] EXCEPT !.attempt = n] \in Job
      /\ [job[j] EXCEPT !.attempt = n, !.status = st] \in Job
  BY DEF Job
<1>2. [job EXCEPT ![j] = [job[j] EXCEPT !.attempt = n]] \in [Jobs -> Job]
  BY <1>1
<1>3. [job EXCEPT ![j].status = st] \in [Jobs -> Job]
  BY <1>1
<1>4. [job EXCEPT ![j].attempt = n, ![j].status = st] \in [Jobs -> Job]
  BY <1>1, <1>2 DEF Job
<1>5. [job EXCEPT ![j].status = st, ![j].attempt = n] \in [Jobs -> Job]
  BY <1>1, <1>3 DEF Job
<1> QED BY <1>3, <1>4, <1>5

-----------------------------------------------------------------------------
\* Every variable keeps its type: processNext.
LEMMA TakeType ==
    ASSUME TypeOK, NEW w \in Workers, NEW idle \in {Off, Ready}, Take(w, idle)
    PROVE  /\ job' \in [Jobs -> Job]
           /\ pending' \in Seq(Jobs)
           /\ deadLetters' \subseteq Jobs
           /\ worker' \in [Workers -> Worker]
           /\ \A v \in Workers : worker'[v].pc = "running" <=> worker'[v].job # NoJob
<1> DEFINE j == Head(pending)
<1>1. j \in Jobs /\ pending' \in Seq(Jobs)
  BY HeadTailProperties DEF TypeOK, Take
<1>2. idle \in Worker /\ idle.pc # "running" /\ idle.job = NoJob
  BY DEF Off, Ready, Worker
<1>5. job[j].attempt + 1 \in Nat
  BY <1>1 DEF TypeOK, Job
<1> HIDE DEF j
<1>3. CASE job[j].type \in handlers
  <2>1. job' = [job EXCEPT ![j].attempt = @ + 1, ![j].status = "PROCESSING"]
    BY <1>3 DEF Take, j
  <2>2. worker' = [worker EXCEPT ![w] = [pc |-> "running", job |-> j]]
    BY <1>3 DEF Take, j
  <2>3. job' \in [Jobs -> Job]
    BY <1>1, <1>5, <2>1, JobUpdate DEF TypeOK, Statuses
  <2>4. worker' \in [Workers -> Worker]
    BY <1>1, <2>2 DEF TypeOK, Worker
  <2>5. j # NoJob
    BY <1>1 DEF Jobs, NoJob
  <2> QED BY <1>1, <1>3, <2>2, <2>3, <2>4, <2>5 DEF TypeOK, Take
<1>4. CASE job[j].type \notin handlers
  <2>1. job' = [job EXCEPT ![j].attempt = @ + 1, ![j].status = "DEAD_LETTER"]
    BY <1>4 DEF Take, j
  <2>2. worker' = [worker EXCEPT ![w] = idle] /\ deadLetters' = deadLetters \cup {j}
    BY <1>4 DEF Take, j
  <2>3. job' \in [Jobs -> Job]
    BY <1>1, <1>5, <2>1, JobUpdate DEF TypeOK, Statuses
  <2> QED BY <1>1, <1>2, <2>2, <2>3 DEF TypeOK
<1> QED BY <1>3, <1>4

\* Putting interrupted jobs back at the front keeps a queue of jobs.
LEMMA PutBackType ==
    ASSUME TypeOK, NEW S \in SUBSET Jobs, PutBack(S)
    PROVE  pending' \in Seq(Jobs)
<1>1. PICK front \in [1..Cardinality(S) -> S] : pending' = front \o pending
  BY DEF PutBack
<1>2. Cardinality(S) \in Nat
  <2>1. IsFiniteSet(Jobs)
    BY FS_Interval DEF Jobs
  <2> QED BY <2>1, FS_Subset, FS_CardinalityType
<1>3. front \in Seq(Jobs)
  BY <1>2, SeqDef
<1> QED BY <1>1, <1>3, ConcatProperties DEF TypeOK

LEMMA TypeInductive == TypeOK /\ [Next]_vars => TypeOK'
<1> SUFFICES ASSUME TypeOK, [Next]_vars PROVE TypeOK'
  OBVIOUS
<1> USE DEF queueVars, shutdownVars
<1>1. ASSUME NEW t \in Types, RegisterHandler(t) PROVE TypeOK'
  BY <1>1 DEF TypeOK, RegisterHandler
<1>2. ASSUME NEW j \in Jobs, NEW t \in Types, NEW k \in Keys \cup {NoKey},
             Enqueue(j, t, k)
      PROVE  TypeOK'
  <2>1. job' \in [Jobs -> Job]
    BY <1>2 DEF TypeOK, Enqueue, Job, Statuses
  <2>2. pending' \in Seq(Jobs)
    BY <1>2, AppendProperties DEF TypeOK, Enqueue
  <2>3. allJobs' \subseteq Jobs /\ idempotencyMap' \in [Keys -> Jobs \cup {NoJob}]
    BY <1>2 DEF TypeOK, Enqueue
  <2> QED BY <1>2, <2>1, <2>2, <2>3 DEF TypeOK, Enqueue
<1>3. ASSUME NEW c \in Callers, ProcessNext(c) PROVE TypeOK'
  <2>1. Take(c, Off) /\ c \in Workers
    BY <1>3 DEF ProcessNext, Workers
  <2>2. UNCHANGED <<allJobs, idempotencyMap, handlers, active, disturbed, shutdown>>
    BY <1>3, <2>1 DEF ProcessNext, Take
  <2> QED BY <2>1, <2>2, TakeType DEF TypeOK
<1>4. ASSUME NEW w \in Workers, NEW o \in Outcomes, Settle(w, o) PROVE TypeOK'
  <2> DEFINE j == worker[w].job
  <2>1. j \in Jobs
    BY <1>4 DEF TypeOK, Settle, Worker
  <2>2. worker' \in [Workers -> Worker]
    BY <1>4 DEF TypeOK, Settle, Worker, Off, Ready
  <2>3. \A v \in Workers : worker'[v].pc = "running" <=> worker'[v].job # NoJob
    BY <1>4 DEF TypeOK, Settle, Worker, Off, Ready
  <2>4. \E st \in Statuses : job' = [job EXCEPT ![j].status = st]
    BY <1>4 DEF Settle, Statuses
  <2>5. job' \in [Jobs -> Job]
    <3> HIDE DEF j
    <3>1. job \in [Jobs -> Job] /\ 0 \in Nat
      BY DEF TypeOK
    <3>2. PICK st \in Statuses : job' = [job EXCEPT ![j].status = st]
      BY <2>4
    <3>3. [job EXCEPT ![j].status = st] \in [Jobs -> Job]
      BY <2>1, <3>1, JobUpdate
    <3> QED BY <3>2, <3>3
  <2>6. pending' = pending \/ pending' = Append(pending, j)
    BY <1>4 DEF Settle, Requeue
  <2>7. pending' \in Seq(Jobs)
    BY <2>1, <2>6, AppendProperties DEF TypeOK
  <2>8. deadLetters' \subseteq Jobs
    BY <1>4, <2>1 DEF TypeOK, Settle
  <2> QED BY <1>4, <2>2, <2>3, <2>5, <2>7, <2>8 DEF TypeOK, Settle
<1>5. ASSUME NEW j \in Jobs, RetryDeadLetter(j) PROVE TypeOK'
  <2>1. job' \in [Jobs -> Job]
    <3>1. job' = [job EXCEPT ![j].status = "PENDING", ![j].attempt = 0]
      BY <1>5 DEF RetryDeadLetter
    <3> QED BY <3>1, JobUpdate DEF TypeOK, Statuses
  <2>2. pending' \in Seq(Jobs)
    BY <1>5, AppendProperties DEF TypeOK, RetryDeadLetter, Requeue
  <2> QED BY <1>5, <2>1, <2>2 DEF TypeOK, RetryDeadLetter
<1>6. CASE Clear
  BY <1>6 DEF TypeOK, Clear
<1>7. ASSUME NEW s \in Shutdowns, BeginShutdown(s) PROVE TypeOK'
  <2> DEFINE n == IF Len(pending) < BatchSize THEN Len(pending) ELSE BatchSize
  <2>1. n \in Nat
    BY LenProperties DEF TypeOK
  <2>2. shutdown' = [shutdown EXCEPT ![s] =
                        [pc |-> "draining", toProcess |-> n, processed |-> 0]]
    BY <1>7 DEF BeginShutdown
  <2>3. worker' = [w \in Workers |->
                       IF w \in DrainWorkers /\ w[1] = s /\ w[2] <= n
                       THEN [pc |-> "fresh", job |-> NoJob] ELSE worker[w]]
    BY <1>7 DEF BeginShutdown
  <2> HIDE DEF n
  <2>4. /\ shutdown' \in [Shutdowns -> Shutdown]
        /\ \A t \in Shutdowns : shutdown'[t].processed <= shutdown'[t].toProcess
    BY <2>1, <2>2 DEF TypeOK, Shutdown
  <2>5. worker' \in [Workers -> Worker]
    BY <2>3 DEF TypeOK, Worker
  <2>6. \A w \in Workers : worker'[w].pc = "running" <=> worker'[w].job # NoJob
    BY <2>3 DEF TypeOK
  <2>7. UNCHANGED <<job, queueVars, disturbed>> /\ active' = {s}
    BY <1>7 DEF BeginShutdown
  <2> QED BY <2>4, <2>5, <2>6, <2>7 DEF TypeOK
<1>8. ASSUME NEW s \in Shutdowns, Recover(s) PROVE TypeOK'
  <2>1. job' \in [Jobs -> Job]
    <3>1. ASSUME NEW j \in Jobs
          PROVE  job[j] \in Job /\ [job[j] EXCEPT !.status = "PENDING"] \in Job
      <4>1. job[j] \in Job
        BY DEF TypeOK
      <4> QED BY <4>1 DEF Job, Statuses
    <3> QED BY <1>8, <3>1 DEF Recover
  <2>2. Interrupted \subseteq Jobs
    BY DEF TypeOK, Interrupted
  <2>3. pending' \in Seq(Jobs)
    BY <1>8, <2>2, PutBackType DEF Recover
  <2>4. /\ shutdown' \in [Shutdowns -> Shutdown]
        /\ \A t \in Shutdowns : shutdown'[t].processed <= shutdown'[t].toProcess
    <3>1. PICK x \in Shutdown : /\ x.processed <= x.toProcess
                               /\ shutdown' = [shutdown EXCEPT ![s] = x]
      <4> DEFINE y == [IdleShutdown EXCEPT !.pc = "cleaning"]
      <4>1. y \in Shutdown /\ y.processed <= y.toProcess
        BY DEF Shutdown, IdleShutdown
      <4>2. shutdown' = [shutdown EXCEPT ![s] = y]
        BY <1>8 DEF Recover
      <4> HIDE DEF y
      <4> QED BY <4>1, <4>2
    <3>2. \A t \in Shutdowns : shutdown'[t] = IF t = s THEN x ELSE shutdown[t]
      BY <3>1 DEF TypeOK
    <3> QED BY <3>1, <3>2 DEF TypeOK
  <2> QED BY <1>8, <2>1, <2>2, <2>3, <2>4 DEF TypeOK, Recover
<1>9. ASSUME NEW s \in Shutdowns, EndShutdown(s) PROVE TypeOK'
  BY <1>9 DEF TypeOK, EndShutdown, Shutdown, IdleShutdown
<1>10. ASSUME NEW s \in Shutdowns, Deadline(s) PROVE TypeOK'
  BY <1>10 DEF TypeOK, Deadline
<1>11. ASSUME NEW w \in DrainWorkers, WorkerClaims(w) PROVE TypeOK'
  <2>1. Take(w, Ready) /\ w \in Workers /\ w[1] \in Shutdowns
    BY <1>11 DEF WorkerClaims, Workers, DrainWorkers
  <2>2. shutdown' = [shutdown EXCEPT ![w[1]].processed = @ + 1]
    BY <1>11 DEF WorkerClaims, Count
  <2>3. /\ shutdown' \in [Shutdowns -> Shutdown]
        /\ \A t \in Shutdowns : shutdown'[t].processed <= shutdown'[t].toProcess
    <3> DEFINE s == w[1]
               n == shutdown[s].processed + 1
    <3>1. /\ shutdown[s] \in Shutdown /\ n \in Nat
          /\ n <= shutdown[s].toProcess
      BY <1>11, <2>1 DEF TypeOK, Shutdown, WorkerClaims, HasWork
    <3>2. [shutdown[s] EXCEPT !.processed = n] \in Shutdown
      BY <3>1 DEF Shutdown
    <3>3. shutdown' = [shutdown EXCEPT ![s] = [shutdown[s] EXCEPT !.processed = n]]
      BY <2>2
    <3>4. PICK x \in Shutdown : /\ x.processed <= x.toProcess
                               /\ shutdown' = [shutdown EXCEPT ![s] = x]
      <4>1. [shutdown[s] EXCEPT !.processed = n].processed = n
        BY <3>1 DEF Shutdown
      <4>2. [shutdown[s] EXCEPT !.processed = n].toProcess = shutdown[s].toProcess
        BY <3>1 DEF Shutdown
      <4> QED BY <3>1, <3>2, <3>3, <4>1, <4>2
    <3>5. \A t \in Shutdowns : shutdown'[t] = IF t = s THEN x ELSE shutdown[t]
      BY <3>4 DEF TypeOK
    <3> HIDE DEF s, n
    <3> QED BY <3>4, <3>5 DEF TypeOK
  <2>4. UNCHANGED <<allJobs, idempotencyMap, handlers, active, disturbed>>
    BY <2>1 DEF Take
  <2> QED BY <2>1, <2>3, <2>4, TakeType DEF TypeOK
<1>12. ASSUME NEW w \in DrainWorkers, WorkerLeaves(w) PROVE TypeOK'
  BY <1>12 DEF TypeOK, WorkerLeaves, Workers, Worker, Off
<1>13. CASE Exit
  <2>1. NewJob \in Job
    BY DEF NewJob, Job, Statuses
  <2> QED BY <1>13, <2>1 DEF TypeOK, Exit, Off, Worker, IdleShutdown, Shutdown
<1>14. CASE UNCHANGED vars
  BY <1>14 DEF TypeOK, vars
<1> QED BY <1>1, <1>2, <1>3, <1>4, <1>5, <1>6, <1>7, <1>8, <1>9, <1>10, <1>11,
           <1>12, <1>13, <1>14 DEF Next, DrainStep, WorkerTurn, Workers

\* Every variable of the queue and of the shutdown manager keeps its type.
THEOREM TypeCorrect == Spec => []TypeOK
<1>1. Init => TypeOK
  <2>1. NewJob \in Job
    BY DEF NewJob, Job, Statuses
  <2> QED BY <2>1 DEF Init, TypeOK, Off, Worker, IdleShutdown, Shutdown
<1> QED BY <1>1, TypeInductive, PTL DEF Spec

-----------------------------------------------------------------------------
(* The inductive invariant.  JobsAreFound and OnePlace are not inductive by  *)
(* themselves: a queued job must have an attempt left, a drain's workers     *)
(* must be its own, and the keys must name the jobs that are kept.           *)
WorkersBelong ==
    \A w \in DrainWorkers : worker[w].pc # "off" => shutdown[w[1]].pc = "draining"

AttemptsLeft ==
    \A j \in Jobs \ disturbed : Queued(j) => job[j].attempt < MaxAttempts

KeysName ==
    \A j \in allJobs : job[j].key # NoKey => idempotencyMap[job[j].key] = j

UnfinishedKept ==
    \A j \in Jobs \ disturbed : Unfinished(j) => j \in allJobs

Inv == /\ TypeOK
       /\ WorkersBelong
       /\ JobsAreFound
       /\ OnePlace
       /\ AttemptsLeft
       /\ KeysName
       /\ UnfinishedKept

\* The parts a step can disturb only through the queue, the workers, the dead
\* letters and the job records.
Placed == JobsAreFound /\ OnePlace /\ AttemptsLeft

-----------------------------------------------------------------------------
\* What appending, taking off the head and putting back do to the queue.
LEMMA AppendQueued ==
    ASSUME pending \in Seq(Jobs), NEW j \in Jobs, pending' = Append(pending, j)
    PROVE  /\ \A i \in Jobs : Queued(i)' <=> (Queued(i) \/ i = j)
           /\ \A i, k \in 1..Len(pending') :
                  pending'[i] = pending'[k] /\ i # k =>
                      \/ /\ i \in 1..Len(pending) /\ k \in 1..Len(pending)
                         /\ pending[i] = pending'[i] /\ pending[k] = pending'[k]
                      \/ pending'[i] = j /\ Queued(j)
<1>1. /\ Len(pending) \in Nat
      /\ Len(pending') = Len(pending) + 1
      /\ \A i \in 1..Len(pending) : pending'[i] = pending[i]
      /\ pending'[Len(pending) + 1] = j
  BY AppendProperties, LenProperties
<1>2. \A i \in 1..Len(pending') : i \in 1..Len(pending) \/ i = Len(pending) + 1
  BY <1>1
<1> QED BY <1>1, <1>2 DEF Queued

LEMMA TailQueued ==
    ASSUME pending \in Seq(Jobs), pending # <<>>, pending' = Tail(pending),
           NEW j \in Jobs, j = Head(pending)
    PROVE  /\ Queued(j)
           /\ \A i \in Jobs : Queued(i) <=> (Queued(i)' \/ i = j)
           /\ \A i \in 1..Len(pending') : /\ i + 1 \in 1..Len(pending)
                                          /\ pending[i + 1] = pending'[i]
           /\ OnePlace /\ j \notin disturbed => ~Queued(j)'
<1>1. /\ Len(pending) \in Nat /\ Len(pending) >= 1
      /\ Len(pending') = Len(pending) - 1
      /\ \A i \in 1..Len(pending') : pending'[i] = pending[i + 1]
      /\ j = pending[1]
  BY HeadTailProperties, LenProperties, EmptySeq
<1>2. \A i \in 1..Len(pending) : i = 1 \/ (i - 1 \in 1..Len(pending')
                                          /\ pending'[i - 1] = pending[i])
  BY <1>1
<1>3. \A i \in 1..Len(pending') : i + 1 \in 1..Len(pending) /\ i + 1 # 1
  BY <1>1
<1>4. ASSUME OnePlace, j \notin disturbed, Queued(j)' PROVE FALSE
  BY <1>1, <1>3, <1>4 DEF OnePlace, Queued
<1>5. \A i \in Jobs : Queued(i) <=> (Queued(i)' \/ i = j)
  <2> TAKE i \in Jobs
  <2>1. Queued(i) => Queued(i)' \/ i = j
    BY <1>1, <1>2 DEF Queued
  <2>2. Queued(i)' \/ i = j => Queued(i)
    BY <1>1, <1>3 DEF Queued
  <2> QED BY <2>1, <2>2
<1>6. Queued(j)
  BY <1>1 DEF Queued
<1> QED BY <1>1, <1>3, <1>4, <1>5, <1>6

\* What recoverInterruptedJobs puts at the front is exactly S.
LEMMA PutBackQueued ==
    ASSUME TypeOK, NEW S \in SUBSET Jobs, PutBack(S)
    PROVE  /\ \A j \in Jobs : Queued(j)' <=> (Queued(j) \/ j \in S)
           /\ \A i, k \in 1..Len(pending') :
                  pending'[i] = pending'[k] /\ pending'[i] \notin S =>
                      \E a, b \in 1..Len(pending) :
                          /\ pending[a] = pending'[i] /\ pending[b] = pending'[k]
                          /\ (a = b => i = k)
<1> DEFINE n == Cardinality(S)
<1>1. PICK front \in [1..n -> S] :
          /\ \A j \in S : \E i \in 1..n : front[i] = j
          /\ pending' = front \o pending
  BY DEF PutBack
<1>2. n \in Nat
  <2>1. IsFiniteSet(Jobs)
    BY FS_Interval DEF Jobs
  <2> QED BY <2>1, FS_Subset, FS_CardinalityType
<1> HIDE DEF n
<1>3. front \in Seq(Jobs) /\ Len(front) = n
  BY <1>2, SeqDef, LenProperties
<1>4. pending \in Seq(Jobs) /\ Len(pending) \in Nat
  BY LenProperties DEF TypeOK
<1>5. /\ Len(pending') = n + Len(pending)
      /\ \A i \in 1..n + Len(pending) :
             pending'[i] = IF i <= n THEN front[i] ELSE pending[i - n]
  BY <1>1, <1>3, <1>4, ConcatProperties
<1>6. ASSUME NEW j \in Jobs PROVE Queued(j)' <=> (Queued(j) \/ j \in S)
  <2>1. ASSUME Queued(j)' PROVE Queued(j) \/ j \in S
    <3>1. PICK i \in 1..Len(pending') : pending'[i] = j
      BY <2>1 DEF Queued
    <3>2. CASE i <= n
      BY <1>1, <1>2, <1>5, <3>1, <3>2
    <3>3. CASE i > n
      <4>1. i - n \in 1..Len(pending) /\ pending[i - n] = j
        BY <1>2, <1>4, <1>5, <3>1, <3>3
      <4> QED BY <4>1 DEF Queued
    <3> QED BY <1>2, <1>4, <1>5, <3>2, <3>3
  <2>2. ASSUME Queued(j) PROVE Queued(j)'
    <3>1. PICK i \in 1..Len(pending) : pending[i] = j
      BY <2>2 DEF Queued
    <3>2. i + n \in 1..Len(pending') /\ pending'[i + n] = j
      BY <1>2, <1>4, <1>5, <3>1
    <3> QED BY <3>2 DEF Queued
  <2>3. ASSUME j \in S PROVE Queued(j)'
    <3>1. PICK i \in 1..n : front[i] = j
      BY <1>1, <2>3
    <3>2. i \in 1..Len(pending') /\ pending'[i] = j
      BY <1>2, <1>4, <1>5, <3>1
    <3> QED BY <3>2 DEF Queued
  <2> QED BY <2>1, <2>2, <2>3
<1>7. ASSUME NEW i \in 1..Len(pending'), pending'[i] \notin S
      PROVE  i - n \in 1..Len(pending) /\ pending[i - n] = pending'[i]
  <2>1. ~(i <= n)
    BY <1>1, <1>2, <1>4, <1>5, <1>7
  <2> QED BY <1>2, <1>4, <1>5, <1>7, <2>1
<1>8. ASSUME NEW i \in 1..Len(pending'), NEW k \in 1..Len(pending'),
             pending'[i] = pending'[k], pending'[i] \notin S
      PROVE  \E a, b \in 1..Len(pending) :
                 /\ pending[a] = pending'[i] /\ pending[b] = pending'[k]
                 /\ (a = b => i = k)
  <2>1. /\ i - n \in 1..Len(pending) /\ pending[i - n] = pending'[i]
        /\ k - n \in 1..Len(pending) /\ pending[k - n] = pending'[k]
    BY <1>7, <1>8
  <2>2. i - n = k - n => i = k
    BY <1>2, <1>4, <1>5
  <2> QED BY <2>1, <2>2
<1> QED BY <1>6, <1>8

-----------------------------------------------------------------------------
\* What the invariant says of a job nothing has disturbed.
LEMMA Undisturbed ==
    ASSUME OnePlace, NEW j \in Jobs \ disturbed
    PROVE  /\ Queued(j) => job[j].status = "PENDING"
           /\ \A w \in Workers : Runs(w, j) => job[j].status = "PROCESSING"
           /\ j \in deadLetters => job[j].status = "DEAD_LETTER"
           /\ job[j].attempt <= MaxAttempts
BY DEF OnePlace

\* What processNext changes before it awaits the handler.
LEMMA TakeEffect ==
    ASSUME TypeOK, NEW w \in Workers, worker[w].pc # "running",
           NEW idle \in {Off, Ready}, Take(w, idle), NEW j, j = Head(pending)
    PROVE  /\ j \in Jobs
           /\ pending # <<>> /\ pending' = Tail(pending)
           /\ \A i \in Jobs : i # j => job'[i] = job[i]
           /\ job'[j].attempt = job[j].attempt + 1
           /\ job'[j].key = job[j].key
           /\ \A v \in Workers, i \in Jobs :
                  v # w => (Runs(v, i)' <=> Runs(v, i))
           /\ \A i \in Jobs : ~Runs(w, i)
           /\ \/ /\ job'[j].status = "PROCESSING"
                 /\ deadLetters' = deadLetters
                 /\ \A i \in Jobs : Runs(w, i)' <=> i = j
              \/ /\ job'[j].status = "DEAD_LETTER"
                 /\ deadLetters' = deadLetters \cup {j}
                 /\ \A i \in Jobs : ~Runs(w, i)'
<1>1. /\ j \in Jobs /\ pending # <<>> /\ pending' = Tail(pending)
      /\ job \in [Jobs -> Job] /\ worker \in [Workers -> Worker]
  BY HeadTailProperties DEF TypeOK, Take
<1>2. \A i \in Jobs : ~Runs(w, i)
  BY DEF Runs
<1>3. CASE job[j].type \in handlers
  <2>1. /\ job' = [job EXCEPT ![j].attempt = @ + 1, ![j].status = "PROCESSING"]
        /\ worker' = [worker EXCEPT ![w] = [pc |-> "running", job |-> j]]
        /\ deadLetters' = deadLetters
    BY <1>3 DEF Take
  <2>2. /\ \A i \in Jobs : i # j => job'[i] = job[i]
        /\ job'[j].attempt = job[j].attempt + 1
        /\ job'[j].key = job[j].key
        /\ job'[j].status = "PROCESSING"
    BY <1>1, <2>1 DEF Job
  <2>3. /\ \A v \in Workers, i \in Jobs : v # w => (Runs(v, i)' <=> Runs(v, i))
        /\ \A i \in Jobs : Runs(w, i)' <=> i = j
    BY <1>1, <2>1 DEF Runs
  <2> QED BY <1>1, <1>2, <2>1, <2>2, <2>3
<1>4. CASE job[j].type \notin handlers
  <2>1. /\ job' = [job EXCEPT ![j].attempt = @ + 1, ![j].status = "DEAD_LETTER"]
        /\ worker' = [worker EXCEPT ![w] = idle]
        /\ deadLetters' = deadLetters \cup {j}
    BY <1>4 DEF Take
  <2>2. /\ \A i \in Jobs : i # j => job'[i] = job[i]
        /\ job'[j].attempt = job[j].attempt + 1
        /\ job'[j].key = job[j].key
        /\ job'[j].status = "DEAD_LETTER"
    BY <1>1, <2>1 DEF Job
  <2>3. /\ \A v \in Workers, i \in Jobs : v # w => (Runs(v, i)' <=> Runs(v, i))
        /\ \A i \in Jobs : ~Runs(w, i)'
    BY <1>1, <2>1 DEF Runs, Off, Ready
  <2> QED BY <1>1, <1>2, <2>1, <2>2, <2>3
<1> QED BY <1>3, <1>4

LEMMA TakeInv ==
    ASSUME Inv, NEW w \in Workers, worker[w].pc # "running",
           NEW idle \in {Off, Ready}, Take(w, idle)
    PROVE  Placed' /\ KeysName' /\ UnfinishedKept'
<1>0. PICK j \in Jobs : j = Head(pending)
  BY HeadTailProperties DEF Inv, TypeOK, Take
<1>1. /\ j \in Jobs
      /\ pending # <<>> /\ pending' = Tail(pending)
      /\ \A i \in Jobs : i # j => job'[i] = job[i]
      /\ job'[j].attempt = job[j].attempt + 1
      /\ job'[j].key = job[j].key
      /\ \A v \in Workers, i \in Jobs : v # w => (Runs(v, i)' <=> Runs(v, i))
      /\ \A i \in Jobs : ~Runs(w, i)
      /\ \/ /\ job'[j].status = "PROCESSING"
            /\ deadLetters' = deadLetters
            /\ \A i \in Jobs : Runs(w, i)' <=> i = j
         \/ /\ job'[j].status = "DEAD_LETTER"
            /\ deadLetters' = deadLetters \cup {j}
            /\ \A i \in Jobs : ~Runs(w, i)'
  BY <1>0, TakeEffect DEF Inv
<1>2. UNCHANGED <<allJobs, idempotencyMap, disturbed>>
  BY DEF Take
<1>3. /\ Queued(j)
      /\ \A i \in Jobs : Queued(i) <=> (Queued(i)' \/ i = j)
      /\ \A i \in 1..Len(pending') : /\ i + 1 \in 1..Len(pending)
                                     /\ pending[i + 1] = pending'[i]
      /\ j \notin disturbed => ~Queued(j)'
  <2>1. pending \in Seq(Jobs) /\ OnePlace
    BY DEF Inv, TypeOK
  <2> QED BY <1>0, <1>1, <2>1, TailQueued
<1>4. /\ TypeOK /\ JobsAreFound /\ OnePlace /\ AttemptsLeft /\ KeysName
      /\ UnfinishedKept
  BY DEF Inv
<1>5. j \notin disturbed =>
          /\ job[j].status = "PENDING" /\ j \notin deadLetters
          /\ \A v \in Workers : ~Runs(v, j)
          /\ job[j].attempt < MaxAttempts
  BY <1>1, <1>3, <1>4, Undisturbed DEF AttemptsLeft
<1>6. JobsAreFound'
  <2> SUFFICES ASSUME NEW i \in allJobs
               PROVE  /\ job'[i].status # "NEW"
                      /\ job'[i].status = "PENDING" => Queued(i)'
                      /\ job'[i].status = "PROCESSING" =>
                             \E v \in Workers : Runs(v, i)'
                      /\ job'[i].status = "DEAD_LETTER" => i \in deadLetters'
    BY <1>2 DEF JobsAreFound
  <2>1. i \in Jobs
    BY <1>4 DEF TypeOK
  <2>2. CASE i = j
    BY <1>1, <2>2
  <2>3. CASE i # j
    BY <1>1, <1>3, <1>4, <2>1, <2>3 DEF JobsAreFound
  <2> QED BY <2>2, <2>3
<1>7. OnePlace'
  <2>1. \A i, k \in 1..Len(pending') :
            pending'[i] = pending'[k] /\ pending'[i] \notin disturbed => i = k
    <3> SUFFICES ASSUME NEW i \in 1..Len(pending'), NEW k \in 1..Len(pending'),
                        pending'[i] = pending'[k], pending'[i] \notin disturbed
                 PROVE  i = k
      OBVIOUS
    <3>1. i + 1 = k + 1
      BY <1>3, <1>4 DEF OnePlace
    <3> QED BY <3>1
  <2>2. \A u, v \in Workers : \A i \in Jobs \ disturbed :
            Runs(u, i)' /\ Runs(v, i)' => u = v
    BY <1>1, <1>4, <1>5 DEF OnePlace
  <2>3. \A i \in Jobs \ disturbed :
            /\ Queued(i)' => job'[i].status = "PENDING"
            /\ (\E v \in Workers : Runs(v, i)') => job'[i].status = "PROCESSING"
            /\ i \in deadLetters' => job'[i].status = "DEAD_LETTER"
            /\ job'[i].attempt <= MaxAttempts
    <3> TAKE i \in Jobs \ disturbed
    <3>1. CASE i = j
      <4>1. job[j].attempt \in Nat
        BY <1>1, <1>4 DEF TypeOK, Job
      <4>2. job'[j].attempt <= MaxAttempts
        BY <1>1, <1>5, <3>1, <4>1
      <4>3. ~Queued(j)'
        BY <1>3, <3>1
      <4>4. (\E v \in Workers : Runs(v, j)') => job'[j].status = "PROCESSING"
        BY <1>1, <1>5, <3>1
      <4>5. j \in deadLetters' => job'[j].status = "DEAD_LETTER"
        BY <1>1, <1>5, <3>1
      <4> QED BY <3>1, <4>2, <4>3, <4>4, <4>5
    <3>2. CASE i # j
      BY <1>1, <1>3, <1>4, <3>2, Undisturbed
    <3> QED BY <3>1, <3>2
  <2> QED BY <1>2, <2>1, <2>2, <2>3 DEF OnePlace
<1>8. AttemptsLeft'
  <2> SUFFICES ASSUME NEW i \in Jobs \ disturbed, Queued(i)'
               PROVE  job'[i].attempt < MaxAttempts
    BY <1>2 DEF AttemptsLeft
  <2>1. i # j /\ Queued(i)
    BY <1>3
  <2> QED BY <1>1, <1>4, <2>1 DEF AttemptsLeft
<1>9. KeysName'
  BY <1>1, <1>2, <1>4 DEF KeysName, TypeOK
<1>10. UnfinishedKept'
  BY <1>1, <1>2, <1>4, <1>5 DEF UnfinishedKept, Unfinished
<1> QED BY <1>6, <1>7, <1>8, <1>9, <1>10 DEF Placed

\* What processNext changes after the handler has settled.
LEMMA SettleEffect ==
    ASSUME TypeOK, NEW w \in Workers, NEW o \in Outcomes, Settle(w, o),
           NEW j, j = worker[w].job
    PROVE  /\ j \in Jobs /\ Runs(w, j)
           /\ \A i \in Jobs : i # j => job'[i] = job[i]
           /\ job'[j].attempt = job[j].attempt
           /\ job'[j].key = job[j].key
           /\ \A v \in Workers, i \in Jobs :
                  v # w => (Runs(v, i)' <=> Runs(v, i))
           /\ \A i \in Jobs : ~Runs(w, i)'
           /\ \A i \in Jobs : Runs(w, i) => i = j
           /\ \/ /\ job'[j].status = "COMPLETED"
                 /\ UNCHANGED <<pending, deadLetters>>
              \/ /\ job'[j].status = "PENDING"
                 /\ job[j].attempt < MaxAttempts
                 /\ pending' = Append(pending, j)
                 /\ UNCHANGED deadLetters
              \/ /\ job'[j].status = "DEAD_LETTER"
                 /\ deadLetters' = deadLetters \cup {j}
                 /\ UNCHANGED pending
<1>1. /\ j \in Jobs /\ Runs(w, j)
      /\ job \in [Jobs -> Job] /\ worker \in [Workers -> Worker]
  BY DEF TypeOK, Settle, Worker, Runs
<1>2. /\ \A v \in Workers, i \in Jobs : v # w => (Runs(v, i)' <=> Runs(v, i))
      /\ \A i \in Jobs : ~Runs(w, i)'
      /\ \A i \in Jobs : Runs(w, i) => i = j
  BY <1>1 DEF Settle, Runs, Off, Ready
<1>3. CASE o = "ok"
  <2>1. /\ job' = [job EXCEPT ![j].status = "COMPLETED"]
        /\ UNCHANGED <<pending, deadLetters>>
    BY <1>3 DEF Settle
  <2> QED BY <1>1, <1>2, <2>1 DEF Job
<1>4. CASE o # "ok" /\ Retryable(j, o)
  <2>1. /\ job' = [job EXCEPT ![j].status = "PENDING"]
        /\ pending' = Append(pending, j)
        /\ UNCHANGED deadLetters
        /\ job[j].attempt < MaxAttempts
    BY <1>4 DEF Settle, Retryable, Requeue
  <2> QED BY <1>1, <1>2, <2>1 DEF Job
<1>5. CASE o # "ok" /\ ~Retryable(j, o)
  <2>1. /\ job' = [job EXCEPT ![j].status = "DEAD_LETTER"]
        /\ deadLetters' = deadLetters \cup {j}
        /\ UNCHANGED pending
    BY <1>5 DEF Settle
  <2> QED BY <1>1, <1>2, <2>1 DEF Job
<1> QED BY <1>3, <1>4, <1>5

LEMMA SettleInv ==
    ASSUME Inv, NEW w \in Workers, NEW o \in Outcomes, Settle(w, o)
    PROVE  Placed' /\ KeysName' /\ UnfinishedKept'
<1>0. PICK j \in Jobs : j = worker[w].job
  BY DEF Inv, TypeOK, Settle, Worker
<1>1. /\ Runs(w, j)
      /\ \A i \in Jobs : i # j => job'[i] = job[i]
      /\ job'[j].attempt = job[j].attempt
      /\ job'[j].key = job[j].key
      /\ \A v \in Workers, i \in Jobs : v # w => (Runs(v, i)' <=> Runs(v, i))
      /\ \A i \in Jobs : ~Runs(w, i)'
      /\ \A i \in Jobs : Runs(w, i) => i = j
      /\ \/ /\ job'[j].status = "COMPLETED"
            /\ UNCHANGED <<pending, deadLetters>>
         \/ /\ job'[j].status = "PENDING"
            /\ job[j].attempt < MaxAttempts
            /\ pending' = Append(pending, j)
            /\ UNCHANGED deadLetters
         \/ /\ job'[j].status = "DEAD_LETTER"
            /\ deadLetters' = deadLetters \cup {j}
            /\ UNCHANGED pending
  BY <1>0, SettleEffect DEF Inv
<1>2. UNCHANGED <<allJobs, idempotencyMap, disturbed>>
  BY DEF Settle
<1>3. /\ TypeOK /\ JobsAreFound /\ OnePlace /\ AttemptsLeft /\ KeysName
      /\ UnfinishedKept
  BY DEF Inv
<1>4. j \notin disturbed =>
          /\ job[j].status = "PROCESSING" /\ j \notin deadLetters /\ ~Queued(j)
          /\ \A v \in Workers : Runs(v, j) => v = w
  <2>1. j \notin disturbed => \A v \in Workers : Runs(v, j) => v = w
    BY <1>1, <1>3 DEF OnePlace
  <2> QED BY <1>1, <1>3, <2>1, Undisturbed
<1>5. pending' = Append(pending, j) =>
        /\ \A i \in Jobs : Queued(i)' <=> (Queued(i) \/ i = j)
        /\ \A i, k \in 1..Len(pending') :
               pending'[i] = pending'[k] /\ i # k =>
                   \/ /\ i \in 1..Len(pending) /\ k \in 1..Len(pending)
                      /\ pending[i] = pending'[i] /\ pending[k] = pending'[k]
                   \/ pending'[i] = j /\ Queued(j)
  <2>1. pending \in Seq(Jobs)
    BY <1>3 DEF TypeOK
  <2> QED BY <2>1, AppendQueued
<1>6. UNCHANGED pending => \A i \in Jobs : Queued(i)' <=> Queued(i)
  BY DEF Queued
<1>7. \/ /\ pending' = Append(pending, j)
         /\ \A i \in Jobs : Queued(i)' <=> (Queued(i) \/ i = j)
         /\ job'[j].status = "PENDING" /\ job[j].attempt < MaxAttempts
      \/ /\ UNCHANGED pending
         /\ \A i \in Jobs : Queued(i)' <=> Queued(i)
         /\ job'[j].status \in {"COMPLETED", "DEAD_LETTER"}
  BY <1>1, <1>5, <1>6
<1>8. JobsAreFound'
  <2> SUFFICES ASSUME NEW i \in allJobs
               PROVE  /\ job'[i].status # "NEW"
                      /\ job'[i].status = "PENDING" => Queued(i)'
                      /\ job'[i].status = "PROCESSING" =>
                             \E v \in Workers : Runs(v, i)'
                      /\ job'[i].status = "DEAD_LETTER" => i \in deadLetters'
    BY <1>2 DEF JobsAreFound
  <2>1. i \in Jobs
    BY <1>3 DEF TypeOK
  <2>2. CASE i = j
    BY <1>1, <1>7, <2>2
  <2>3. CASE i # j
    <3>1. /\ job[i].status # "NEW"
          /\ job[i].status = "PENDING" => Queued(i)
          /\ job[i].status = "PROCESSING" => \E v \in Workers : Runs(v, i)
          /\ job[i].status = "DEAD_LETTER" => i \in deadLetters
      BY <1>3 DEF JobsAreFound
    <3>2. (\E v \in Workers : Runs(v, i)) => \E v \in Workers : Runs(v, i)'
      BY <1>1, <2>1, <2>3
    <3> QED BY <1>1, <1>7, <2>1, <2>3, <3>1, <3>2
  <2> QED BY <2>2, <2>3
<1>9. OnePlace'
  <2>1. \A i, k \in 1..Len(pending') :
            pending'[i] = pending'[k] /\ pending'[i] \notin disturbed => i = k
    BY <1>3, <1>4, <1>5, <1>7 DEF OnePlace
  <2>2. \A u, v \in Workers : \A i \in Jobs \ disturbed :
            Runs(u, i)' /\ Runs(v, i)' => u = v
    BY <1>1, <1>3 DEF OnePlace
  <2>3. \A i \in Jobs \ disturbed :
            /\ Queued(i)' => job'[i].status = "PENDING"
            /\ (\E v \in Workers : Runs(v, i)') => job'[i].status = "PROCESSING"
            /\ i \in deadLetters' => job'[i].status = "DEAD_LETTER"
            /\ job'[i].attempt <= MaxAttempts
    <3> TAKE i \in Jobs \ disturbed
    <3>1. CASE i = j
      <4>1. Queued(j)' => job'[j].status = "PENDING"
        BY <1>4, <1>7, <3>1
      <4>2. \A v \in Workers : ~Runs(v, j)'
        BY <1>1, <1>4, <3>1
      <4>3. j \in deadLetters' => job'[j].status = "DEAD_LETTER"
        BY <1>1, <1>4, <3>1
      <4>4. job'[j].attempt <= MaxAttempts
        BY <1>1, <1>3, <3>1, Undisturbed
      <4> QED BY <3>1, <4>1, <4>2, <4>3, <4>4
    <3>2. CASE i # j
      <4>1. /\ job'[i] = job[i]
            /\ Queued(i)' <=> Queued(i)
            /\ i \in deadLetters' <=> i \in deadLetters
        BY <1>1, <1>7, <3>2
      <4>2. \A v \in Workers : Runs(v, i)' => Runs(v, i)
        BY <1>1, <3>2
      <4> QED BY <1>3, <4>1, <4>2, Undisturbed
    <3> QED BY <3>1, <3>2
  <2> QED BY <1>2, <2>1, <2>2, <2>3 DEF OnePlace
<1>10. AttemptsLeft'
  <2> SUFFICES ASSUME NEW i \in Jobs \ disturbed, Queued(i)'
               PROVE  job'[i].attempt < MaxAttempts
    BY <1>2 DEF AttemptsLeft
  <2>1. CASE i = j
    BY <1>1, <1>4, <1>7, <2>1
  <2>2. CASE i # j
    BY <1>1, <1>3, <1>7, <2>2 DEF AttemptsLeft
  <2> QED BY <2>1, <2>2
<1>11. KeysName'
  BY <1>1, <1>2, <1>3 DEF KeysName, TypeOK
<1>12. UnfinishedKept'
  BY <1>1, <1>2, <1>3, <1>4 DEF UnfinishedKept, Unfinished
<1> QED BY <1>8, <1>9, <1>10, <1>11, <1>12 DEF Placed

LEMMA RetryInv ==
    ASSUME Inv, NEW j \in Jobs, RetryDeadLetter(j)
    PROVE  Placed' /\ KeysName' /\ UnfinishedKept'
<1>1. /\ j \in deadLetters /\ deadLetters' = deadLetters \ {j}
      /\ job' = [job EXCEPT ![j].status = "PENDING", ![j].attempt = 0]
      /\ pending' = Append(pending, j)
      /\ UNCHANGED <<allJobs, idempotencyMap, worker, disturbed>>
  BY DEF RetryDeadLetter, Requeue
<1>2. /\ TypeOK /\ JobsAreFound /\ OnePlace /\ AttemptsLeft /\ KeysName
      /\ UnfinishedKept
  BY DEF Inv
<1>3. /\ \A i \in Jobs : i # j => job'[i] = job[i]
      /\ job'[j].status = "PENDING"
      /\ job'[j].attempt = 0
      /\ job'[j].key = job[j].key
  BY <1>1, <1>2 DEF TypeOK, Job
<1>4. j \notin disturbed =>
          /\ job[j].status = "DEAD_LETTER" /\ ~Queued(j)
          /\ \A v \in Workers : ~Runs(v, j)
  BY <1>1, <1>2, Undisturbed
<1>5. /\ \A i \in Jobs : Queued(i)' <=> (Queued(i) \/ i = j)
      /\ \A i, k \in 1..Len(pending') :
             pending'[i] = pending'[k] /\ i # k =>
                 \/ /\ i \in 1..Len(pending) /\ k \in 1..Len(pending)
                    /\ pending[i] = pending'[i] /\ pending[k] = pending'[k]
                 \/ pending'[i] = j /\ Queued(j)
  <2>1. pending \in Seq(Jobs)
    BY <1>2 DEF TypeOK
  <2> QED BY <1>1, <2>1, AppendQueued
<1>6. \A v \in Workers, i \in Jobs : Runs(v, i)' <=> Runs(v, i)
  BY <1>1 DEF Runs
<1>7. JobsAreFound'
  <2> SUFFICES ASSUME NEW i \in allJobs
               PROVE  /\ job'[i].status # "NEW"
                      /\ job'[i].status = "PENDING" => Queued(i)'
                      /\ job'[i].status = "PROCESSING" =>
                             \E v \in Workers : Runs(v, i)'
                      /\ job'[i].status = "DEAD_LETTER" => i \in deadLetters'
    BY <1>1 DEF JobsAreFound
  <2>1. i \in Jobs
    BY <1>2 DEF TypeOK
  <2>2. CASE i = j
    BY <1>3, <1>5, <2>2
  <2>3. CASE i # j
    BY <1>1, <1>2, <1>3, <1>5, <1>6, <2>1, <2>3 DEF JobsAreFound
  <2> QED BY <2>2, <2>3
<1>8. OnePlace'
  <2>1. \A i, k \in 1..Len(pending') :
            pending'[i] = pending'[k] /\ pending'[i] \notin disturbed => i = k
    BY <1>2, <1>4, <1>5 DEF OnePlace
  <2>2. \A u, v \in Workers : \A i \in Jobs \ disturbed :
            Runs(u, i)' /\ Runs(v, i)' => u = v
    BY <1>2, <1>6 DEF OnePlace
  <2>3. \A i \in Jobs \ disturbed :
            /\ Queued(i)' => job'[i].status = "PENDING"
            /\ (\E v \in Workers : Runs(v, i)') => job'[i].status = "PROCESSING"
            /\ i \in deadLetters' => job'[i].status = "DEAD_LETTER"
            /\ job'[i].attempt <= MaxAttempts
    <3> TAKE i \in Jobs \ disturbed
    <3>1. CASE i = j
      BY <1>1, <1>3, <1>4, <1>6, <3>1
    <3>2. CASE i # j
      BY <1>1, <1>2, <1>3, <1>5, <1>6, <3>2, Undisturbed
    <3> QED BY <3>1, <3>2
  <2> QED BY <1>1, <2>1, <2>2, <2>3 DEF OnePlace
<1>9. AttemptsLeft'
  <2> SUFFICES ASSUME NEW i \in Jobs \ disturbed, Queued(i)'
               PROVE  job'[i].attempt < MaxAttempts
    BY <1>1 DEF AttemptsLeft
  <2>1. CASE i = j
    BY <1>3, <2>1
  <2>2. CASE i # j
    BY <1>2, <1>3, <1>5, <2>2 DEF AttemptsLeft
  <2> QED BY <2>1, <2>2
<1>10. KeysName'
  BY <1>1, <1>2, <1>3 DEF KeysName, TypeOK
<1>11. UnfinishedKept'
  BY <1>1, <1>2, <1>3, <1>4 DEF UnfinishedKept, Unfinished
<1> QED BY <1>7, <1>8, <1>9, <1>10, <1>11 DEF Placed

\* enqueue: pruning drops completed jobs only, and a key that is free names
\* no job that is kept.
LEMMA EnqueueInv ==
    ASSUME Inv, NEW j \in Jobs, NEW t \in Types, NEW k \in Keys \cup {NoKey},
           Enqueue(j, t, k)
    PROVE  Placed' /\ KeysName' /\ UnfinishedKept'
<1> DEFINE kept == [l \in Keys |-> IF \E i \in Pruned : job[i].key = l
                                   THEN NoJob ELSE idempotencyMap[l]]
<1>1. /\ allJobs' = (allJobs \ Pruned) \cup {j}
      /\ idempotencyMap' = [l \in Keys |-> IF l = k THEN j ELSE kept[l]]
      /\ job' = [job EXCEPT ![j] = [status |-> "PENDING", attempt |-> 0,
                                    type |-> t, key |-> k]]
      /\ pending' = Append(pending, j)
      /\ UNCHANGED <<deadLetters, worker, disturbed>>
      /\ job[j].status = "NEW"
      /\ ~Known(k)
  BY DEF Enqueue, Jobs
<1>2. /\ TypeOK /\ JobsAreFound /\ OnePlace /\ AttemptsLeft /\ KeysName
      /\ UnfinishedKept
  BY DEF Inv
<1>3. /\ \A i \in Jobs : i # j => job'[i] = job[i]
      /\ job'[j].status = "PENDING" /\ job'[j].attempt = 0 /\ job'[j].key = k
  BY <1>1, <1>2 DEF TypeOK
<1>4. Pruned \subseteq allJobs /\ \A i \in Pruned : job[i].status = "COMPLETED"
  BY DEF Pruned
<1>5. j \notin allJobs
  BY <1>1, <1>2 DEF JobsAreFound
<1>6. j \notin disturbed =>
          /\ ~Queued(j) /\ j \notin deadLetters
          /\ \A v \in Workers : ~Runs(v, j)
  BY <1>1, <1>2, Undisturbed
<1>7. /\ \A i \in Jobs : Queued(i)' <=> (Queued(i) \/ i = j)
      /\ \A i, m \in 1..Len(pending') :
             pending'[i] = pending'[m] /\ i # m =>
                 \/ /\ i \in 1..Len(pending) /\ m \in 1..Len(pending)
                    /\ pending[i] = pending'[i] /\ pending[m] = pending'[m]
                 \/ pending'[i] = j /\ Queued(j)
  <2>1. pending \in Seq(Jobs)
    BY <1>2 DEF TypeOK
  <2> QED BY <1>1, <2>1, AppendQueued
<1>8. \A v \in Workers, i \in Jobs : Runs(v, i)' <=> Runs(v, i)
  BY <1>1 DEF Runs
<1>9. JobsAreFound'
  <2> SUFFICES ASSUME NEW i \in allJobs'
               PROVE  /\ job'[i].status # "NEW"
                      /\ job'[i].status = "PENDING" => Queued(i)'
                      /\ job'[i].status = "PROCESSING" =>
                             \E v \in Workers : Runs(v, i)'
                      /\ job'[i].status = "DEAD_LETTER" => i \in deadLetters'
    BY DEF JobsAreFound
  <2>1. i \in Jobs
    BY <1>1, <1>2 DEF TypeOK
  <2>2. CASE i = j
    BY <1>3, <1>7, <2>2
  <2>3. CASE i # j
    BY <1>1, <1>2, <1>3, <1>7, <1>8, <2>1, <2>3 DEF JobsAreFound
  <2> QED BY <2>2, <2>3
<1>10. OnePlace'
  <2>1. \A i, m \in 1..Len(pending') :
            pending'[i] = pending'[m] /\ pending'[i] \notin disturbed => i = m
    BY <1>2, <1>6, <1>7 DEF OnePlace
  <2>2. \A u, v \in Workers : \A i \in Jobs \ disturbed :
            Runs(u, i)' /\ Runs(v, i)' => u = v
    BY <1>2, <1>8 DEF OnePlace
  <2>3. \A i \in Jobs \ disturbed :
            /\ Queued(i)' => job'[i].status = "PENDING"
            /\ (\E v \in Workers : Runs(v, i)') => job'[i].status = "PROCESSING"
            /\ i \in deadLetters' => job'[i].status = "DEAD_LETTER"
            /\ job'[i].attempt <= MaxAttempts
    <3> TAKE i \in Jobs \ disturbed
    <3>1. CASE i = j
      BY <1>1, <1>3, <1>6, <1>8, <3>1
    <3>2. CASE i # j
      BY <1>1, <1>2, <1>3, <1>7, <1>8, <3>2, Undisturbed
    <3> QED BY <3>1, <3>2
  <2> QED BY <1>1, <2>1, <2>2, <2>3 DEF OnePlace
<1>11. AttemptsLeft'
  <2> SUFFICES ASSUME NEW i \in Jobs \ disturbed, Queued(i)'
               PROVE  job'[i].attempt < MaxAttempts
    BY <1>1 DEF AttemptsLeft
  <2>1. CASE i = j
    BY <1>3, <2>1
  <2>2. CASE i # j
    BY <1>2, <1>3, <1>7, <2>2 DEF AttemptsLeft
  <2> QED BY <2>1, <2>2
<1>12. KeysName'
  <2> SUFFICES ASSUME NEW i \in allJobs', job'[i].key # NoKey
               PROVE  idempotencyMap'[job'[i].key] = i
    BY DEF KeysName
  <2>1. CASE i = j
    BY <1>1, <1>3, <2>1
  <2>2. CASE i # j
    <3> DEFINE l == job[i].key
    <3>1. i \in allJobs /\ i \notin Pruned /\ i \in Jobs /\ job'[i].key = l
      BY <1>1, <1>2, <1>3, <2>2 DEF TypeOK
    <3>2. l \in Keys /\ idempotencyMap[l] = i
      BY <1>2, <3>1 DEF KeysName, TypeOK, Job
    <3>3. l # k
      BY <1>1, <3>1, <3>2 DEF Known
    <3>4. \A m \in Pruned : job[m].key # l
      BY <1>2, <1>4, <3>1, <3>2 DEF KeysName
    <3> QED BY <1>1, <3>1, <3>2, <3>3, <3>4
  <2> QED BY <2>1, <2>2
<1>13. UnfinishedKept'
  BY <1>1, <1>2, <1>3, <1>4 DEF UnfinishedKept, Unfinished
<1> QED BY <1>9, <1>10, <1>11, <1>12, <1>13 DEF Placed

\* clear: what was retained is disturbed, and nothing is retained.
LEMMA ClearInv ==
    ASSUME Inv, Clear
    PROVE  Placed' /\ KeysName' /\ UnfinishedKept'
<1>1. /\ pending' = <<>> /\ allJobs' = {} /\ deadLetters' = {}
      /\ disturbed' = disturbed \cup allJobs
      /\ UNCHANGED <<job, worker>>
  BY DEF Clear
<1>2. OnePlace /\ UnfinishedKept
  BY DEF Inv
<1>3. Len(pending') = 0 /\ \A i \in Jobs : ~Queued(i)'
  BY <1>1 DEF Queued
<1>4. \A v \in Workers, i \in Jobs : Runs(v, i)' <=> Runs(v, i)
  BY <1>1 DEF Runs
<1>5. OnePlace'
  BY <1>1, <1>2, <1>3, <1>4 DEF OnePlace
<1>6. JobsAreFound' /\ AttemptsLeft' /\ KeysName' /\ UnfinishedKept'
  BY <1>1, <1>2, <1>3
     DEF JobsAreFound, AttemptsLeft, KeysName, UnfinishedKept, Unfinished
<1> QED BY <1>5, <1>6 DEF Placed

\* recoverInterruptedJobs: every job it requeues is disturbed.
LEMMA RecoverInv ==
    ASSUME Inv, NEW s \in Shutdowns, Recover(s)
    PROVE  Placed' /\ KeysName' /\ UnfinishedKept'
<1>0. PICK S \in SUBSET Jobs : S = Interrupted
  BY DEF Inv, TypeOK, Interrupted
<1>1. /\ job' = [j \in Jobs |-> IF j \in S THEN [job[j] EXCEPT !.status = "PENDING"]
                                ELSE job[j]]
      /\ PutBack(S)
      /\ disturbed' = disturbed \cup S
      /\ UNCHANGED <<allJobs, deadLetters, idempotencyMap, worker>>
  BY <1>0 DEF Recover
<1>2. /\ TypeOK /\ JobsAreFound /\ OnePlace /\ AttemptsLeft /\ KeysName
      /\ UnfinishedKept
  BY DEF Inv
<1>3. /\ \A i \in Jobs \ S : job'[i] = job[i]
      /\ \A i \in S : job'[i].status = "PENDING" /\ job'[i].key = job[i].key
  BY <1>1, <1>2 DEF TypeOK, Job
<1>4. /\ \A i \in Jobs : Queued(i)' <=> (Queued(i) \/ i \in S)
      /\ \A i, k \in 1..Len(pending') :
             pending'[i] = pending'[k] /\ pending'[i] \notin S =>
                 \E a, b \in 1..Len(pending) :
                     /\ pending[a] = pending'[i] /\ pending[b] = pending'[k]
                     /\ (a = b => i = k)
  BY <1>1, <1>2, PutBackQueued
<1>5. \A v \in Workers, i \in Jobs : Runs(v, i)' <=> Runs(v, i)
  BY <1>1 DEF Runs
<1>6. JobsAreFound'
  <2> SUFFICES ASSUME NEW i \in allJobs
               PROVE  /\ job'[i].status # "NEW"
                      /\ job'[i].status = "PENDING" => Queued(i)'
                      /\ job'[i].status = "PROCESSING" =>
                             \E v \in Workers : Runs(v, i)'
                      /\ job'[i].status = "DEAD_LETTER" => i \in deadLetters'
    BY <1>1 DEF JobsAreFound
  <2>1. i \in Jobs
    BY <1>2 DEF TypeOK
  <2>2. CASE i \in S
    BY <1>3, <1>4, <2>1, <2>2
  <2>3. CASE i \notin S
    BY <1>1, <1>2, <1>3, <1>4, <1>5, <2>1, <2>3 DEF JobsAreFound
  <2> QED BY <2>2, <2>3
<1>7. OnePlace'
  <2>1. \A i, k \in 1..Len(pending') :
            pending'[i] = pending'[k] /\ pending'[i] \notin disturbed' => i = k
    <3> SUFFICES ASSUME NEW i \in 1..Len(pending'), NEW k \in 1..Len(pending'),
                        pending'[i] = pending'[k], pending'[i] \notin disturbed'
                 PROVE  i = k
      OBVIOUS
    <3>1. pending'[i] \notin disturbed /\ pending'[i] \notin S
      BY <1>1
    <3>2. PICK a, b \in 1..Len(pending) :
             /\ pending[a] = pending'[i] /\ pending[b] = pending'[k]
             /\ (a = b => i = k)
      BY <1>4, <3>1
    <3>3. a = b
      BY <1>2, <3>1, <3>2 DEF OnePlace
    <3> QED BY <3>2, <3>3
  <2>2. \A u, v \in Workers : \A i \in Jobs \ disturbed' :
            Runs(u, i)' /\ Runs(v, i)' => u = v
    BY <1>1, <1>2, <1>5 DEF OnePlace
  <2>3. \A i \in Jobs \ disturbed' :
            /\ Queued(i)' => job'[i].status = "PENDING"
            /\ (\E v \in Workers : Runs(v, i)') => job'[i].status = "PROCESSING"
            /\ i \in deadLetters' => job'[i].status = "DEAD_LETTER"
            /\ job'[i].attempt <= MaxAttempts
    BY <1>1, <1>2, <1>3, <1>4, <1>5, Undisturbed
  <2> QED BY <2>1, <2>2, <2>3 DEF OnePlace
<1>8. AttemptsLeft'
  BY <1>1, <1>2, <1>3, <1>4 DEF AttemptsLeft
<1>9. KeysName'
  BY <1>1, <1>2, <1>3 DEF KeysName, TypeOK
<1>10. UnfinishedKept'
  BY <1>1, <1>2, <1>3 DEF UnfinishedKept, Unfinished
<1> QED BY <1>6, <1>7, <1>8, <1>9, <1>10 DEF Placed

\* Steps that change neither the queue nor a job nor what the workers run.
LEMMA OtherInv ==
    ASSUME Inv,
           UNCHANGED <<job, pending, allJobs, deadLetters, idempotencyMap, disturbed>>,
           \A v \in Workers, i \in Jobs : Runs(v, i)' <=> Runs(v, i)
    PROVE  Placed' /\ KeysName' /\ UnfinishedKept'
<1>1. /\ TypeOK /\ JobsAreFound /\ OnePlace /\ AttemptsLeft /\ KeysName
      /\ UnfinishedKept
  BY DEF Inv
<1>2. \A i \in Jobs : Queued(i)' <=> Queued(i)
  BY DEF Queued
<1>3. JobsAreFound'
  BY <1>1, <1>2 DEF JobsAreFound, TypeOK
<1>4. OnePlace'
  BY <1>1, <1>2 DEF OnePlace
<1>5. AttemptsLeft' /\ KeysName' /\ UnfinishedKept'
  BY <1>1, <1>2 DEF AttemptsLeft, KeysName, UnfinishedKept, Unfinished
<1> QED BY <1>3, <1>4, <1>5 DEF Placed

\* A drain's worker is active only while its shutdown is draining.
LEMMA BelongInductive ==
    ASSUME TypeOK, WorkersBelong, [Next]_vars
    PROVE  WorkersBelong'
<1> USE DEF queueVars, shutdownVars
<1>0. /\ worker \in [Workers -> Worker] /\ shutdown \in [Shutdowns -> Shutdown]
      /\ Callers \cap DrainWorkers = {}
      /\ \A v \in DrainWorkers : v \in Workers /\ v[1] \in Shutdowns
                                 /\ v[2] \in 1..Concurrency /\ v = <<v[1], v[2]>>
  BY DEF TypeOK, Workers, DrainWorkers
<1>1. ASSUME worker' = worker, shutdown' = shutdown PROVE WorkersBelong'
  BY <1>1 DEF WorkersBelong
<1>2. ASSUME NEW w \in Workers, UNCHANGED shutdown,
             \A v \in Workers : v # w => worker'[v] = worker[v],
             w \in Callers \/ worker[w].pc # "off"
      PROVE  WorkersBelong'
  BY <1>0, <1>2 DEF WorkersBelong
<1>3. ASSUME NEW w \in Workers, NEW idle, Take(w, idle)
      PROVE  \A v \in Workers : v # w => worker'[v] = worker[v]
  BY <1>0, <1>3 DEF Take
<1>4. ASSUME NEW c \in Callers, ProcessNext(c) PROVE WorkersBelong'
  BY <1>2, <1>3, <1>4 DEF ProcessNext, Workers
<1>5. ASSUME NEW w \in Workers, NEW o \in Outcomes, Settle(w, o) PROVE WorkersBelong'
  BY <1>0, <1>2, <1>5 DEF Settle
<1>6. ASSUME NEW s \in Shutdowns, BeginShutdown(s) PROVE WorkersBelong'
  <2> DEFINE n == IF Len(pending) < BatchSize THEN Len(pending) ELSE BatchSize
  <2>1. /\ worker' = [w \in Workers |->
                         IF w \in DrainWorkers /\ w[1] = s /\ w[2] <= n
                         THEN [pc |-> "fresh", job |-> NoJob] ELSE worker[w]]
        /\ shutdown' = [shutdown EXCEPT ![s] =
                         [pc |-> "draining", toProcess |-> n, processed |-> 0]]
    BY <1>6 DEF BeginShutdown
  <2> HIDE DEF n
  <2>2. /\ shutdown'[s].pc = "draining"
        /\ \A r \in Shutdowns : r # s => shutdown'[r] = shutdown[r]
    BY <1>0, <2>1
  <2>3. \A v \in DrainWorkers : v[1] # s => worker'[v] = worker[v]
    BY <1>0, <2>1
  <2> QED BY <1>0, <2>2, <2>3 DEF WorkersBelong
<1>7. ASSUME NEW w \in DrainWorkers, WorkerClaims(w) PROVE WorkersBelong'
  <2>1. /\ Take(w, Ready) /\ worker[w].pc # "off"
        /\ shutdown' = [shutdown EXCEPT ![w[1]].processed = @ + 1]
    BY <1>7 DEF WorkerClaims, Count
  <2>2. \A s \in Shutdowns : shutdown'[s].pc = shutdown[s].pc
    BY <1>0, <2>1 DEF Shutdown
  <2>3. \A v \in Workers : v # w => worker'[v] = worker[v]
    BY <1>0, <1>3, <2>1
  <2> QED BY <1>0, <2>1, <2>2, <2>3 DEF WorkersBelong
<1>8. ASSUME NEW w \in DrainWorkers, WorkerLeaves(w) PROVE WorkersBelong'
  BY <1>0, <1>2, <1>8 DEF WorkerLeaves
<1>9. ASSUME NEW s \in Shutdowns, Recover(s) PROVE WorkersBelong'
  <2>1. /\ \A v \in DrainWorkers : v[1] = s => worker[v].pc = "off"
        /\ worker' = worker
        /\ \A r \in Shutdowns : r # s => shutdown'[r] = shutdown[r]
    BY <1>0, <1>9 DEF Recover
  <2> QED BY <1>0, <2>1 DEF WorkersBelong
<1>10. ASSUME NEW s \in Shutdowns, EndShutdown(s) PROVE WorkersBelong'
  <2>1. /\ shutdown[s].pc = "cleaning"
        /\ worker' = worker
        /\ \A r \in Shutdowns : r # s => shutdown'[r] = shutdown[r]
    BY <1>0, <1>10 DEF EndShutdown
  <2> QED BY <1>0, <2>1 DEF WorkersBelong
<1>11. CASE Exit
  BY <1>0, <1>11 DEF Exit, WorkersBelong, Off
<1>12. ASSUME NEW t \in Types, RegisterHandler(t) PROVE WorkersBelong'
  BY <1>1, <1>12 DEF RegisterHandler
<1>13. ASSUME NEW j \in Jobs, NEW t \in Types, NEW k \in Keys \cup {NoKey},
              Enqueue(j, t, k)
       PROVE  WorkersBelong'
  BY <1>1, <1>13 DEF Enqueue
<1>14. ASSUME NEW j \in Jobs, RetryDeadLetter(j) PROVE WorkersBelong'
  BY <1>1, <1>14 DEF RetryDeadLetter
<1>15. CASE Clear
  BY <1>1, <1>15 DEF Clear
<1>16. ASSUME NEW s \in Shutdowns, Deadline(s) PROVE WorkersBelong'
  BY <1>1, <1>16 DEF Deadline
<1>17. CASE UNCHANGED vars
  BY <1>1, <1>17 DEF vars
<1> QED BY <1>4, <1>5, <1>6, <1>7, <1>8, <1>9, <1>10, <1>11, <1>12, <1>13, <1>14,
           <1>15, <1>16, <1>17 DEF Next, DrainStep, WorkerTurn, Workers

LEMMA InvInductive == Inv /\ [Next]_vars => Inv'
<1> SUFFICES ASSUME Inv, [Next]_vars PROVE Inv'
  OBVIOUS
<1> USE DEF queueVars, shutdownVars
<1>0. TypeOK /\ WorkersBelong
  BY DEF Inv
<1>1. TypeOK' /\ WorkersBelong'
  BY <1>0, TypeInductive, BelongInductive
<1>2. ASSUME UNCHANGED <<job, pending, allJobs, deadLetters, idempotencyMap,
                         disturbed, worker>>
      PROVE  Placed' /\ KeysName' /\ UnfinishedKept'
  BY <1>2, OtherInv DEF Runs
<1>3. ASSUME NEW c \in Callers, ProcessNext(c)
      PROVE  Placed' /\ KeysName' /\ UnfinishedKept'
  <2>1. c \in Workers /\ worker[c].pc # "running" /\ Take(c, Off)
    BY <1>3 DEF ProcessNext, Workers, Off
  <2> QED BY <2>1, TakeInv
<1>4. ASSUME NEW w \in DrainWorkers, WorkerClaims(w)
      PROVE  Placed' /\ KeysName' /\ UnfinishedKept'
  <2>1. w \in Workers /\ worker[w].pc # "running" /\ Take(w, Ready)
    BY <1>4 DEF WorkerClaims, Workers
  <2> QED BY <2>1, TakeInv
<1>5. ASSUME NEW w \in DrainWorkers, WorkerLeaves(w)
      PROVE  Placed' /\ KeysName' /\ UnfinishedKept'
  <2>1. \A v \in Workers, i \in Jobs : Runs(v, i)' <=> Runs(v, i)
    BY <1>0, <1>5 DEF WorkerLeaves, Runs, TypeOK, Off, Workers
  <2> QED BY <1>5, <2>1, OtherInv DEF WorkerLeaves
<1>6. ASSUME NEW s \in Shutdowns, BeginShutdown(s)
      PROVE  Placed' /\ KeysName' /\ UnfinishedKept'
  <2> DEFINE n == IF Len(pending) < BatchSize THEN Len(pending) ELSE BatchSize
  <2>1. /\ worker' = [w \in Workers |->
                         IF w \in DrainWorkers /\ w[1] = s /\ w[2] <= n
                         THEN [pc |-> "fresh", job |-> NoJob] ELSE worker[w]]
        /\ shutdown[s].pc = "idle"
    BY <1>6 DEF BeginShutdown
  <2> HIDE DEF n
  <2>2. \A v \in DrainWorkers : v[1] = s => worker[v].pc = "off"
    BY <1>0, <2>1 DEF WorkersBelong
  <2>3. \A v \in Workers, i \in Jobs : Runs(v, i)' <=> Runs(v, i)
    BY <2>1, <2>2 DEF Runs
  <2> QED BY <1>6, <2>3, OtherInv DEF BeginShutdown
<1>7. ASSUME Exit PROVE Placed' /\ KeysName' /\ UnfinishedKept'
  <2>1. \A j \in Jobs : job'[j].status = "NEW" /\ job'[j].attempt = 0
    BY <1>7 DEF Exit, NewJob
  <2>2. Len(pending') = 0 /\ \A j \in Jobs : ~Queued(j)'
    BY <1>7 DEF Exit, Queued
  <2>3. \A v \in Workers, j \in Jobs : ~Runs(v, j)'
    BY <1>7 DEF Exit, Off, Runs
  <2>4. allJobs' = {} /\ deadLetters' = {}
    BY <1>7 DEF Exit
  <2>5. OnePlace'
    <3>1. \A i, k \in 1..Len(pending') : i = k
      BY <2>2
    <3>2. \A j \in Jobs : 0 <= MaxAttempts
      OBVIOUS
    <3> QED BY <2>1, <2>2, <2>3, <2>4, <3>1, <3>2 DEF OnePlace
  <2> QED BY <2>1, <2>2, <2>4, <2>5
          DEF Placed, JobsAreFound, AttemptsLeft, KeysName, UnfinishedKept, Unfinished
<1>8. ASSUME NEW t \in Types, RegisterHandler(t)
      PROVE  Placed' /\ KeysName' /\ UnfinishedKept'
  BY <1>2, <1>8 DEF RegisterHandler
<1>9. ASSUME NEW s \in Shutdowns, EndShutdown(s)
      PROVE  Placed' /\ KeysName' /\ UnfinishedKept'
  BY <1>2, <1>9 DEF EndShutdown
<1>10. ASSUME NEW s \in Shutdowns, Deadline(s)
       PROVE  Placed' /\ KeysName' /\ UnfinishedKept'
  BY <1>2, <1>10 DEF Deadline
<1>11. ASSUME UNCHANGED vars PROVE Placed' /\ KeysName' /\ UnfinishedKept'
  BY <1>2, <1>11 DEF vars
<1>12. Placed' /\ KeysName' /\ UnfinishedKept'
  BY <1>3, <1>4, <1>5, <1>6, <1>7, <1>8, <1>9, <1>10, <1>11, EnqueueInv, SettleInv,
     RetryInv, ClearInv, RecoverInv DEF Next, DrainStep, WorkerTurn, Workers
<1> QED BY <1>1, <1>12 DEF Inv, Placed

LEMMA InvInit == Init => Inv
<1> SUFFICES ASSUME Init PROVE Inv
  OBVIOUS
<1>1. NewJob \in Job
  BY DEF NewJob, Job, Statuses
<1>2. TypeOK
  BY <1>1 DEF Init, TypeOK, Off, Worker, IdleShutdown, Shutdown
<1>3. \A j \in Jobs : job[j].status = "NEW" /\ job[j].attempt = 0 /\ ~Queued(j)
  BY DEF Init, NewJob, Queued
<1>4. \A v \in Workers : worker[v].pc = "off" /\ \A j \in Jobs : ~Runs(v, j)
  BY DEF Init, Off, Runs
<1>5. WorkersBelong
  BY <1>4 DEF WorkersBelong, Workers
<1>6. OnePlace
  <2>1. Len(pending) = 0 /\ deadLetters = {}
    BY DEF Init
  <2> QED BY <1>3, <1>4, <2>1 DEF OnePlace
<1>7. JobsAreFound /\ AttemptsLeft /\ KeysName /\ UnfinishedKept
  BY <1>3 DEF Init, JobsAreFound, AttemptsLeft, KeysName, UnfinishedKept, Unfinished
<1> QED BY <1>2, <1>5, <1>6, <1>7 DEF Inv

THEOREM InvAlways == Spec => []Inv
<1> QED BY InvInit, InvInductive, PTL DEF Spec

\* A retained job is where its status says: whatever is retried, drained,
\* recovered or finished late, no accepted job is lost (memory-queue.ts).
THEOREM NoJobLost == Spec => []JobsAreFound
<1>1. Inv => JobsAreFound
  BY DEF Inv
<1> QED BY <1>1, InvAlways, PTL

\* An undisturbed job is in one place only and is attempted at most
\* MaxAttempts times (processNext, retryDeadLetter).
THEOREM JobInOnePlace == Spec => []OnePlace
<1>1. Inv => OnePlace
  BY DEF Inv
<1> QED BY <1>1, InvAlways, PTL

\* At most one undisturbed unfinished job per idempotency key, whatever the
\* retention limit and the pruning batch are (enqueue, pruneOldCompletedJobs).
THEOREM KeysAreExclusive == Spec => []OneJobPerKey
<1>1. Inv => OneJobPerKey
  <2> SUFFICES ASSUME Inv, NEW i \in Jobs \ disturbed, NEW j \in Jobs \ disturbed,
                      Unfinished(i), Unfinished(j),
                      job[i].key = job[j].key, job[i].key # NoKey
               PROVE  i = j
    BY DEF OneJobPerKey
  <2>1. i \in allJobs /\ j \in allJobs
    BY DEF Inv, UnfinishedKept
  <2> QED BY <2>1 DEF Inv, KeysName
<1> QED BY <1>1, InvAlways, PTL

-----------------------------------------------------------------------------
(* The queue implements JobLifecycle: a step moves one undisturbed job along *)
(* its life cycle, or leaves all undisturbed jobs alone, or starts anew.     *)
LEMMA MoveStep ==
    ASSUME NEW j \in Jobs, NEW from, NEW to, NEW n \in Nat,
           \A i \in Jobs : i # j => job'[i] = job[i],
           job[j].status = from, job'[j].status = to, job'[j].attempt = n,
           UNCHANGED disturbed
    PROVE  Lifecycle!Move(j, from, to, n)
<1> DEFINE St == [i \in Jobs |-> job[i].status]
           At == [i \in Jobs |-> job[i].attempt]
<1>1. [i \in Jobs |-> job'[i].status] = [St EXCEPT ![j] = to]
  OBVIOUS
<1>2. [i \in Jobs |-> job'[i].attempt] = [At EXCEPT ![j] = n]
  OBVIOUS
<1>3. St[j] = from
  OBVIOUS
<1> QED BY <1>1, <1>2, <1>3 DEF Lifecycle!Move

LEMMA DisturbStep ==
    ASSUME TypeOK, TypeOK', disturbed \subseteq disturbed',
           \A j \in Jobs \ disturbed' : job'[j] = job[j]
    PROVE  Lifecycle!Disturb
<1>1. /\ [j \in Jobs |-> job'[j].status] \in [Jobs -> Statuses]
      /\ [j \in Jobs |-> job'[j].attempt] \in [Jobs -> Nat]
      /\ disturbed' \subseteq Jobs
  BY DEF TypeOK, Job
<1> QED BY <1>1 DEF Lifecycle!Disturb, Statuses

LEMMA TakeLifecycle ==
    ASSUME Inv, TypeOK', NEW w \in Workers, worker[w].pc # "running",
           NEW idle \in {Off, Ready}, Take(w, idle)
    PROVE  Lifecycle!Next
<1>0. PICK j \in Jobs : j = Head(pending)
  BY HeadTailProperties DEF Inv, TypeOK, Take
<1>1. /\ pending # <<>> /\ pending' = Tail(pending)
      /\ \A i \in Jobs : i # j => job'[i] = job[i]
      /\ job'[j].attempt = job[j].attempt + 1
      /\ job'[j].status \in {"PROCESSING", "DEAD_LETTER"}
  BY <1>0, TakeEffect DEF Inv
<1>2. TypeOK /\ OnePlace /\ AttemptsLeft /\ UNCHANGED disturbed
  BY DEF Inv, Take
<1>3. CASE j \in disturbed
  BY <1>1, <1>2, <1>3, DisturbStep DEF Lifecycle!Next
<1>4. CASE j \notin disturbed
  <2>1. Queued(j)
    BY <1>0, <1>1, <1>2, TailQueued DEF TypeOK
  <2>2. job[j].status = "PENDING" /\ job[j].attempt < MaxAttempts
    BY <1>2, <1>4, <2>1, Undisturbed DEF AttemptsLeft
  <2>3. PICK n \in Nat : n = job[j].attempt
    BY <1>2 DEF TypeOK, Job
  <2>4. [i \in Jobs |-> job[i].attempt][j] = n
    BY <2>3
  <2>5. CASE job'[j].status = "PROCESSING"
    <3>1. Lifecycle!Move(j, "PENDING", "PROCESSING", n + 1)
      BY <1>1, <1>2, <2>2, <2>3, <2>5, MoveStep
    <3>2. Lifecycle!Start(j)
      BY <2>2, <2>3, <2>4, <3>1 DEF Lifecycle!Start, Lifecycle!Move
    <3> QED BY <3>2 DEF Lifecycle!Next
  <2>6. CASE job'[j].status = "DEAD_LETTER"
    <3>1. Lifecycle!Move(j, "PENDING", "DEAD_LETTER", n + 1)
      BY <1>1, <1>2, <2>2, <2>3, <2>6, MoveStep
    <3>2. Lifecycle!Reject(j)
      BY <2>2, <2>3, <2>4, <3>1 DEF Lifecycle!Reject, Lifecycle!Move
    <3> QED BY <3>2 DEF Lifecycle!Next
  <2> QED BY <1>1, <2>5, <2>6
<1> QED BY <1>3, <1>4

LEMMA SettleLifecycle ==
    ASSUME Inv, TypeOK', NEW w \in Workers, NEW o \in Outcomes, Settle(w, o)
    PROVE  Lifecycle!Next
<1>0. PICK j \in Jobs : j = worker[w].job
  BY DEF Inv, TypeOK, Settle, Worker
<1>1. /\ Runs(w, j)
      /\ \A i \in Jobs : i # j => job'[i] = job[i]
      /\ job'[j].attempt = job[j].attempt
      /\ \/ job'[j].status \in {"COMPLETED", "DEAD_LETTER"}
         \/ job'[j].status = "PENDING" /\ job[j].attempt < MaxAttempts
  BY <1>0, SettleEffect DEF Inv
<1>2. TypeOK /\ OnePlace /\ UNCHANGED disturbed
  BY DEF Inv, Settle
<1>3. CASE j \in disturbed
  BY <1>1, <1>2, <1>3, DisturbStep DEF Lifecycle!Next
<1>4. CASE j \notin disturbed
  <2>1. job[j].status = "PROCESSING"
    BY <1>1, <1>2, <1>4, Undisturbed
  <2>2. PICK n \in Nat : n = job[j].attempt
    BY <1>2 DEF TypeOK, Job
  <2>3. [i \in Jobs |-> job[i].attempt][j] = n
    BY <2>2
  <2>4. CASE job'[j].status = "COMPLETED"
    <3>1. Lifecycle!Move(j, "PROCESSING", "COMPLETED", n)
      BY <1>1, <1>2, <2>1, <2>2, <2>4, MoveStep
    <3>2. Lifecycle!Complete(j)
      BY <2>3, <3>1 DEF Lifecycle!Complete, Lifecycle!Move
    <3> QED BY <3>2 DEF Lifecycle!Next
  <2>5. CASE job'[j].status = "DEAD_LETTER"
    <3>1. Lifecycle!Move(j, "PROCESSING", "DEAD_LETTER", n)
      BY <1>1, <1>2, <2>1, <2>2, <2>5, MoveStep
    <3>2. Lifecycle!Bury(j)
      BY <2>3, <3>1 DEF Lifecycle!Bury, Lifecycle!Move
    <3> QED BY <3>2 DEF Lifecycle!Next
  <2>6. CASE job'[j].status = "PENDING" /\ job[j].attempt < MaxAttempts
    <3>1. Lifecycle!Move(j, "PROCESSING", "PENDING", n)
      BY <1>1, <1>2, <2>1, <2>2, <2>6, MoveStep
    <3>2. Lifecycle!Retry(j)
      BY <2>2, <2>3, <2>6, <3>1 DEF Lifecycle!Retry, Lifecycle!Move
    <3> QED BY <3>2 DEF Lifecycle!Next
  <2> QED BY <1>1, <2>4, <2>5, <2>6
<1> QED BY <1>3, <1>4

LEMMA LifecycleStep ==
    ASSUME Inv, TypeOK', [Next]_vars
    PROVE  [Lifecycle!Next]_(Lifecycle!vars)
<1> USE DEF queueVars, shutdownVars
<1>0. TypeOK /\ OnePlace
  BY DEF Inv
<1>1. ASSUME UNCHANGED <<job, disturbed>> PROVE UNCHANGED Lifecycle!vars
  BY <1>1 DEF Lifecycle!vars
<1>2. ASSUME NEW j \in Jobs, NEW t \in Types, NEW k \in Keys \cup {NoKey},
             Enqueue(j, t, k)
      PROVE  Lifecycle!Next
  <2>1. /\ job[j].status = "NEW" /\ UNCHANGED disturbed
        /\ job' = [job EXCEPT ![j] = [status |-> "PENDING", attempt |-> 0,
                                      type |-> t, key |-> k]]
    BY <1>2 DEF Enqueue, Jobs
  <2>2. /\ \A i \in Jobs : i # j => job'[i] = job[i]
        /\ job'[j].status = "PENDING" /\ job'[j].attempt = 0
    BY <1>0, <2>1 DEF TypeOK
  <2>3. Lifecycle!Accept(j)
    <3>1. Lifecycle!Move(j, "NEW", "PENDING", 0)
      BY <2>1, <2>2, MoveStep
    <3> QED BY <3>1 DEF Lifecycle!Accept
  <2> QED BY <2>3 DEF Lifecycle!Next
<1>3. ASSUME NEW c \in Callers, ProcessNext(c) PROVE Lifecycle!Next
  <2>1. c \in Workers /\ worker[c].pc # "running" /\ Take(c, Off)
    BY <1>3 DEF ProcessNext, Workers, Off
  <2> QED BY <2>1, TakeLifecycle
<1>4. ASSUME NEW w \in DrainWorkers, WorkerClaims(w) PROVE Lifecycle!Next
  <2>1. w \in Workers /\ worker[w].pc # "running" /\ Take(w, Ready)
    BY <1>4 DEF WorkerClaims, Workers
  <2> QED BY <2>1, TakeLifecycle
<1>5. ASSUME NEW j \in Jobs, RetryDeadLetter(j) PROVE Lifecycle!Next
  <2>1. /\ j \in deadLetters /\ UNCHANGED disturbed
        /\ job' = [job EXCEPT ![j].status = "PENDING", ![j].attempt = 0]
    BY <1>5 DEF RetryDeadLetter
  <2>2. /\ \A i \in Jobs : i # j => job'[i] = job[i]
        /\ job'[j].status = "PENDING" /\ job'[j].attempt = 0
    BY <1>0, <2>1 DEF TypeOK, Job
  <2>3. CASE j \in disturbed
    BY <1>0, <2>1, <2>2, <2>3, DisturbStep DEF Lifecycle!Next
  <2>4. CASE j \notin disturbed
    <3>1. job[j].status = "DEAD_LETTER"
      BY <1>0, <2>1, <2>4, Undisturbed
    <3>2. Lifecycle!Move(j, "DEAD_LETTER", "PENDING", 0)
      BY <2>1, <2>2, <3>1, MoveStep
    <3>3. Lifecycle!Replay(j)
      BY <3>2 DEF Lifecycle!Replay
    <3> QED BY <3>3 DEF Lifecycle!Next
  <2> QED BY <2>3, <2>4
<1>6. CASE Clear
  BY <1>0, <1>6, DisturbStep DEF Clear, Lifecycle!Next
<1>7. ASSUME NEW s \in Shutdowns, Recover(s) PROVE Lifecycle!Next
  <2>1. /\ disturbed' = disturbed \cup Interrupted
        /\ \A j \in Jobs : j \notin Interrupted => job'[j] = job[j]
    BY <1>0, <1>7 DEF Recover, TypeOK
  <2> QED BY <1>0, <2>1, DisturbStep DEF Lifecycle!Next
<1>8. CASE Exit
  <2>1. /\ \A j \in Jobs : job'[j].status = "NEW" /\ job'[j].attempt = 0
        /\ disturbed' = {}
    BY <1>8 DEF Exit, NewJob
  <2>2. Lifecycle!Restart
    BY <2>1 DEF Lifecycle!Restart
  <2> QED BY <2>2 DEF Lifecycle!Next
<1>9. ASSUME NEW w \in DrainWorkers, WorkerLeaves(w) PROVE UNCHANGED <<job, disturbed>>
  BY <1>9 DEF WorkerLeaves
<1>10. ASSUME NEW s \in Shutdowns,
              BeginShutdown(s) \/ EndShutdown(s) \/ Deadline(s)
       PROVE  UNCHANGED <<job, disturbed>>
  BY <1>10 DEF BeginShutdown, EndShutdown, Deadline
<1>11. ASSUME NEW t \in Types, RegisterHandler(t) PROVE UNCHANGED <<job, disturbed>>
  BY <1>11 DEF RegisterHandler
<1>12. ASSUME UNCHANGED vars PROVE UNCHANGED <<job, disturbed>>
  BY <1>12 DEF vars
<1> QED BY <1>1, <1>2, <1>3, <1>4, <1>5, <1>6, <1>7, <1>8, <1>9, <1>10, <1>11, <1>12,
           SettleLifecycle DEF Next, DrainStep, WorkerTurn, Workers

\* The queue implements the life cycle of docs/disaster-recovery.md section 7
\* for every job that neither a recovery nor clear has disturbed.
THEOREM ImplementsLifecycle == Spec => LifecycleSpec
<1>1. Init => Lifecycle!Init
  <2> SUFFICES ASSUME Init PROVE Lifecycle!Init
    OBVIOUS
  <2>1. \A j \in Jobs : job[j].status = "NEW" /\ job[j].attempt = 0
    BY DEF Init, NewJob
  <2> QED BY <2>1 DEF Init, Lifecycle!Init
<1>2. Inv /\ Inv' /\ [Next]_vars => [Lifecycle!Next]_(Lifecycle!vars)
  BY LifecycleStep DEF Inv
<1> QED BY <1>1, <1>2, InvAlways, PTL DEF Spec, LifecycleSpec, Lifecycle!Spec

-----------------------------------------------------------------------------
(* A drain comes to an end.  DrainEnds is a liveness property; its safety    *)
(* core is a number of steps left that only grows when a drain begins.       *)
Busy(s) == {i \in 1..Concurrency : worker[<<s, i>>].pc # "off"}
Running(s) == {i \in 1..Concurrency : worker[<<s, i>>].pc = "running"}

\* What the workers of s can still do: claim and settle each job the batch
\* may process, settle those they run, and leave, each once.
DrainLeft(s) ==
    2 * (shutdown[s].toProcess - shutdown[s].processed)
        + Cardinality(Busy(s)) + Cardinality(Running(s))

\* A step of one of its workers brings drain s nearer to its end, and no other
\* step takes it further away.
DrainNearer(s) ==
    shutdown[s].pc = "draining" /\ shutdown'[s].pc = "draining" =>
        /\ DrainLeft(s)' <= DrainLeft(s)
        /\ (\E i \in 1..Concurrency : DrainStep(<<s, i>>))
               => DrainLeft(s)' < DrainLeft(s)

\* A drain's workers wear it out, whatever fails, is replayed or enqueued
\* meanwhile, and whatever another drain does (processBatch, runWorker).
DrainsProgress == [][\A s \in Shutdowns : DrainNearer(s)]_vars

\* No fresh worker finds its batch or the queue used up.
FreshFindWork == \A w \in DrainWorkers : worker[w].pc = "fresh" => HasWork(w[1])

\* The workers of one batch only are fresh, those that have not claimed yet;
\* the queue holds a job for each job the batch has left to process.
FreshInOrder ==
    \A s \in Shutdowns :
        (\E i \in 1..Concurrency : worker[<<s, i>>].pc = "fresh") =>
            /\ Len(pending) >= shutdown[s].toProcess - shutdown[s].processed
            /\ \A t \in Shutdowns, i \in 1..Concurrency :
                   worker[<<t, i>>].pc = "fresh"
                       <=> /\ t = s
                           /\ i > shutdown[s].processed
                           /\ i <= shutdown[s].toProcess

LEMMA DrainWorkerIs ==
    ASSUME NEW w \in DrainWorkers
    PROVE  /\ w \in Workers /\ w \notin Callers
           /\ w[1] \in Shutdowns /\ w[2] \in 1..Concurrency
           /\ w = <<w[1], w[2]>>
BY DEF Workers, DrainWorkers

LEMMA DrainWorkerOf ==
    ASSUME NEW s \in Shutdowns, NEW i \in 1..Concurrency
    PROVE  /\ <<s, i>> \in DrainWorkers /\ <<s, i>> \in Workers
           /\ <<s, i>>[1] = s /\ <<s, i>>[2] = i
BY DEF Workers, DrainWorkers

\* Nobody but a beginning drain makes a worker fresh.
LEMMA NobodyFresh ==
    ASSUME Quiet, \A w \in DrainWorkers : worker'[w].pc # "fresh" \/ worker'[w] = worker[w]
    PROVE  FreshInOrder'
<1>1. \A s \in Shutdowns, i \in 1..Concurrency : worker'[<<s, i>>].pc # "fresh"
  BY DrainWorkerOf DEF Quiet
<1> QED BY <1>1 DEF FreshInOrder

LEMMA FreshWork ==
    ASSUME TypeOK, FreshInOrder
    PROVE  FreshFindWork
<1> SUFFICES ASSUME NEW w \in DrainWorkers, worker[w].pc = "fresh"
             PROVE  HasWork(w[1])
  BY DEF FreshFindWork
<1>1. /\ w[1] \in Shutdowns /\ w[2] \in 1..Concurrency /\ w = <<w[1], w[2]>>
  BY DrainWorkerIs
<1>2. /\ Len(pending) >= shutdown[w[1]].toProcess - shutdown[w[1]].processed
      /\ w[2] > shutdown[w[1]].processed /\ w[2] <= shutdown[w[1]].toProcess
  BY <1>1 DEF FreshInOrder
<1>3. shutdown[w[1]].processed \in Nat /\ shutdown[w[1]].toProcess \in Nat
  BY <1>1 DEF TypeOK, Shutdown
<1>4. Len(pending) >= 1
  BY <1>1, <1>2, <1>3, LenProperties DEF TypeOK
<1>5. pending # <<>>
  BY <1>4, EmptySeq DEF TypeOK
<1>6. shutdown[w[1]].processed < shutdown[w[1]].toProcess
  <2> DEFINE i == w[2]
             p == shutdown[w[1]].processed
             n == shutdown[w[1]].toProcess
  <2>1. i \in Nat /\ p \in Nat /\ n \in Nat /\ i > p /\ i <= n
    BY <1>1, <1>2, <1>3
  <2> HIDE DEF i, p, n
  <2>2. p < n
    BY <2>1
  <2> QED BY <2>2 DEF p, n
<1> QED BY <1>5, <1>6 DEF HasWork

\* A worker claims: the next in order if some are fresh.
LEMMA ClaimOrder ==
    ASSUME TypeOK, FreshInOrder, NEW w \in DrainWorkers, WorkerClaims(w)
    PROVE  FreshInOrder'
<1> DEFINE s == w[1]
           k == w[2]
<1>1. s \in Shutdowns /\ k \in 1..Concurrency /\ w = <<s, k>> /\ w \in Workers
  BY DrainWorkerIs
<1>2. worker'[w].pc # "fresh" /\ \A v \in Workers : v # w => worker'[v] = worker[v]
  BY <1>1 DEF WorkerClaims, Take, TypeOK, Ready
<1>3. CASE worker[w].pc = "ready"
  <2>1. Quiet
    BY <1>3 DEF WorkerClaims
  <2> QED BY <1>2, <2>1, NobodyFresh, DrainWorkerIs
<1>4. CASE worker[w].pc = "fresh"
  <2> DEFINE n == shutdown[s].processed
             m == shutdown[s].toProcess
  <2>1. n \in Nat /\ m \in Nat
    BY <1>1 DEF TypeOK, Shutdown
  <2>2. /\ Len(pending) >= m - n
        /\ \A t \in Shutdowns, i \in 1..Concurrency :
               worker[<<t, i>>].pc = "fresh" <=> t = s /\ i > n /\ i <= m
    BY <1>1, <1>4 DEF FreshInOrder
  <2>3. \A i \in 1..(k - 1) : worker[<<s, i>>].pc # "fresh"
    BY <1>4 DEF WorkerClaims
  <2>4. k > n /\ k <= m
    BY <1>1, <1>4, <2>2
  <2>5. k = n + 1
    <3> HIDE DEF n, m, s, k
    <3> SUFFICES ASSUME k # n + 1 PROVE FALSE
      OBVIOUS
    <3>1. n + 1 \in 1..(k - 1) /\ n + 1 \in 1..Concurrency /\ n + 1 <= m
      BY <1>1, <2>1, <2>4
    <3>2. s \in Shutdowns /\ n + 1 > n
      BY <1>1, <2>1
    <3>3. worker[<<s, n + 1>>].pc = "fresh"
      BY <2>2, <3>1, <3>2
    <3> QED BY <2>3, <3>1, <3>3
  <2>6. shutdown'[s].processed = n + 1 /\ shutdown'[s].toProcess = m
    BY <1>1 DEF WorkerClaims, Count, TypeOK, Shutdown
  <2>7. Len(pending') = Len(pending) - 1
    BY HeadTailProperties DEF WorkerClaims, Take, TypeOK
  <2>8. \A t \in Shutdowns, i \in 1..Concurrency :
            <<t, i>> \in Workers /\ (<<t, i>> = w <=> t = s /\ i = k)
    <3> HIDE DEF s, k
    <3> QED BY <1>1, DrainWorkerOf
  <2>9. \A t \in Shutdowns, i \in 1..Concurrency :
            worker'[<<t, i>>].pc = "fresh" <=> t = s /\ i > n + 1 /\ i <= m
    <3> SUFFICES ASSUME NEW t \in Shutdowns, NEW i \in 1..Concurrency
                 PROVE  worker'[<<t, i>>].pc = "fresh" <=> t = s /\ i > n + 1 /\ i <= m
      OBVIOUS
    <3> HIDE DEF n, m, s, k
    <3>1. CASE t = s /\ i = k
      BY <1>2, <2>1, <2>5, <2>8, <3>1
    <3>2. CASE ~(t = s /\ i = k)
      <4>1. worker'[<<t, i>>] = worker[<<t, i>>]
        BY <1>2, <2>8, <3>2
      <4> QED BY <1>1, <2>1, <2>2, <2>5, <3>2, <4>1
    <3> QED BY <3>1, <3>2
  <2>10. Len(pending) \in Nat /\ Len(pending') >= m - (n + 1)
    BY <2>1, <2>2, <2>7, LenProperties DEF TypeOK
  <2> HIDE DEF n, m, s, k
  <2>11. \A u \in Shutdowns : (\E i \in 1..Concurrency : worker'[<<u, i>>].pc = "fresh")
                                 => u = s
    BY <2>9
  <2> QED BY <2>6, <2>9, <2>10, <2>11 DEF FreshInOrder
<1> QED BY <1>3, <1>4 DEF WorkerClaims

LEMMA FreshInductive ==
    ASSUME TypeOK, FreshInOrder, [Next]_vars
    PROVE  FreshInOrder'
<1> USE DEF queueVars, shutdownVars
<1>0. \A w \in DrainWorkers : w \in Workers
  BY DrainWorkerIs
<1>1. ASSUME NEW s \in Shutdowns, BeginShutdown(s) PROVE FreshInOrder'
  <2> DEFINE n == IF Len(pending) < BatchSize THEN Len(pending) ELSE BatchSize
  <2>1. n \in Nat /\ Len(pending) >= n
    BY LenProperties DEF TypeOK
  <2>2. /\ Quiet /\ pending' = pending
        /\ shutdown' = [shutdown EXCEPT ![s] =
                            [pc |-> "draining", toProcess |-> n, processed |-> 0]]
        /\ worker' = [w \in Workers |->
                         IF w \in DrainWorkers /\ w[1] = s /\ w[2] <= n
                         THEN [pc |-> "fresh", job |-> NoJob] ELSE worker[w]]
    BY <1>1 DEF BeginShutdown
  <2> HIDE DEF n
  <2>3. shutdown'[s].toProcess = n /\ shutdown'[s].processed = 0
    BY <2>2 DEF TypeOK
  <2>4. ASSUME NEW t \in Shutdowns, NEW i \in 1..Concurrency
        PROVE  worker'[<<t, i>>].pc = "fresh" <=> t = s /\ i > 0 /\ i <= n
    <3>1. /\ <<t, i>> \in DrainWorkers /\ <<t, i>> \in Workers
          /\ <<t, i>>[1] = t /\ <<t, i>>[2] = i
      BY DrainWorkerOf
    <3>2. worker[<<t, i>>].pc # "fresh"
      BY <2>2, <3>1 DEF Quiet
    <3> QED BY <2>1, <2>2, <3>1, <3>2
  <2> QED BY <2>1, <2>2, <2>3, <2>4 DEF FreshInOrder
<1>2. ASSUME NEW w \in DrainWorkers, WorkerClaims(w) PROVE FreshInOrder'
  BY <1>2, ClaimOrder
<1>3. ASSUME NEW c \in Callers, ProcessNext(c) PROVE FreshInOrder'
  <2>1. Quiet /\ \A w \in DrainWorkers : worker'[w] = worker[w]
    BY <1>0, <1>3, DrainWorkerIs DEF ProcessNext, Take, TypeOK
  <2> QED BY <2>1, NobodyFresh
<1>4. ASSUME NEW w \in Workers, NEW o \in Outcomes, Settle(w, o) PROVE FreshInOrder'
  <2>1. /\ Quiet
        /\ \A v \in DrainWorkers : worker'[v].pc # "fresh" \/ worker'[v] = worker[v]
    BY <1>0, <1>4 DEF Settle, TypeOK, Off, Ready
  <2> QED BY <2>1, NobodyFresh
<1>5. ASSUME NEW w \in DrainWorkers, WorkerLeaves(w) PROVE FreshInOrder'
  <2>1. /\ Quiet
        /\ \A v \in DrainWorkers : worker'[v].pc # "fresh" \/ worker'[v] = worker[v]
    BY <1>0, <1>5 DEF WorkerLeaves, TypeOK, Off
  <2> QED BY <2>1, NobodyFresh
<1>6. ASSUME Quiet, worker' = worker PROVE FreshInOrder'
  BY <1>6, NobodyFresh
<1>7. ASSUME NEW t \in Types, RegisterHandler(t) PROVE FreshInOrder'
  BY <1>6, <1>7 DEF RegisterHandler
<1>8. ASSUME NEW j \in Jobs, NEW t \in Types, NEW k \in Keys \cup {NoKey},
             Enqueue(j, t, k)
      PROVE  FreshInOrder'
  BY <1>6, <1>8 DEF Enqueue
<1>9. ASSUME NEW j \in Jobs, RetryDeadLetter(j) PROVE FreshInOrder'
  BY <1>6, <1>9 DEF RetryDeadLetter
<1>10. CASE Clear
  BY <1>6, <1>10 DEF Clear
<1>11. ASSUME NEW s \in Shutdowns, Recover(s) \/ EndShutdown(s) \/ Deadline(s)
       PROVE  FreshInOrder'
  BY <1>6, <1>11 DEF Recover, EndShutdown, Deadline
<1>12. CASE Exit
  <2>1. \A s \in Shutdowns, i \in 1..Concurrency : worker'[<<s, i>>].pc # "fresh"
    BY <1>12, DrainWorkerOf DEF Exit, Off
  <2> QED BY <2>1 DEF FreshInOrder
<1>13. CASE UNCHANGED vars
  BY <1>13 DEF vars, FreshInOrder
<1> QED BY <1>1, <1>2, <1>3, <1>4, <1>5, <1>7, <1>8, <1>9, <1>10, <1>11, <1>12,
           <1>13 DEF Next, DrainStep, WorkerTurn, Workers

\* Each worker a batch starts finds a job: the synchronous loop of processBatch
\* never starts one that has nothing to do, and is never stuck.
THEOREM FreshWorkersFindWork == Spec => []FreshFindWork
<1>1. Init => FreshInOrder
  BY DrainWorkerOf DEF Init, Off, FreshInOrder
<1>2. TypeOK /\ FreshInOrder /\ [Next]_vars => FreshInOrder'
  BY FreshInductive
<1>3. TypeOK /\ FreshInOrder => FreshFindWork
  BY FreshWork
<1> QED BY <1>1, <1>2, <1>3, TypeCorrect, PTL DEF Spec

\* What one worker's step does to the workers counted.
LEMMA WorkerCounts ==
    ASSUME TypeOK, NEW s \in Shutdowns, NEW k \in 1..Concurrency, NEW x \in Worker,
           worker' = [worker EXCEPT ![<<s, k>>] = x]
    PROVE  /\ x.pc = "off" => Busy(s)' = Busy(s) \ {k}
           /\ x.pc # "off" => Busy(s)' = Busy(s) \cup {k}
           /\ x.pc = "running" => Running(s)' = Running(s) \cup {k}
           /\ x.pc # "running" => Running(s)' = Running(s) \ {k}
           /\ x.pc # "off" /\ k \in Busy(s) => Busy(s)' = Busy(s)
           /\ x.pc # "running" /\ k \notin Running(s) => Running(s)' = Running(s)
           /\ \A t \in Shutdowns : t # s => /\ Busy(t)' = Busy(t)
                                           /\ Running(t)' = Running(t)
<1>1. worker'[<<s, k>>] = x
  BY DrainWorkerOf DEF TypeOK
<1>2. \A t \in Shutdowns, i \in 1..Concurrency :
          t # s \/ i # k => worker'[<<t, i>>] = worker[<<t, i>>]
  BY DrainWorkerOf DEF TypeOK
<1>3. \A t \in Shutdowns : t # s => Busy(t)' = Busy(t) /\ Running(t)' = Running(t)
  BY <1>2 DEF Busy, Running
<1>4. x.pc = "off" => Busy(s)' = Busy(s) \ {k}
  BY <1>1, <1>2 DEF Busy
<1>5. x.pc # "off" => Busy(s)' = Busy(s) \cup {k}
  BY <1>1, <1>2 DEF Busy
<1>6. x.pc = "running" => Running(s)' = Running(s) \cup {k}
  BY <1>1, <1>2 DEF Running
<1>7. x.pc # "running" => Running(s)' = Running(s) \ {k}
  BY <1>1, <1>2 DEF Running
<1>8. k \in Busy(s) => Busy(s) \cup {k} = Busy(s)
  OBVIOUS
<1>9. k \notin Running(s) => Running(s) \ {k} = Running(s)
  OBVIOUS
<1> QED BY <1>3, <1>4, <1>5, <1>6, <1>7, <1>8, <1>9

LEMMA SomeWorkers ==
    ASSUME NEW T \in SUBSET (1..Concurrency)
    PROVE  IsFiniteSet(T) /\ Cardinality(T) \in Nat
<1>1. IsFiniteSet(1..Concurrency)
  BY FS_Interval
<1> QED BY <1>1, FS_Subset, FS_CardinalityType

LEMMA CountsFinite ==
    ASSUME NEW s \in Shutdowns
    PROVE  /\ IsFiniteSet(Busy(s)) /\ Cardinality(Busy(s)) \in Nat
           /\ IsFiniteSet(Running(s)) /\ Cardinality(Running(s)) \in Nat
<1>1. Busy(s) \subseteq 1..Concurrency /\ Running(s) \subseteq 1..Concurrency
  BY DEF Busy, Running
<1> QED BY <1>1, SomeWorkers

\* A worker's step: its own drain has less left, the others the same.
LEMMA WorkerStepCounts ==
    ASSUME TypeOK, NEW s \in Shutdowns, NEW k \in 1..Concurrency, DrainStep(<<s, k>>)
    PROVE  /\ DrainLeft(s)' < DrainLeft(s)
           /\ \A t \in Shutdowns : t # s => DrainLeft(t)' = DrainLeft(t)
<1> DEFINE w == <<s, k>>
           m == shutdown[s].toProcess
           n == shutdown[s].processed
           b == Cardinality(Busy(s))
           r == Cardinality(Running(s))
<1>1. /\ w \in DrainWorkers /\ w \in Workers /\ w \notin Callers
      /\ w[1] = s /\ w[2] = k
  BY DrainWorkerOf, DrainWorkerIs
<1>2. /\ m \in Nat /\ n \in Nat /\ b \in Nat /\ r \in Nat
      /\ IsFiniteSet(Busy(s)) /\ IsFiniteSet(Running(s))
  BY CountsFinite DEF TypeOK, Shutdown
<1>3. /\ worker[w].pc # "off" => k \in Busy(s)
      /\ worker[w].pc = "running" <=> k \in Running(s)
  BY DEF Busy, Running
<1>4. DrainLeft(s) = 2 * (m - n) + b + r
  BY DEF DrainLeft
<1>5. DrainLeft(s)' = 2 * (m' - n') + b' + r'
  BY DEF DrainLeft
<1>6. Off \in Worker /\ Off.pc = "off" /\ Ready \in Worker /\ Ready.pc = "ready"
  BY DEF Off, Ready, Worker
<1>7. ASSUME UNCHANGED shutdown,
             \A t \in Shutdowns : t # s => Busy(t)' = Busy(t) /\ Running(t)' = Running(t)
      PROVE  /\ m' = m /\ n' = n
             /\ \A t \in Shutdowns : t # s => DrainLeft(t)' = DrainLeft(t)
  BY <1>7 DEF DrainLeft
<1>8. CASE WorkerClaims(w)
  <2>1. PICK x \in Worker : /\ worker' = [worker EXCEPT ![w] = x]
                            /\ x.pc \in {"running", "ready"}
    <3>1. Head(pending) \in Jobs
      BY <1>8, HeadTailProperties DEF WorkerClaims, Take, TypeOK
    <3>2. [pc |-> "running", job |-> Head(pending)] \in Worker
      BY <3>1 DEF Worker
    <3> QED BY <1>6, <1>8, <3>2 DEF WorkerClaims, Take
  <2>2. worker[w].pc \in {"fresh", "ready"}
    BY <1>8 DEF WorkerClaims
  <2>3. k \in Busy(s) /\ k \notin Running(s)
    BY <1>3, <2>2
  <2>4. Busy(s)' = Busy(s)
    BY <2>1, <2>3, WorkerCounts
  <2>5. Running(s)' = Running(s) \/ Running(s)' = Running(s) \cup {k}
    BY <2>1, <2>3, WorkerCounts
  <2>6. b' = b /\ r' \in {r, r + 1}
    BY <1>2, <2>3, <2>4, <2>5, FS_AddElement
  <2>7. shutdown' = [shutdown EXCEPT ![s].processed = @ + 1]
    BY <1>1, <1>8 DEF WorkerClaims, Count
  <2>8. m' = m /\ n' = n + 1 /\ \A t \in Shutdowns : t # s => shutdown'[t] = shutdown[t]
    BY <2>7 DEF TypeOK, Shutdown
  <2>9. \A t \in Shutdowns : t # s => DrainLeft(t)' = DrainLeft(t)
    BY <2>1, <2>8, WorkerCounts DEF DrainLeft
  <2>10. DrainLeft(s)' < DrainLeft(s)
    <3> HIDE DEF m, n, b, r
    <3>1. CASE r' = r
      BY <1>2, <1>4, <1>5, <2>6, <2>8, <3>1
    <3>2. CASE r' = r + 1
      BY <1>2, <1>4, <1>5, <2>6, <2>8, <3>2
    <3> QED BY <2>6, <3>1, <3>2
  <2> QED BY <2>9, <2>10
<1>9. CASE WorkerLeaves(w)
  <2>1. /\ worker' = [worker EXCEPT ![w] = Off]
        /\ worker[w].pc = "ready" /\ UNCHANGED shutdown
    BY <1>9 DEF WorkerLeaves, shutdownVars
  <2>2. k \in Busy(s) /\ k \notin Running(s)
    BY <1>3, <2>1
  <2>3. Busy(s)' = Busy(s) \ {k}
    BY <1>6, <2>1, WorkerCounts
  <2>4. Running(s)' = Running(s)
    BY <1>6, <2>1, <2>2, WorkerCounts
  <2>5. \A t \in Shutdowns : t # s => Busy(t)' = Busy(t) /\ Running(t)' = Running(t)
    BY <1>6, <2>1, WorkerCounts
  <2>6. b' = b - 1 /\ r' = r
    <3>1. Cardinality(Busy(s) \ {k}) = b - 1
      BY <1>2, <2>2, FS_RemoveElement
    <3> QED BY <2>3, <2>4, <3>1
  <2>7. /\ m' = m /\ n' = n
        /\ \A t \in Shutdowns : t # s => DrainLeft(t)' = DrainLeft(t)
    BY <1>7, <2>1, <2>5
  <2> HIDE DEF m, n, b, r
  <2> QED BY <1>2, <1>4, <1>5, <2>6, <2>7
<1>10. ASSUME NEW o \in Outcomes, Settle(w, o)
       PROVE  /\ DrainLeft(s)' < DrainLeft(s)
              /\ \A t \in Shutdowns : t # s => DrainLeft(t)' = DrainLeft(t)
  <2>1. /\ worker' = [worker EXCEPT ![w] = Ready]
        /\ worker[w].pc = "running" /\ UNCHANGED shutdown
    BY <1>1, <1>10 DEF Settle, shutdownVars
  <2>2. k \in Busy(s) /\ k \in Running(s)
    BY <1>3, <2>1
  <2>3. Busy(s)' = Busy(s)
    BY <1>6, <2>1, <2>2, WorkerCounts
  <2>4. Running(s)' = Running(s) \ {k}
    BY <1>6, <2>1, WorkerCounts
  <2>5. \A t \in Shutdowns : t # s => Busy(t)' = Busy(t) /\ Running(t)' = Running(t)
    BY <1>6, <2>1, WorkerCounts
  <2>6. b' = b /\ r' = r - 1
    <3>1. Cardinality(Running(s) \ {k}) = r - 1
      BY <1>2, <2>2, FS_RemoveElement
    <3> QED BY <2>3, <2>4, <3>1
  <2>7. /\ m' = m /\ n' = n
        /\ \A t \in Shutdowns : t # s => DrainLeft(t)' = DrainLeft(t)
    BY <1>7, <2>1, <2>5
  <2> HIDE DEF m, n, b, r
  <2> QED BY <1>2, <1>4, <1>5, <2>6, <2>7
<1> QED BY <1>8, <1>9, <1>10 DEF DrainStep, WorkerTurn

\* Every other step leaves a drain under way what it had left.
LEMMA OtherStepCounts ==
    ASSUME TypeOK, [Next]_vars, \A w \in DrainWorkers : ~DrainStep(w),
           NEW s \in Shutdowns, shutdown[s].pc = "draining", shutdown'[s].pc = "draining"
    PROVE  DrainLeft(s)' = DrainLeft(s)
<1> USE DEF queueVars, shutdownVars
<1>0. ASSUME shutdown'[s] = shutdown[s],
             \A i \in 1..Concurrency : worker'[<<s, i>>] = worker[<<s, i>>]
      PROVE  DrainLeft(s)' = DrainLeft(s)
  <2>1. Busy(s)' = Busy(s) /\ Running(s)' = Running(s)
    BY <1>0 DEF Busy, Running
  <2> QED BY <1>0, <2>1 DEF DrainLeft
<1>1. ASSUME worker' = worker, shutdown' = shutdown PROVE DrainLeft(s)' = DrainLeft(s)
  BY <1>0, <1>1
<1>2. ASSUME NEW c \in Callers, NEW x, worker' = [worker EXCEPT ![c] = x],
             shutdown' = shutdown
      PROVE  DrainLeft(s)' = DrainLeft(s)
  <2>1. \A i \in 1..Concurrency : <<s, i>> \in Workers /\ <<s, i>> # c
    BY DrainWorkerOf, DrainWorkerIs
  <2> QED BY <1>0, <1>2, <2>1 DEF TypeOK
<1>3. ASSUME NEW c \in Callers, ProcessNext(c) PROVE DrainLeft(s)' = DrainLeft(s)
  BY <1>2, <1>3 DEF ProcessNext, Take
<1>4. ASSUME NEW c \in Callers, NEW o \in Outcomes, Settle(c, o)
      PROVE  DrainLeft(s)' = DrainLeft(s)
  BY <1>2, <1>4 DEF Settle
<1>5. ASSUME NEW u \in Shutdowns, BeginShutdown(u) PROVE DrainLeft(s)' = DrainLeft(s)
  <2> DEFINE n == IF Len(pending) < BatchSize THEN Len(pending) ELSE BatchSize
  <2>1. /\ shutdown[u].pc = "idle"
        /\ shutdown' = [shutdown EXCEPT ![u] =
                            [pc |-> "draining", toProcess |-> n, processed |-> 0]]
        /\ worker' = [w \in Workers |->
                         IF w \in DrainWorkers /\ w[1] = u /\ w[2] <= n
                         THEN [pc |-> "fresh", job |-> NoJob] ELSE worker[w]]
    BY <1>5 DEF BeginShutdown
  <2> HIDE DEF n
  <2>2. s # u /\ shutdown'[s] = shutdown[s]
    BY <2>1 DEF TypeOK
  <2>3. \A i \in 1..Concurrency : worker'[<<s, i>>] = worker[<<s, i>>]
    BY <2>1, <2>2, DrainWorkerOf
  <2> QED BY <1>0, <2>2, <2>3
<1>6. ASSUME NEW u \in Shutdowns, Recover(u) PROVE DrainLeft(s)' = DrainLeft(s)
  <2>1. /\ shutdown' = [shutdown EXCEPT ![u] = [IdleShutdown EXCEPT !.pc = "cleaning"]]
        /\ worker' = worker
    BY <1>6 DEF Recover
  <2>2. s # u
    BY <2>1 DEF TypeOK, IdleShutdown
  <2> QED BY <1>0, <2>1, <2>2 DEF TypeOK
<1>7. ASSUME NEW u \in Shutdowns, EndShutdown(u) PROVE DrainLeft(s)' = DrainLeft(s)
  <2>1. /\ shutdown' = [shutdown EXCEPT ![u] = [IdleShutdown EXCEPT !.pc = "over"]]
        /\ worker' = worker
    BY <1>7 DEF EndShutdown
  <2>2. s # u
    BY <2>1 DEF TypeOK, IdleShutdown
  <2> QED BY <1>0, <2>1, <2>2 DEF TypeOK
<1>8. ASSUME NEW u \in Shutdowns, Deadline(u) PROVE DrainLeft(s)' = DrainLeft(s)
  BY <1>1, <1>8 DEF Deadline
<1>9. ASSUME NEW t \in Types, RegisterHandler(t) PROVE DrainLeft(s)' = DrainLeft(s)
  BY <1>1, <1>9 DEF RegisterHandler
<1>10. ASSUME NEW j \in Jobs, NEW t \in Types, NEW k \in Keys \cup {NoKey},
              Enqueue(j, t, k)
       PROVE  DrainLeft(s)' = DrainLeft(s)
  BY <1>1, <1>10 DEF Enqueue
<1>11. ASSUME NEW j \in Jobs, RetryDeadLetter(j) PROVE DrainLeft(s)' = DrainLeft(s)
  BY <1>1, <1>11 DEF RetryDeadLetter
<1>12. CASE Clear
  BY <1>1, <1>12 DEF Clear
<1>13. CASE Exit
  BY <1>13 DEF Exit, IdleShutdown
<1>14. CASE UNCHANGED vars
  BY <1>1, <1>14 DEF vars
<1> QED BY <1>3, <1>4, <1>5, <1>6, <1>7, <1>8, <1>9, <1>10, <1>11, <1>12, <1>13,
           <1>14 DEF Next

LEMMA DrainStepsNearer ==
    ASSUME TypeOK, [Next]_vars, NEW s \in Shutdowns
    PROVE  DrainNearer(s)
<1>0. SUFFICES ASSUME shutdown[s].pc = "draining", shutdown'[s].pc = "draining"
               PROVE  /\ DrainLeft(s)' <= DrainLeft(s)
                      /\ (\E i \in 1..Concurrency : DrainStep(<<s, i>>))
                             => DrainLeft(s)' < DrainLeft(s)
  BY DEF DrainNearer
<1>1. /\ Cardinality(Busy(s)) \in Nat /\ Cardinality(Running(s)) \in Nat
      /\ shutdown[s].toProcess \in Nat /\ shutdown[s].processed \in Nat
  BY CountsFinite DEF TypeOK, Shutdown
<1>2. DrainLeft(s) \in Int
  BY <1>1 DEF DrainLeft
<1>3. CASE \E i \in 1..Concurrency : DrainStep(<<s, i>>)
  <2>1. DrainLeft(s)' < DrainLeft(s)
    BY <1>3, WorkerStepCounts
  <2>2. DrainLeft(s)' \in Int
    <3>1. shutdown'[s].toProcess \in Nat /\ shutdown'[s].processed \in Nat
      BY TypeInductive DEF TypeOK, Shutdown
    <3>2. Busy(s)' \subseteq 1..Concurrency /\ Running(s)' \subseteq 1..Concurrency
      BY DEF Busy, Running
    <3>3. Cardinality(Busy(s))' \in Nat /\ Cardinality(Running(s))' \in Nat
      BY <3>2, SomeWorkers
    <3> QED BY <3>1, <3>3 DEF DrainLeft
  <2> QED BY <1>2, <2>1, <2>2
<1>4. CASE \E w \in DrainWorkers : DrainStep(w) /\ w[1] # s
  <2>1. PICK w \in DrainWorkers : DrainStep(w) /\ w[1] # s
    BY <1>4
  <2>2. w[1] \in Shutdowns /\ w[2] \in 1..Concurrency /\ DrainStep(<<w[1], w[2]>>)
    BY <2>1, DrainWorkerIs
  <2>3. DrainLeft(s)' = DrainLeft(s)
    BY <2>1, <2>2, WorkerStepCounts
  <2> QED BY <1>2, <1>3, <2>3
<1>5. CASE \A w \in DrainWorkers : ~DrainStep(w)
  <2>1. \A i \in 1..Concurrency : ~DrainStep(<<s, i>>)
    BY <1>5, DrainWorkerOf
  <2>2. DrainLeft(s)' = DrainLeft(s)
    BY <1>0, <1>5, OtherStepCounts
  <2>3. DrainLeft(s)' <= DrainLeft(s)
    BY <1>2, <2>2
  <2> QED BY <2>1, <2>3
<1>6. ASSUME NEW w \in DrainWorkers, DrainStep(w), w[1] = s
      PROVE  \E i \in 1..Concurrency : DrainStep(<<s, i>>)
  BY <1>6, DrainWorkerIs
<1> QED BY <1>3, <1>4, <1>5, <1>6

\* A drain comes to an end: what it has left is a number of steps that every
\* step of its workers lowers and that nothing raises while it is under way.
\* The settling of a handler is such a step; that it is taken is assumed by
\* DrainEnds, not by the code.
THEOREM DrainsComeToAnEnd ==
    Spec => [](\A s \in Shutdowns : DrainLeft(s) \in Nat) /\ DrainsProgress
<1>1. TypeOK => \A s \in Shutdowns : DrainLeft(s) \in Nat
  <2> SUFFICES ASSUME TypeOK, NEW s \in Shutdowns
               PROVE  DrainLeft(s) \in Nat
    OBVIOUS
  <2>1. /\ shutdown[s].toProcess \in Nat /\ shutdown[s].processed \in Nat
        /\ shutdown[s].processed <= shutdown[s].toProcess
    BY DEF TypeOK, Shutdown
  <2> QED BY <2>1, CountsFinite DEF DrainLeft
<1>2. TypeOK /\ [Next]_vars => [\A s \in Shutdowns : DrainNearer(s)]_vars
  BY DrainStepsNearer
<1> QED BY <1>1, <1>2, TypeCorrect, PTL DEF Spec, DrainsProgress
=============================================================================
