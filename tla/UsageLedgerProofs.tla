-------------------------- MODULE UsageLedgerProofs --------------------------
(***************************************************************************)
(* What UsageLedger promises, proved for every number of requests, every   *)
(* sharing of ids between them, every quota and any number of faults.      *)
(* First the course of one request: when its stream can still be finalized *)
(* and when its recording can still count.  From it follow that a stream   *)
(* is finalized exactly once, that an id is counted twice only by          *)
(* recordings that overlapped, and, by counting the requests counted, how  *)
(* far the counters and the quota can be off.                              *)
(***************************************************************************)
EXTENDS UsageLedger, FiniteSetTheorems, TLAPS

\* The stream of request r: who can still finalize it.
StreamCourse(r) ==
  /\ stream[r].finals = IF stream[r].streamClosed THEN 1 ELSE 0
  /\ request[r] \notin {"streaming", "lost"} =>
       ~stream[r].streamClosed /\ stream[r].client = "there" /\ stream[r].cancel = "none"
  /\ stream[r].loop = "reading" => request[r] = "streaming"
  /\ stream[r].cancel = "waiting" => request[r] = "streaming"
  /\ request[r] = "streaming" /\ ~stream[r].streamClosed =>
       /\ stream[r].client = "there" => stream[r].loop = "reading"
       /\ stream[r].client = "gone" => stream[r].cancel = "waiting"

\* The recording of request r: whether it is counted yet.
RecordingCourse(r) ==
  /\ request[r] \in {"new", "refused", "serving"} => recording[r] = "none"
  /\ request[r] = "streaming" /\ ~stream[r].streamClosed => recording[r] = "none"
  /\ recording[r] \in {"none", "lookup", "commit"} => r \notin counted
  /\ recording[r] \in {"none", "lookup", "commit", "again"} => r \notin countedAgain
  /\ r \in counted => usage[IdOf[r]] # NoUsage

Course == TypeOK /\ \A r \in Requests : StreamCourse(r) /\ RecordingCourse(r)

\* The requests that are counted, or will be unless something fails.
Claims == counted \union {r \in Requests : recording[r] = "commit"}

ClaimedOnce ==
  \A r, q \in Claims : r # q /\ IdOf[r] = IdOf[q] => r \in contested \/ q \in contested

\* The counters are the numbers of requests counted.
Counters ==
  /\ IsFiniteSet(Documented) /\ Cardinality(Documented) <= projectRequests
  /\ projectRequests = Cardinality(counted)
  /\ orgRequests = Cardinality(counted) + Cardinality(countedAgain)

\* Nobody is refused by the quota before half of its requests were begun.
RefusedAfterHalf ==
  \A r \in Requests : request[r] = "refused" => 2 * Cardinality(Begun) >= Quota

\* The quota is compared with a number of the past, or with none.
Quotas ==
  /\ copy # NoCopy => copy <= orgRequests
  /\ RefusedAfterHalf

-----------------------------------------------------------------------------
(* The course of a request. *)

LEMMA InitCourse == Init => Course
  BY UsageAssumption
  DEF Init, Course, TypeOK, StreamCourse, RecordingCourse, NoStream, Streams, NoCopy

USE DEF Fault, ledger, NoCopy

\* A request is admitted, answered or turned away.
LEMMA ReplyCourse ==
  ASSUME Course, NEW r \in Requests, Admit(r) \/ Reply(r)
  PROVE  Course'
<1>1. TypeOK'
  <2>1. CASE Admit(r)
    <3>1. faults' \in 0..MaxFaults
      BY <2>1, UsageAssumption DEF Admit, OrganizationSeen, Course, TypeOK
    <3>2. copy' \in Nat \union {NoCopy}
      BY <2>1 DEF Admit, OrganizationSeen, Course, TypeOK
    <3> QED  BY <2>1, <3>1, <3>2 DEF Admit, Course, TypeOK
  <2>2. CASE TurnAway(r) \/ Answer(r)
    BY <2>2 DEF TurnAway, Answer, Course, TypeOK
  <2>3. CASE OpenStream(r)
    <3>1. stream' \in [Requests -> Streams]
      BY <2>3 DEF OpenStream, Course, TypeOK, Streams
    <3> QED  BY <2>3, <3>1 DEF OpenStream, Course, TypeOK
  <2> QED  BY <2>1, <2>2, <2>3 DEF Reply
<1>2. ASSUME NEW q \in Requests PROVE StreamCourse(q)'
  BY DEF Admit, Reply, TurnAway, Answer, OpenStream, Course, TypeOK, StreamCourse,
         Streams
<1>3. ASSUME NEW q \in Requests PROVE RecordingCourse(q)'
  BY DEF Admit, Reply, TurnAway, Answer, OpenStream, Course, TypeOK, RecordingCourse,
         StreamCourse, Streams
<1> QED  BY <1>1, <1>2, <1>3 DEF Course

\* What finalizing a stream, and each of the callbacks, does to its fields.
LEMMA FinalizedStream ==
  ASSUME NEW s \in Streams
  PROVE  /\ Finalized(s) \in Streams
         /\ Finalized(s).streamClosed
         /\ Finalized(s).finals = IF s.streamClosed THEN s.finals ELSE s.finals + 1
         /\ Finalized(s).loop = s.loop /\ Finalized(s).client = s.client
         /\ Finalized(s).cancel = s.cancel
<1>1. CASE s.streamClosed
  <2>1. Finalized(s) = s
    BY <1>1 DEF Finalized
  <2> QED  BY <1>1, <2>1
<1>2. CASE ~s.streamClosed
  <2> DEFINE t == [s EXCEPT !.streamClosed = TRUE, !.finals = @ + 1]
  <2>1. Finalized(s) = t
    BY <1>2 DEF Finalized
  <2>2. t.streamClosed
    BY DEF Streams
  <2>3. t.finals = s.finals + 1
    BY DEF Streams
  <2>4. t.loop = s.loop /\ t.client = s.client /\ t.cancel = s.cancel
    BY DEF Streams
  <2>5. t \in Streams
    <3>1. PICK n \in Nat : n = s.finals + 1
      BY DEF Streams
    <3>2. PICK b \in BOOLEAN : b = TRUE
      OBVIOUS
    <3>3. t = [s EXCEPT !.streamClosed = b, !.finals = n]
      BY <3>1, <3>2
    <3> HIDE DEF t
    <3> QED  BY <3>3 DEF Streams
  <2> HIDE DEF t
  <2> QED  BY <1>2, <2>1, <2>2, <2>3, <2>4, <2>5
<1> QED  BY <1>1, <1>2

LEMMA LoopOver ==
  ASSUME NEW s \in Streams
  PROVE  LET t == [s EXCEPT !.loop = "over"] IN
         /\ t \in Streams /\ t.loop = "over" /\ t.client = s.client /\ t.cancel = s.cancel
         /\ t.streamClosed = s.streamClosed /\ t.finals = s.finals
  BY DEF Streams

LEMMA CancelOver ==
  ASSUME NEW s \in Streams
  PROVE  LET t == [s EXCEPT !.cancel = "over"] IN
         /\ t \in Streams /\ t.loop = s.loop /\ t.client = s.client /\ t.cancel = "over"
         /\ t.streamClosed = s.streamClosed /\ t.finals = s.finals
  BY DEF Streams

\* The stream of a request ends or its client leaves.
LEMMA StreamingCourse ==
  ASSUME Course, NEW r \in Requests, LoopEnds(r) \/ ClientLeaves(r) \/ CancelEnds(r)
  PROVE  Course'
<1>1. /\ request[r] = "streaming" /\ StreamCourse(r) /\ RecordingCourse(r)
      /\ stream[r] \in Streams
  BY DEF LoopEnds, ClientLeaves, CancelEnds, Course, StreamCourse, TypeOK
<1>2. UNCHANGED <<request, ledger, copy, faults>>
  BY DEF LoopEnds, ClientLeaves, CancelEnds
<1> DEFINE Write(s, step) ==
      /\ stream' = [stream EXCEPT ![r] = s]
      /\ recording' = [recording EXCEPT ![r] = step]
\* The fields a step may change, and what they have to satisfy.
<1>3. ASSUME NEW s \in Streams, NEW step \in {"lookup", recording[r]}, Write(s, step),
             s.finals = IF s.streamClosed THEN 1 ELSE 0,
             step = "lookup" => recording[r] \in {"none", "lookup"},
             s.streamClosed \/ (step = recording[r] /\ ~stream[r].streamClosed),
             ~s.streamClosed => /\ s.client = "there" => s.loop = "reading"
                                /\ s.client = "gone" => s.cancel = "waiting"
      PROVE  Course'
  <2>1. /\ stream' \in [Requests -> Streams] /\ stream'[r] = s
        /\ recording' \in [Requests -> {"none", "lookup", "commit", "again", "over", "lost"}]
        /\ recording'[r] = step
        /\ \A q \in Requests \ {r} : stream'[q] = stream[q] /\ recording'[q] = recording[q]
    BY <1>3 DEF Course, TypeOK
  <2>2. TypeOK'
    BY <1>2, <2>1 DEF Course, TypeOK
  <2>3. StreamCourse(r)'
    BY <1>1, <1>2, <1>3, <2>1 DEF StreamCourse
  <2>4. RecordingCourse(r)'
    BY <1>1, <1>2, <1>3, <2>1 DEF RecordingCourse
  <2>5. ASSUME NEW q \in Requests \ {r} PROVE StreamCourse(q)' /\ RecordingCourse(q)'
    BY <1>2, <2>1 DEF Course, StreamCourse, RecordingCourse
  <2> QED  BY <2>2, <2>3, <2>4, <2>5 DEF Course
<1>4. /\ recording = [recording EXCEPT ![r] = recording[r]]
      /\ Recorded(r) = [recording EXCEPT ![r] = IF stream[r].streamClosed
                                                THEN recording[r] ELSE "lookup"]
  BY DEF Recorded, Course, TypeOK
<1> DEFINE step == IF stream[r].streamClosed THEN recording[r] ELSE "lookup"
<1>5. ~stream[r].streamClosed => recording[r] = "none"
  BY <1>1 DEF RecordingCourse
<1>6. stream[r].finals = IF stream[r].streamClosed THEN 1 ELSE 0
  BY <1>1 DEF StreamCourse
<1>7. CASE LoopEnds(r) /\ stream[r].client = "there"
  <2> DEFINE s == [Finalized(stream[r]) EXCEPT !.loop = "over"]
  <2>1. /\ s \in Streams /\ s.streamClosed /\ s.finals = 1
    BY <1>1, <1>6, FinalizedStream, LoopOver
  <2>2. stream' = [stream EXCEPT ![r] = s] /\ recording' = [recording EXCEPT ![r] = step]
    BY <1>4, <1>7 DEF LoopEnds
  <2> HIDE DEF s
  <2> QED  BY <1>3, <1>5, <2>1, <2>2
<1>8. CASE CancelEnds(r)
  <2> DEFINE s == [Finalized(stream[r]) EXCEPT !.cancel = "over"]
  <2>1. /\ s \in Streams /\ s.streamClosed /\ s.finals = 1
    BY <1>1, <1>6, FinalizedStream, CancelOver
  <2>2. stream' = [stream EXCEPT ![r] = s] /\ recording' = [recording EXCEPT ![r] = step]
    BY <1>4, <1>8 DEF CancelEnds
  <2> HIDE DEF s
  <2> QED  BY <1>3, <1>5, <2>1, <2>2
<1>9. CASE LoopEnds(r) /\ stream[r].client # "there"
  <2> DEFINE s == [stream[r] EXCEPT !.loop = "over"]
  <2>1. /\ s \in Streams /\ s.streamClosed = stream[r].streamClosed
        /\ s.finals = stream[r].finals /\ s.client = stream[r].client
        /\ s.cancel = stream[r].cancel
    BY <1>1, LoopOver
  <2>2. stream' = [stream EXCEPT ![r] = s] /\ recording' = [recording EXCEPT ![r] = recording[r]]
    BY <1>4, <1>9 DEF LoopEnds
  <2>3. ~s.streamClosed => s.client = "gone" /\ s.cancel = "waiting"
    BY <1>1, <1>9, <2>1 DEF StreamCourse, Streams
  <2> HIDE DEF s
  <2> QED  BY <1>3, <1>5, <1>6, <1>9, <2>1, <2>2, <2>3
<1>10. CASE ClientLeaves(r)
  <2> DEFINE s == [stream[r] EXCEPT !.client = "gone", !.cancel = "waiting"]
  <2>1. /\ s \in Streams /\ s.streamClosed = stream[r].streamClosed
        /\ s.finals = stream[r].finals /\ s.client = "gone" /\ s.cancel = "waiting"
    BY <1>1 DEF Streams
  <2>2. stream' = [stream EXCEPT ![r] = s] /\ recording' = [recording EXCEPT ![r] = recording[r]]
    BY <1>1, <1>4, <1>10 DEF ClientLeaves, Course, TypeOK
  <2> HIDE DEF s
  <2> QED  BY <1>3, <1>5, <1>6, <2>1, <2>2
<1> QED  BY <1>7, <1>8, <1>9, <1>10

\* A recording takes a step.
LEMMA RecordingKeepsCourse ==
  ASSUME Course, NEW r \in Requests, Recording(r)
  PROVE  Course'
<1>1. TypeOK'
  BY UsageAssumption
  DEF Recording, LookUp, LookUpFails, Commit, CommitFails, CountAgain, CountAgainFails,
      Course, TypeOK
<1>2. ASSUME NEW q \in Requests PROVE StreamCourse(q)'
  BY DEF Recording, LookUp, LookUpFails, Commit, CommitFails, CountAgain, CountAgainFails,
         Course, StreamCourse
<1>3. ASSUME NEW q \in Requests PROVE RecordingCourse(q)'
  BY UsageAssumption
  DEF Recording, LookUp, LookUpFails, Commit, CommitFails, CountAgain, CountAgainFails,
      Course, TypeOK, RecordingCourse
<1> QED  BY <1>1, <1>2, <1>3 DEF Course

\* The process dies: nothing of it can finalize or count any more.
LEMMA CrashCourse == ASSUME Course, Crash PROVE Course'
<1>1. ASSUME NEW q \in Requests
      PROVE  /\ stream'[q] \in Streams
             /\ stream'[q].loop = "over" /\ stream'[q].cancel # "waiting"
             /\ stream'[q].finals = stream[q].finals
             /\ stream'[q].streamClosed = stream[q].streamClosed
             /\ stream'[q].client = stream[q].client
             /\ stream[q].cancel = "none" => stream'[q].cancel = "none"
  <2>1. stream[q] \in Streams
    BY DEF Course, TypeOK
  <2>2. stream'[q] = [stream[q] EXCEPT !.loop = "over",
                        !.cancel = IF @ = "waiting" THEN "lost" ELSE @]
    BY DEF Crash
  <2>3. CASE stream[q].cancel = "waiting"
    BY <2>1, <2>2, <2>3 DEF Streams
  <2>4. CASE stream[q].cancel # "waiting"
    <3>1. stream'[q] = [stream[q] EXCEPT !.loop = "over", !.cancel = stream[q].cancel]
      BY <2>2, <2>4
    <3> QED  BY <2>1, <2>4, <3>1 DEF Streams
  <2> QED  BY <2>3, <2>4
<1>2. stream' \in [Requests -> Streams]
  BY <1>1 DEF Crash
<1>3. TypeOK'
  <2>1. request' \in [Requests -> {"new", "refused", "serving", "streaming", "over", "lost"}]
    BY DEF Crash, Course, TypeOK
  <2>2. recording' \in [Requests -> {"none", "lookup", "commit", "again", "over", "lost"}]
    BY DEF Crash, Course, TypeOK
  <2>3. faults' \in 0..MaxFaults
    <3>1. faults \in 0..MaxFaults /\ faults < MaxFaults /\ faults' = faults + 1
      BY DEF Crash, Course, TypeOK
    <3> QED  BY <3>1, UsageAssumption
  <2> QED  BY <1>2, <2>1, <2>2, <2>3 DEF Crash, Course, TypeOK
<1>4. ASSUME NEW q \in Requests PROVE StreamCourse(q)' /\ RecordingCourse(q)'
  <2>1. StreamCourse(q) /\ RecordingCourse(q)
    BY DEF Course
  <2>2. /\ request'[q] = IF request[q] \in {"serving", "streaming"} THEN "lost" ELSE request[q]
        /\ recording'[q] = IF recording[q] \in {"lookup", "commit", "again"}
                           THEN "lost" ELSE recording[q]
        /\ UNCHANGED ledger
    BY DEF Crash
  <2>3. StreamCourse(q)'
    BY <1>1, <2>1, <2>2 DEF StreamCourse
  <2>4. RecordingCourse(q)'
    BY <2>1, <2>2 DEF RecordingCourse
  <2> QED  BY <2>3, <2>4
<1> QED  BY <1>3, <1>4 DEF Course

LEMMA NextCourse == Course /\ [Next]_vars => Course'
<1> SUFFICES ASSUME Course, [Next]_vars PROVE Course'
  OBVIOUS
<1>1. CASE UNCHANGED vars
  BY <1>1 DEF vars, Course, TypeOK, StreamCourse, RecordingCourse
<1>2. CASE Expire
  BY <1>2 DEF Expire, Course, TypeOK, StreamCourse, RecordingCourse
<1> QED
  BY <1>1, <1>2, ReplyCourse, StreamingCourse, RecordingKeepsCourse, CrashCourse DEF Next

LEMMA CourseAlways == Spec => []Course
  BY InitCourse, NextCourse, PTL DEF Spec

\* Every request, stream and recording stays within the states of the code.
THEOREM TypeCorrect == Spec => []TypeOK
  BY CourseAlways, PTL DEF Course

\* A stream is finalized at most once, and exactly once when it is over.
THEOREM StreamsMetered == Spec => []StreamsAreMetered
<1>1. Course => StreamsAreMetered
  BY DEF Course, StreamsAreMetered, StreamCourse, TypeOK, Streams
<1> QED  BY <1>1, CourseAlways, PTL

-----------------------------------------------------------------------------
(* CountedOnce. *)

LEMMA NextClaimed == Course /\ ClaimedOnce /\ [Next]_vars => ClaimedOnce'
<1> SUFFICES ASSUME Course, ClaimedOnce, [Next]_vars PROVE ClaimedOnce'
  OBVIOUS
<1>1. ASSUME Claims' \subseteq Claims, contested \subseteq contested'
      PROVE  ClaimedOnce'
  BY <1>1 DEF ClaimedOnce
<1>2. ASSUME NEW r \in Requests, LookUp(r)
      PROVE  ClaimedOnce'
  <2>1. CASE usage[IdOf[r]] # NoUsage
    BY <1>1, <1>2, <2>1 DEF LookUp, Claims, Course, TypeOK
  <2>2. CASE usage[IdOf[r]] = NoUsage
    <3>1. Claims' = Claims \union {r} /\ contested \subseteq contested'
      BY <1>2, <2>2 DEF LookUp, Claims, Course, TypeOK
    <3>2. ASSUME NEW q \in Claims, q # r, IdOf[q] = IdOf[r]
          PROVE  r \in contested'
      <4>1. q \in Requests /\ q \notin counted
        BY <2>2, <3>2 DEF Claims, Course, RecordingCourse, TypeOK
      <4>2. q \in Rivals(r)
        BY <3>2, <4>1 DEF Claims, Rivals
      <4> QED  BY <1>2, <2>2, <4>2 DEF LookUp
    <3> QED  BY <3>1, <3>2 DEF ClaimedOnce
  <2> QED  BY <2>1, <2>2
<1>3. CASE UNCHANGED vars \/ Expire
  BY <1>1, <1>3 DEF vars, Expire, Claims
<1>4. ASSUME NEW r \in Requests, Admit(r) \/ Reply(r)
      PROVE  ClaimedOnce'
  BY <1>1, <1>4
  DEF Admit, Reply, TurnAway, Answer, OpenStream, Claims, Course, TypeOK
<1>5. ASSUME NEW r \in Requests, LoopEnds(r) \/ ClientLeaves(r) \/ CancelEnds(r)
      PROVE  ClaimedOnce'
  BY <1>1, <1>5
  DEF LoopEnds, ClientLeaves, CancelEnds, Recorded, Claims, Course, TypeOK
<1>6. ASSUME NEW r \in Requests,
             LookUpFails(r) \/ Commit(r) \/ CommitFails(r) \/ CountAgain(r) \/ CountAgainFails(r)
      PROVE  ClaimedOnce'
  BY <1>1, <1>6
  DEF LookUpFails, Commit, CommitFails, CountAgain, CountAgainFails, Claims, Course, TypeOK
<1>7. CASE Crash
  BY <1>1, <1>7 DEF Crash, Claims
<1> QED
  BY <1>2, <1>3, <1>4, <1>5, <1>6, <1>7 DEF Next, Recording

\* A request id is counted twice only by recordings that overlapped.
THEOREM IdsAreCountedOnce == Spec => []CountedOnce
<1>1. Init => ClaimedOnce
  BY DEF Init, ClaimedOnce, Claims
<1>2. ClaimedOnce => CountedOnce
  BY DEF ClaimedOnce, CountedOnce, Claims
<1> QED  BY <1>1, <1>2, NextClaimed, CourseAlways, PTL DEF Spec

-----------------------------------------------------------------------------
(* CountersInStep and RefusedAfterHalf. *)

\* Sets of requests are finite, and those that are counted were begun.
LEMMA BegunCovers ==
  ASSUME Course
  PROVE  /\ IsFiniteSet(Begun) /\ IsFiniteSet(counted) /\ IsFiniteSet(countedAgain)
         /\ Cardinality(counted) \in Nat /\ Cardinality(countedAgain) \in Nat
         /\ Cardinality(Begun) \in Nat
         /\ Cardinality(counted) <= Cardinality(Begun)
         /\ Cardinality(countedAgain) <= Cardinality(Begun)
<1>1. Begun \subseteq Requests /\ counted \subseteq Begun /\ countedAgain \subseteq Begun
  BY DEF Course, TypeOK, RecordingCourse, Begun
<1>2. IsFiniteSet(Begun)
  BY <1>1, UsageAssumption, FS_Subset
<1> QED  BY <1>1, <1>2, FS_Subset, FS_CardinalityType

LEMMA NextCounters == Course /\ Counters /\ [Next]_vars => Counters'
<1> SUFFICES ASSUME Course, Counters, [Next]_vars PROVE Counters'
  OBVIOUS
<1>1. ASSUME UNCHANGED <<usage, projectRequests, orgRequests, counted, countedAgain>>
      PROVE  Counters'
  BY <1>1 DEF Counters, Documented
<1>2. ASSUME NEW r \in Requests, Commit(r)
      PROVE  Counters'
  <2>1. r \notin counted /\ counted' = counted \union {r} /\ countedAgain' = countedAgain
    BY <1>2 DEF Commit, Course, RecordingCourse
  <2>2. Cardinality(counted') = Cardinality(counted) + 1
    BY <2>1, BegunCovers, FS_AddElement
  <2>3. Documented' = Documented \union {IdOf[r]}
    <3>1. IdOf[r] \in Ids /\ r # NoUsage
      BY UsageAssumption
    <3>2. \A i \in Ids : usage'[i] = IF i = IdOf[r] THEN r ELSE usage[i]
      BY <1>2 DEF Commit, Course, TypeOK
    <3> QED  BY <3>1, <3>2 DEF Documented
  <2>4. /\ IsFiniteSet(Documented')
        /\ Cardinality(Documented') <= Cardinality(Documented) + 1
    <3>1. IsFiniteSet(Documented) /\ Cardinality(Documented) \in Nat
      BY FS_CardinalityType DEF Counters
    <3> QED  BY <2>3, <3>1, FS_AddElement
  <2>5. projectRequests' = projectRequests + 1 /\ orgRequests' = orgRequests + 1
    BY <1>2 DEF Commit
  <2>6. Cardinality(Documented) \in Nat /\ Cardinality(Documented') \in Nat
    BY <2>4, FS_CardinalityType DEF Counters
  <2>7. /\ projectRequests' = Cardinality(counted')
        /\ orgRequests' = Cardinality(counted') + Cardinality(countedAgain')
    BY <2>1, <2>2, <2>5, BegunCovers DEF Counters
  <2>8. Cardinality(Documented') <= projectRequests'
    BY <2>4, <2>5, <2>6 DEF Counters, Course, TypeOK
  <2> QED  BY <2>4, <2>7, <2>8 DEF Counters
<1>3. ASSUME NEW r \in Requests, CountAgain(r)
      PROVE  Counters'
  <2>1. r \notin countedAgain /\ countedAgain' = countedAgain \union {r}
    BY <1>3 DEF CountAgain, Course, RecordingCourse
  <2>2. Cardinality(countedAgain') = Cardinality(countedAgain) + 1
    BY <2>1, BegunCovers, FS_AddElement
  <2>3. orgRequests' = orgRequests + 1 /\ UNCHANGED <<usage, projectRequests, counted>>
    BY <1>3 DEF CountAgain
  <2> QED  BY <2>2, <2>3, BegunCovers DEF Counters, Documented
<1>4. ASSUME NEW r \in Requests, Admit(r) \/ Reply(r) \/ LoopEnds(r) \/ ClientLeaves(r)
                                 \/ CancelEnds(r)
      PROVE  Counters'
  BY <1>1, <1>4
  DEF Admit, Reply, TurnAway, Answer, OpenStream, LoopEnds, ClientLeaves, CancelEnds
<1>5. ASSUME NEW r \in Requests, LookUp(r) \/ LookUpFails(r) \/ CommitFails(r)
                                 \/ CountAgainFails(r)
      PROVE  Counters'
  BY <1>1, <1>5 DEF LookUp, LookUpFails, CommitFails, CountAgainFails
<1>6. CASE Expire \/ Crash \/ UNCHANGED vars
  BY <1>1, <1>6 DEF Expire, Crash, vars
<1> QED  BY <1>2, <1>3, <1>4, <1>5, <1>6 DEF Next, Recording

LEMMA CountersImply == Course /\ Counters => CountersInStep
  BY BegunCovers DEF Counters, CountersInStep

LEMMA CountersAlways == Spec => [](Course /\ Counters)
<1>1. Init => Counters
  <2> SUFFICES ASSUME Init PROVE Counters
    OBVIOUS
  <2>1. Documented = {} /\ counted = {} /\ countedAgain = {}
    BY DEF Init, Documented
  <2> QED  BY <2>1, FS_EmptySet DEF Init, Counters
<1> QED  BY <1>1, InitCourse, NextCourse, NextCounters, PTL DEF Spec

\* No document without its count, and nothing counted more than twice.
THEOREM CountersAreInStep == Spec => []CountersInStep
  BY CountersAlways, CountersImply, PTL

\* Counters only grow, and so does the set of recordings that were begun.
LEMMA NextQuotas == Course /\ Counters /\ Quotas /\ [Next]_vars /\ Course' => Quotas'
<1> SUFFICES ASSUME Course, Counters, Quotas, [Next]_vars, Course' PROVE Quotas'
  OBVIOUS
<1> USE UsageAssumption
<1>1. orgRequests <= orgRequests' /\ orgRequests \in Nat /\ orgRequests' \in Nat
      /\ copy \in Nat \union {NoCopy}
  <2>1. orgRequests \in Nat /\ orgRequests' \in Nat /\ copy \in Nat \union {NoCopy}
    BY DEF Course, TypeOK
  <2>2. orgRequests' \in {orgRequests, orgRequests + 1}
    BY DEF Next, Admit, Reply, TurnAway, Answer, OpenStream, LoopEnds, ClientLeaves,
           CancelEnds, Recording, LookUp, LookUpFails, Commit, CommitFails, CountAgain,
           CountAgainFails, Expire, Crash, vars
  <2> QED  BY <2>1, <2>2
<1>2. ASSUME NEW q \in Requests, recording[q] # "none"
      PROVE  recording'[q] # "none"
  <2> USE <1>2 DEF Course, TypeOK
  <2>1. ASSUME NEW r \in Requests, Admit(r) \/ Reply(r) \/ ClientLeaves(r)
        PROVE  recording'[q] # "none"
    BY <2>1 DEF Admit, Reply, TurnAway, Answer, OpenStream, ClientLeaves
  <2>2. ASSUME NEW r \in Requests, LoopEnds(r)
        PROVE  recording'[q] # "none"
    BY <2>2 DEF LoopEnds, Recorded
  <2>3. ASSUME NEW r \in Requests, CancelEnds(r)
        PROVE  recording'[q] # "none"
    BY <2>3 DEF CancelEnds, Recorded
  <2>4. ASSUME NEW r \in Requests, LookUp(r) \/ LookUpFails(r) \/ Commit(r)
        PROVE  recording'[q] # "none"
    BY <2>4 DEF LookUp, LookUpFails, Commit
  <2>5. ASSUME NEW r \in Requests, CommitFails(r) \/ CountAgain(r) \/ CountAgainFails(r)
        PROVE  recording'[q] # "none"
    BY <2>5 DEF CommitFails, CountAgain, CountAgainFails
  <2>6. CASE Crash
    BY <2>6 DEF Crash
  <2>7. CASE Expire \/ UNCHANGED vars
    BY <2>7 DEF Expire, vars
  <2> QED  BY <2>1, <2>2, <2>3, <2>4, <2>5, <2>6, <2>7 DEF Next, Recording
<1>3. Cardinality(Begun) \in Nat /\ Cardinality(Begun') \in Nat
      /\ Cardinality(Begun) <= Cardinality(Begun')
  <2>1. Begun \subseteq Begun'
    BY <1>2 DEF Begun
  <2>2. Begun' \subseteq Requests
    BY DEF Begun
  <2> QED  BY <2>1, <2>2, FS_Subset, FS_CardinalityType
<1>4. orgRequests <= 2 * Cardinality(Begun)
  BY CountersImply DEF CountersInStep
\* Who is refused now was refused before, or saw a number of the past.
<1>5. CASE \E r \in Requests : Admit(r)
  <2>1. PICK r \in Requests : Admit(r)
    BY <1>5
  <2>2. PICK count \in {0, orgRequests} \union ({copy} \ {NoCopy}) :
          /\ OrganizationSeen(count)
          /\ request' = [request EXCEPT ![r] = IF count >= Quota THEN "refused" ELSE "serving"]
    BY <2>1 DEF Admit
  <2>3. count \in Nat /\ count <= orgRequests
    BY <1>1, <2>2 DEF Quotas
  <2>4. UNCHANGED orgRequests /\ Begun' = Begun
    BY <2>1 DEF Admit, Begun
  <2>5. copy' # NoCopy => copy' <= orgRequests'
    BY <2>2, <2>3, <2>4 DEF OrganizationSeen, Quotas
  <2>6. ASSUME NEW q \in Requests, request'[q] = "refused"
        PROVE  2 * Cardinality(Begun') >= Quota
    <3>1. CASE q = r
      <4>1. count >= Quota
        BY <2>2, <2>6, <3>1 DEF Course, TypeOK
      <4> QED  BY <1>3, <1>4, <1>1, <2>3, <2>4, <4>1
    <3>2. CASE q # r
      BY <2>2, <2>4, <2>6, <3>2 DEF Course, TypeOK, Quotas, RefusedAfterHalf
    <3> QED  BY <3>1, <3>2
  <2> QED  BY <2>5, <2>6 DEF Quotas, RefusedAfterHalf
<1>6. CASE ~\E r \in Requests : Admit(r)
  <2>1. copy' \in {copy, NoCopy}
    BY <1>6
    DEF Next, Reply, TurnAway, Answer, OpenStream, LoopEnds, ClientLeaves, CancelEnds,
        Recording, LookUp, LookUpFails, Commit, CommitFails, CountAgain, CountAgainFails,
        Expire, Crash, vars
  <2>2. ASSUME NEW q \in Requests, request'[q] = "refused"
        PROVE  request[q] = "refused"
    <3> USE <2>2 DEF Course, TypeOK
    <3>1. ASSUME NEW r \in Requests, Reply(r)
          PROVE  request[q] = "refused"
      BY <3>1 DEF Reply, TurnAway, Answer, OpenStream
    <3>2. ASSUME NEW r \in Requests,
                 LoopEnds(r) \/ ClientLeaves(r) \/ CancelEnds(r) \/ Recording(r)
          PROVE  request[q] = "refused"
      BY <3>2
      DEF LoopEnds, ClientLeaves, CancelEnds, Recording, LookUp, LookUpFails, Commit,
          CommitFails, CountAgain, CountAgainFails
    <3>3. CASE Crash
      BY <3>3 DEF Crash
    <3>4. CASE Expire \/ UNCHANGED vars
      BY <3>4 DEF Expire, vars
    <3> QED  BY <1>6, <3>1, <3>2, <3>3, <3>4 DEF Next
  <2>3. copy' # NoCopy => copy' <= orgRequests'
    BY <1>1, <2>1 DEF Quotas
  <2>4. ASSUME NEW q \in Requests, request'[q] = "refused"
        PROVE  2 * Cardinality(Begun') >= Quota
    <3>1. 2 * Cardinality(Begun) >= Quota
      BY <2>2, <2>4 DEF Quotas, RefusedAfterHalf
    <3> QED  BY <1>3, <3>1
  <2> QED  BY <2>3, <2>4 DEF Quotas, RefusedAfterHalf
<1> QED  BY <1>5, <1>6

\* The quota is cut short, QuotaIsGranted does not hold; but by a half at most:
\* each recording counts its request twice (usage.service.ts:165 and :182), and
\* nothing, no failure, crash or stale copy, counts it more often.
THEOREM QuotaLastsHalf == Spec => []RefusedAfterHalf
<1>1. Init => Quotas
  BY DEF Init, Quotas, RefusedAfterHalf
<1>2. Quotas => RefusedAfterHalf
  BY DEF Quotas
<1> QED
  BY <1>1, <1>2, NextQuotas, NextCourse, CountersAlways, PTL DEF Spec
-----------------------------------------------------------------------------
(* Streams come to an end: the safety half of StreamsAreSettled.             *)

\* A stream that is finalized is being recorded, or was.
FinalizedIsRecorded ==
  \A r \in Requests :
    request[r] = "streaming" /\ stream[r].streamClosed => recording[r] # "none"

\* As long as the usage of a stream is not settled, somebody works on it: its
\* loop, the callback of the client that left, or its recording.
StreamsAreAttended ==
  \A r \in Requests : request[r] = "streaming" =>
    \/ stream[r].loop = "reading" \/ stream[r].cancel = "waiting"
    \/ recording[r] \in {"lookup", "commit", "again"}
    \/ recording[r] \in {"over", "lost"}

\* What a stream can still do, the leaving of its client included.
RecordingLeft(r) ==
  IF recording[r] = "none" THEN 4
  ELSE IF recording[r] = "lookup" THEN 3
  ELSE IF recording[r] = "commit" THEN 2
  ELSE IF recording[r] = "again" THEN 1 ELSE 0

StreamLeft(r) ==
  RecordingLeft(r)
  + (IF stream[r].loop = "reading" THEN 1 ELSE 0)
  + (IF stream[r].cancel = "waiting" THEN 1 ELSE 0)
  + (IF stream[r].client = "there" THEN 2 ELSE 0)

StreamStep(r) == LoopEnds(r) \/ ClientLeaves(r) \/ CancelEnds(r) \/ Recording(r)

\* Each step of a stream uses up some of it; no other step gives it any back.
StreamNearer(r) ==
  request[r] = "streaming" /\ request'[r] = "streaming" =>
    /\ StreamLeft(r)' <= StreamLeft(r)
    /\ StreamStep(r) => StreamLeft(r)' < StreamLeft(r)

StreamsProgress == [][\A r \in Requests : StreamNearer(r)]_vars

LEMMA LeftIsNatural == ASSUME NEW r \in Requests PROVE StreamLeft(r) \in Nat
<1>1. RecordingLeft(r) \in Nat
  BY DEF RecordingLeft
<1> QED  BY <1>1 DEF StreamLeft

\* Where the fields of the stream of r go in each of its steps.
LEMMA LoopEndsFields ==
  ASSUME TypeOK, NEW r \in Requests, LoopEnds(r)
  PROVE  /\ stream[r].loop = "reading" /\ stream'[r].loop = "over"
         /\ stream'[r].client = stream[r].client
         /\ stream'[r].cancel = stream[r].cancel
         /\ \/ /\ stream'[r].streamClosed = stream[r].streamClosed
               /\ recording' = recording
            \/ /\ ~stream[r].streamClosed /\ stream'[r].streamClosed
               /\ recording' = [recording EXCEPT ![r] = "lookup"]
         /\ \A q \in Requests : q # r => stream'[q] = stream[q]
         /\ UNCHANGED request
<1>1. stream[r] \in Streams
  BY DEF TypeOK
<1>2. /\ stream[r].loop = "reading" /\ UNCHANGED request
      /\ \A q \in Requests : q # r => stream'[q] = stream[q]
  BY DEF LoopEnds, TypeOK
<1>3. CASE stream[r].client = "there"
  <2> DEFINE s == Finalized(stream[r])
  <2>1. /\ stream'[r] = [s EXCEPT !.loop = "over"] /\ recording' = Recorded(r)
    BY <1>3 DEF LoopEnds, TypeOK
  <2>2. /\ s \in Streams /\ s.streamClosed /\ s.client = stream[r].client
        /\ s.cancel = stream[r].cancel
    BY <1>1, FinalizedStream
  <2> HIDE DEF s
  <2>3. /\ stream'[r].loop = "over" /\ stream'[r].client = s.client
        /\ stream'[r].cancel = s.cancel /\ stream'[r].streamClosed = s.streamClosed
    BY <2>1, <2>2, LoopOver
  <2>4. CASE stream[r].streamClosed
    BY <1>2, <2>1, <2>2, <2>3, <2>4 DEF Recorded
  <2>5. CASE ~stream[r].streamClosed
    BY <1>2, <2>1, <2>2, <2>3, <2>5 DEF Recorded
  <2> QED  BY <2>4, <2>5
<1>4. CASE stream[r].client # "there"
  <2>1. /\ stream'[r] = [stream[r] EXCEPT !.loop = "over"] /\ recording' = recording
    BY <1>4 DEF LoopEnds, TypeOK
  <2> QED  BY <1>1, <1>2, <2>1, LoopOver
<1> QED  BY <1>3, <1>4

LEMMA ClientLeavesFields ==
  ASSUME TypeOK, NEW r \in Requests, ClientLeaves(r)
  PROVE  /\ request[r] = "streaming" /\ stream[r].client = "there"
         /\ stream'[r].client = "gone" /\ stream'[r].cancel = "waiting"
         /\ stream'[r].loop = stream[r].loop
         /\ stream'[r].streamClosed = stream[r].streamClosed
         /\ \A q \in Requests : q # r => stream'[q] = stream[q]
         /\ UNCHANGED <<request, recording>>
<1>1. stream[r] \in Streams
  BY DEF TypeOK
<1>2. stream'[r] = [stream[r] EXCEPT !.client = "gone", !.cancel = "waiting"]
  BY DEF ClientLeaves, TypeOK
<1>3. \A q \in Requests : q # r => stream'[q] = stream[q]
  BY DEF ClientLeaves, TypeOK
<1>4. /\ request[r] = "streaming" /\ stream[r].client = "there"
      /\ UNCHANGED <<request, recording>>
  BY DEF ClientLeaves
<1>5. stream'[r].client = "gone" /\ stream'[r].cancel = "waiting"
  BY <1>1, <1>2 DEF Streams
<1>6. /\ stream'[r].loop = stream[r].loop
      /\ stream'[r].streamClosed = stream[r].streamClosed
  BY <1>1, <1>2 DEF Streams
<1> QED  BY <1>3, <1>4, <1>5, <1>6

LEMMA CancelEndsFields ==
  ASSUME TypeOK, NEW r \in Requests, CancelEnds(r)
  PROVE  /\ stream[r].cancel = "waiting" /\ stream'[r].cancel = "over"
         /\ stream'[r].client = stream[r].client
         /\ stream'[r].loop = stream[r].loop
         /\ stream'[r].streamClosed
         /\ \/ stream[r].streamClosed /\ recording' = recording
            \/ /\ ~stream[r].streamClosed
               /\ recording' = [recording EXCEPT ![r] = "lookup"]
         /\ \A q \in Requests : q # r => stream'[q] = stream[q]
         /\ UNCHANGED request
<1>1. stream[r] \in Streams
  BY DEF TypeOK
<1>2. /\ stream[r].cancel = "waiting" /\ UNCHANGED request
      /\ \A q \in Requests : q # r => stream'[q] = stream[q]
  BY DEF CancelEnds, TypeOK
<1> DEFINE s == Finalized(stream[r])
<1>3. /\ stream'[r] = [s EXCEPT !.cancel = "over"] /\ recording' = Recorded(r)
  BY DEF CancelEnds, TypeOK
<1>4. /\ s \in Streams /\ s.streamClosed /\ s.client = stream[r].client
      /\ s.loop = stream[r].loop
  BY <1>1, FinalizedStream
<1> HIDE DEF s
<1>5. /\ stream'[r].loop = s.loop /\ stream'[r].client = s.client
      /\ stream'[r].cancel = "over" /\ stream'[r].streamClosed = s.streamClosed
  BY <1>3, <1>4, CancelOver
<1>6. CASE stream[r].streamClosed
  BY <1>2, <1>3, <1>4, <1>5, <1>6 DEF Recorded
<1>7. CASE ~stream[r].streamClosed
  BY <1>2, <1>3, <1>4, <1>5, <1>7 DEF Recorded
<1> QED  BY <1>6, <1>7

LEMMA RecordingFields ==
  ASSUME TypeOK, NEW r \in Requests, Recording(r)
  PROVE  /\ recording'[r] # "none"
         /\ RecordingLeft(r)' < RecordingLeft(r)
         /\ \A q \in Requests : q # r => recording'[q] = recording[q]
         /\ UNCHANGED <<request, stream>>
<1>1. \/ recording[r] = "lookup" /\ recording' = [recording EXCEPT ![r] = "commit"]
      \/ recording[r] = "lookup" /\ recording' = [recording EXCEPT ![r] = "over"]
      \/ recording[r] = "commit" /\ recording' = [recording EXCEPT ![r] = "again"]
      \/ recording[r] = "again" /\ recording' = [recording EXCEPT ![r] = "over"]
  BY DEF Recording, LookUp, LookUpFails, Commit, CommitFails, CountAgain,
         CountAgainFails
<1>2. UNCHANGED <<request, stream>>
  BY DEF Recording, LookUp, LookUpFails, Commit, CommitFails, CountAgain,
         CountAgainFails
<1>3. \/ recording[r] = "lookup" /\ recording'[r] \in {"commit", "over"}
      \/ recording[r] = "commit" /\ recording'[r] = "again"
      \/ recording[r] = "again" /\ recording'[r] = "over"
  BY <1>1 DEF TypeOK
<1>4. \A q \in Requests : q # r => recording'[q] = recording[q]
  BY <1>1 DEF TypeOK
<1>5. RecordingLeft(r)' < RecordingLeft(r)
  BY <1>3 DEF RecordingLeft
<1> QED  BY <1>2, <1>3, <1>4, <1>5

\* What the other steps do to a request that goes on streaming: nothing.
LEMMA ElsewhereFields ==
  ASSUME Course, [Next]_vars, NEW r \in Requests,
         request[r] = "streaming", request'[r] = "streaming"
  PROVE  \/ StreamStep(r)
         \/ /\ recording'[r] = recording[r]
            /\ stream'[r] = stream[r]
<1> DEFINE Same == recording'[r] = recording[r] /\ stream'[r] = stream[r]
<1>0. TypeOK
  BY DEF Course
<1>1. CASE UNCHANGED vars \/ Expire
  BY <1>1 DEF vars, Expire
<1>2. CASE Crash
  BY <1>2 DEF Crash
<1>3. ASSUME NEW q \in Requests, Admit(q) \/ Reply(q)
      PROVE  Same
  <2>1. CASE Admit(q)
    BY <2>1 DEF Admit
  <2>2. CASE TurnAway(q)
    BY <2>2 DEF TurnAway
  <2>3. CASE Answer(q)
    BY <1>0, <2>3 DEF Answer, TypeOK
  <2>4. CASE OpenStream(q)
    BY <1>0, <2>4 DEF OpenStream, TypeOK
  <2> QED  BY <1>3, <2>1, <2>2, <2>3, <2>4 DEF Reply
<1>4. ASSUME NEW q \in Requests, q # r,
             LoopEnds(q) \/ ClientLeaves(q) \/ CancelEnds(q) \/ Recording(q)
      PROVE  Same
  <2>1. CASE LoopEnds(q)
    BY <1>0, <1>4, <2>1, LoopEndsFields DEF TypeOK
  <2>2. CASE ClientLeaves(q)
    BY <1>0, <1>4, <2>2, ClientLeavesFields
  <2>3. CASE CancelEnds(q)
    BY <1>0, <1>4, <2>3, CancelEndsFields DEF TypeOK
  <2>4. CASE Recording(q)
    BY <1>0, <1>4, <2>4, RecordingFields
  <2> QED  BY <1>4, <2>1, <2>2, <2>3, <2>4
<1> HIDE DEF Same
<1>5. StreamStep(r) \/ Same
  BY <1>1, <1>2, <1>3, <1>4 DEF Next, StreamStep, Same
<1> QED  BY <1>5 DEF Same

LEMMA NextFinalized ==
  Course /\ FinalizedIsRecorded /\ [Next]_vars => FinalizedIsRecorded'
<1> SUFFICES ASSUME Course, FinalizedIsRecorded, [Next]_vars,
                    NEW r \in Requests, request'[r] = "streaming",
                    stream'[r].streamClosed
             PROVE  recording'[r] # "none"
  BY DEF FinalizedIsRecorded
<1>0. TypeOK
  BY DEF Course
<1>1. request[r] = "streaming" /\ stream[r].streamClosed => recording[r] # "none"
  BY DEF FinalizedIsRecorded
<1>2. CASE request[r] # "streaming"
  <2>1. ~stream[r].streamClosed /\ OpenStream(r)
    <3>1. UNCHANGED vars \/ Expire \/ Crash => request'[r] # "streaming"
      <4>1. UNCHANGED vars \/ Expire => request' = request
        BY DEF vars, Expire
      <4>2. ASSUME Crash PROVE request'[r] # "streaming"
        <5>1. request'[r] = IF request[r] \in {"serving", "streaming"}
                            THEN "lost" ELSE request[r]
          BY <4>2 DEF Crash
        <5> QED  BY <5>1
      <4> QED  BY <1>2, <4>1, <4>2
    <3>2. ASSUME NEW q \in Requests,
                 LoopEnds(q) \/ ClientLeaves(q) \/ CancelEnds(q) \/ Recording(q)
          PROVE  request' = request
      BY <1>0, <3>2, LoopEndsFields, ClientLeavesFields, CancelEndsFields,
         RecordingFields
    <3>3. ASSUME NEW q \in Requests, Admit(q) \/ TurnAway(q) \/ Answer(q)
          PROVE  FALSE
      BY <1>0, <1>2, <3>3 DEF Admit, TurnAway, Answer, TypeOK
    <3>4. PICK q \in Requests : OpenStream(q)
      BY <1>2, <3>1, <3>2, <3>3 DEF Next, Reply
    <3>5. q = r
      BY <1>0, <1>2, <3>4 DEF OpenStream, TypeOK
    <3>6. request[r] = "serving"
      BY <3>4, <3>5 DEF OpenStream
    <3>7. ~stream[r].streamClosed
      BY <3>6 DEF Course, StreamCourse
    <3> QED  BY <3>4, <3>5, <3>7
  <2>2. stream[r] \in Streams /\ stream'[r] = [stream[r] EXCEPT !.loop = "reading"]
    BY <1>0, <2>1 DEF OpenStream, TypeOK
  <2>3. ~stream'[r].streamClosed
    BY <2>1, <2>2 DEF Streams
  <2> QED  BY <2>3
<1>3. CASE request[r] = "streaming"
  <2>1. CASE recording'[r] = recording[r] /\ stream'[r] = stream[r]
    BY <1>1, <1>3, <2>1
  <2>2. CASE LoopEnds(r)
    BY <1>0, <1>1, <1>3, <2>2, LoopEndsFields DEF TypeOK
  <2>3. CASE ClientLeaves(r)
    BY <1>0, <1>1, <1>3, <2>3, ClientLeavesFields
  <2>4. CASE CancelEnds(r)
    BY <1>0, <1>1, <1>3, <2>4, CancelEndsFields DEF TypeOK
  <2>5. CASE Recording(r)
    BY <1>0, <2>5, RecordingFields
  <2> QED  BY <1>3, <2>1, <2>2, <2>3, <2>4, <2>5, ElsewhereFields DEF StreamStep
<1> QED  BY <1>2, <1>3

LEMMA AttendedAlways == Spec => [](Course /\ FinalizedIsRecorded)
<1>1. Init => FinalizedIsRecorded
  BY DEF Init, FinalizedIsRecorded
<1> QED  BY <1>1, NextFinalized, CourseAlways, PTL DEF Spec

LEMMA EachStepIsNearer ==
  ASSUME Course, [Next]_vars, NEW r \in Requests PROVE StreamNearer(r)
<1> SUFFICES ASSUME request[r] = "streaming", request'[r] = "streaming"
             PROVE  /\ StreamLeft(r)' <= StreamLeft(r)
                    /\ StreamStep(r) => StreamLeft(r)' < StreamLeft(r)
  BY DEF StreamNearer
<1>0. TypeOK /\ StreamCourse(r) /\ RecordingCourse(r)
  BY DEF Course
<1>1. PICK n \in Nat, m \in Nat : n = RecordingLeft(r) /\ m = RecordingLeft(r)'
  BY DEF RecordingLeft
<1> DEFINE l == IF stream[r].loop = "reading" THEN 1 ELSE 0
           k == IF stream'[r].loop = "reading" THEN 1 ELSE 0
           c == IF stream[r].cancel = "waiting" THEN 1 ELSE 0
           b == IF stream'[r].cancel = "waiting" THEN 1 ELSE 0
           d == IF stream[r].client = "there" THEN 2 ELSE 0
           e == IF stream'[r].client = "there" THEN 2 ELSE 0
<1>2. StreamLeft(r) = n + l + c + d /\ StreamLeft(r)' = m + k + b + e
  BY <1>1 DEF StreamLeft
<1>3. l \in Nat /\ k \in Nat /\ c \in Nat /\ b \in Nat /\ d \in Nat /\ e \in Nat
  OBVIOUS
<1>4. CASE recording'[r] = recording[r] /\ stream'[r] = stream[r] /\ ~StreamStep(r)
  <2>1. m = n /\ k = l /\ b = c /\ e = d
    BY <1>1, <1>4 DEF RecordingLeft
  <2> HIDE DEF l, k, c, b, d, e
  <2> QED  BY <1>2, <1>3, <1>4, <2>1
\* The recording of a stream that was not finalized has not begun.
<1>5. ASSUME \/ recording' = recording
             \/ ~stream[r].streamClosed /\ recording' = [recording EXCEPT ![r] = "lookup"]
      PROVE  m <= n
  <2>1. CASE recording' = recording
    BY <1>1, <2>1 DEF RecordingLeft
  <2>2. CASE ~stream[r].streamClosed /\ recording' = [recording EXCEPT ![r] = "lookup"]
    <3>1. recording[r] = "none" /\ recording'[r] = "lookup"
      BY <1>0, <2>2 DEF RecordingCourse, TypeOK
    <3> QED  BY <1>1, <3>1 DEF RecordingLeft
  <2> QED  BY <1>5, <2>1, <2>2
<1>6. CASE LoopEnds(r)
  <2>1. l = 1 /\ k = 0 /\ b = c /\ e = d
    BY <1>0, <1>6, LoopEndsFields
  <2>2. m <= n
    BY <1>0, <1>5, <1>6, LoopEndsFields
  <2> HIDE DEF l, k, c, b, d, e
  <2> QED  BY <1>2, <1>3, <2>1, <2>2
<1>7. CASE ClientLeaves(r)
  <2>1. k = l /\ b = 1 /\ d = 2 /\ e = 0
    BY <1>0, <1>7, ClientLeavesFields
  <2>2. m = n
    BY <1>0, <1>1, <1>7, ClientLeavesFields DEF RecordingLeft
  <2> HIDE DEF l, k, c, b, d, e
  <2> QED  BY <1>2, <1>3, <2>1, <2>2
<1>8. CASE CancelEnds(r)
  <2>1. c = 1 /\ b = 0 /\ k = l /\ e = d
    BY <1>0, <1>8, CancelEndsFields
  <2>2. m <= n
    BY <1>0, <1>5, <1>8, CancelEndsFields
  <2> HIDE DEF l, k, c, b, d, e
  <2> QED  BY <1>2, <1>3, <2>1, <2>2
<1>9. CASE Recording(r)
  <2>1. m < n /\ k = l /\ b = c /\ e = d
    BY <1>0, <1>1, <1>9, RecordingFields
  <2> HIDE DEF l, k, c, b, d, e
  <2> QED  BY <1>2, <1>3, <2>1
<1> HIDE DEF l, k, c, b, d, e
<1> QED  BY <1>4, <1>6, <1>7, <1>8, <1>9, ElsewhereFields DEF StreamStep

\* Nobody forgets a stream: as long as its usage is not settled, its loop, its
\* callback or its recording is at work on it, and each of their steps uses up
\* some of a supply that nothing refills, the steps of other requests, failures
\* and ids that are sent again included.  With the turns that FairSpec grants,
\* this is why StreamsAreSettled holds (proxyStream, recordGatewayUsage).
THEOREM StreamsComeToAnEnd ==
  Spec => /\ []StreamsAreAttended
          /\ [](\A r \in Requests : StreamLeft(r) \in Nat)
          /\ StreamsProgress
<1>1. Course /\ FinalizedIsRecorded => StreamsAreAttended
  <2> SUFFICES ASSUME Course, FinalizedIsRecorded, NEW r \in Requests,
                      request[r] = "streaming", stream[r].loop # "reading",
                      stream[r].cancel # "waiting"
               PROVE  recording[r] \in {"lookup", "commit", "again", "over", "lost"}
    BY DEF StreamsAreAttended
  <2>1. stream[r] \in Streams /\ StreamCourse(r)
    BY DEF Course, TypeOK
  <2>2. stream[r].streamClosed
    BY <2>1 DEF StreamCourse, Streams
  <2>3. recording[r] # "none"
    BY <2>2 DEF FinalizedIsRecorded
  <2> QED  BY <2>3 DEF Course, TypeOK
<1>2. Course => \A r \in Requests : StreamLeft(r) \in Nat
  BY LeftIsNatural
<1>3. Course /\ [Next]_vars => [\A r \in Requests : StreamNearer(r)]_vars
  BY EachStepIsNearer
<1> QED  BY <1>1, <1>2, <1>3, AttendedAlways, PTL DEF Spec, StreamsProgress
=============================================================================
