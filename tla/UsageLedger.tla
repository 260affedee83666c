----------------------------- MODULE UsageLedger -----------------------------
(***************************************************************************)
(* How the gateway meters the requests of one organization.  A request is  *)
(* admitted by the monthly quota, on a cached copy of the organization;    *)
(* its reply comes in one piece or as a stream, whose end races with the   *)
(* client leaving; and what was used is recorded in the background: look   *)
(* for the usage document of the request id, commit a batch of document    *)
(* and counters, and count the request for the organization once more.     *)
(* The id may come from the client, so two requests can share one.         *)
(*                                                                         *)
(* Abstracted: tokens and cost (every recording has the same weight), the  *)
(* retries of a call of the provider, the limiter and the budgets (any     *)
(* request may be turned away by them), the simulated organization kept in *)
(* memory for development, and the telemetry.                              *)
(***************************************************************************)
EXTENDS Integers, FiniteSets

CONSTANTS
  Requests,    \* the requests of the organization
  Streaming,   \* those that ask for a stream
  Ids,         \* request ids
  IdOf,        \* the id of each request
  Quota,       \* monthlyRequestQuota of the plan
  MaxFaults    \* bound: calls of the database that fail, and crashes

NoCopy == -1
NoUsage == "no usage document"

ASSUME UsageAssumption ==
  /\ IsFiniteSet(Requests) /\ IdOf \in [Requests -> Ids]
  /\ Quota \in Nat \ {0} /\ MaxFaults \in Nat
  /\ NoUsage \notin Requests

VARIABLES
  request,          \* where each request is
  stream,           \* the reply of a streaming request
  recording,        \* where the recording of each request is
  usage,            \* usage/{requestId}: whose usage the document holds
  projectRequests,  \* totalRequests of the project
  orgRequests,      \* currentPeriodRequests of the organization
  copy,             \* currentPeriodRequests in the authentication cache
  faults,           \* bounded by MaxFaults
  counted,          \* history: requests whose batch was committed
  countedAgain,     \* history: requests counted once more
  contested         \* history: requests that found no document while another
                    \* recording of their id was about to commit

vars == <<request, stream, recording, usage, projectRequests, orgRequests, copy,
          faults, counted, countedAgain, contested>>

ledger == <<usage, projectRequests, orgRequests, counted, countedAgain, contested>>

\* loop: the loop that forwards chunks.  reader: the client's side of it.
\* cancel: the callback that runs when the client leaves.
\* finals: how often the usage of the stream was finalized.
NoStream == [loop |-> "over", client |-> "there", cancel |-> "none",
             streamClosed |-> FALSE, finals |-> 0]

Init ==
  /\ request = [r \in Requests |-> "new"]
  /\ stream = [r \in Requests |-> NoStream]
  /\ recording = [r \in Requests |-> "none"]
  /\ usage = [i \in Ids |-> NoUsage]
  /\ projectRequests = 0 /\ orgRequests = 0
  /\ copy = NoCopy /\ faults = 0
  /\ counted = {} /\ countedAgain = {} /\ contested = {}

Fault == faults < MaxFaults /\ faults' = faults + 1

-----------------------------------------------------------------------------
(* Admission. *)

\* authenticateApiKey serves the organization from the cache or reads and
\* caches it; a document that cannot be read counts as one without requests.
OrganizationSeen(count) ==
  \/ copy # NoCopy /\ count = copy /\ UNCHANGED <<copy, faults>>
  \/ copy = NoCopy /\ count = orgRequests /\ copy' = count /\ UNCHANGED faults
  \/ copy = NoCopy /\ count = 0 /\ copy' = count /\ Fault

\* The quota guard of the router.
Admit(r) ==
  /\ request[r] = "new"
  /\ \E count \in {0, orgRequests} \union ({copy} \ {NoCopy}) :
       /\ OrganizationSeen(count)
       /\ request' = [request EXCEPT ![r] =
                        IF count >= Quota THEN "refused" ELSE "serving"]
  /\ UNCHANGED <<stream, recording, ledger>>

\* The copy is 30 s old, or the cache is invalidated.
Expire ==
  /\ copy # NoCopy /\ copy' = NoCopy
  /\ UNCHANGED <<request, stream, recording, ledger, faults>>

-----------------------------------------------------------------------------
(* The reply. *)

\* Blocked by a budget, invalid, no provider available, a streaming call the
\* provider refused, or a stream without a body: nothing is recorded.
TurnAway(r) ==
  /\ request[r] = "serving"
  /\ request' = [request EXCEPT ![r] = "over"]
  /\ UNCHANGED <<stream, recording, ledger, copy, faults>>

\* Rate limited, failed, or answered in one piece: recorded in the background.
\* (Of the requests that ask for a stream, those that are rate limited.)
Answer(r) ==
  /\ request[r] = "serving"
  /\ request' = [request EXCEPT ![r] = "over"]
  /\ recording' = [recording EXCEPT ![r] = "lookup"]
  /\ UNCHANGED <<stream, ledger, copy, faults>>

OpenStream(r) ==
  /\ request[r] = "serving" /\ r \in Streaming
  /\ request' = [request EXCEPT ![r] = "streaming"]
  /\ stream' = [stream EXCEPT ![r].loop = "reading"]
  /\ UNCHANGED <<recording, ledger, copy, faults>>

\* Mutant of Finalized: a stream that was finalized is finalized again.
FinalizedAgain(s) == [s EXCEPT !.streamClosed = TRUE, !.finals = @ + 1]

\* finalizeUsageAndPersist of stream s: only the first call does anything.
Finalized(s) ==
  IF s.streamClosed THEN s
  ELSE [s EXCEPT !.streamClosed = TRUE, !.finals = @ + 1]

Recorded(r) ==
  IF stream[r].streamClosed THEN recording
  ELSE [recording EXCEPT ![r] = "lookup"]

\* The provider's reply ends, or breaks off.  As long as the client is there
\* the loop closes the stream and finalizes.  Once it has left, the stream
\* takes no chunk any more: enqueue throws, in the handler of the error too.
LoopEnds(r) ==
  /\ stream[r].loop = "reading"
  /\ IF stream[r].client = "there"
     THEN /\ stream' = [stream EXCEPT ![r] = [Finalized(@) EXCEPT !.loop = "over"]]
          /\ recording' = Recorded(r)
     ELSE /\ stream' = [stream EXCEPT ![r].loop = "over"]
          /\ UNCHANGED recording
  /\ UNCHANGED <<request, ledger, copy, faults>>

\* The client leaves while there are chunks it has not read: the callback
\* first cancels the provider's reply ...
ClientLeaves(r) ==
  /\ request[r] = "streaming" /\ stream[r].client = "there"
  /\ stream' = [stream EXCEPT ![r].client = "gone", ![r].cancel = "waiting"]
  /\ UNCHANGED <<request, recording, ledger, copy, faults>>

\* Mutant of CancelEnds: the callback leaves the usage to the loop.
CancelOnly(r) ==
  /\ stream[r].cancel = "waiting"
  /\ stream' = [stream EXCEPT ![r].cancel = "over"]
  /\ UNCHANGED <<request, recording, ledger, copy, faults>>

\* ... and then finalizes, if the loop has not.
CancelEnds(r) ==
  /\ stream[r].cancel = "waiting"
  /\ stream' = [stream EXCEPT ![r] = [Finalized(@) EXCEPT !.cancel = "over"]]
  /\ recording' = Recorded(r)
  /\ UNCHANGED <<request, ledger, copy, faults>>

-----------------------------------------------------------------------------
(* recordGatewayUsage. *)

\* The other recordings of the id of r that are about to commit.
Rivals(r) == {q \in Requests \ {r} : IdOf[q] = IdOf[r] /\ recording[q] = "commit"}

\* Mutant of LookUp: a document that exists is overwritten.
LookUpAnyway(r) ==
  /\ recording[r] = "lookup"
  /\ recording' = [recording EXCEPT ![r] = "commit"]
  /\ contested' = IF usage[IdOf[r]] = NoUsage /\ Rivals(r) # {}
                  THEN contested \union {r} ELSE contested
  /\ UNCHANGED <<request, stream, usage, projectRequests, orgRequests, copy, faults,
                 counted, countedAgain>>

\* A document for the id ends the recording; so does a failing read.
LookUp(r) ==
  /\ recording[r] = "lookup"
  /\ recording' = [recording EXCEPT ![r] =
                     IF usage[IdOf[r]] = NoUsage THEN "commit" ELSE "over"]
  /\ contested' = IF usage[IdOf[r]] = NoUsage /\ Rivals(r) # {}
                  THEN contested \union {r} ELSE contested
  /\ UNCHANGED <<request, stream, usage, projectRequests, orgRequests, copy, faults,
                 counted, countedAgain>>

LookUpFails(r) ==
  /\ recording[r] = "lookup" /\ Fault
  /\ recording' = [recording EXCEPT ![r] = "over"]
  /\ UNCHANGED <<request, stream, ledger, copy>>

\* One batch: the document, the project's counters, the organization's.
Commit(r) ==
  /\ recording[r] = "commit"
  /\ usage' = [usage EXCEPT ![IdOf[r]] = r]
  /\ projectRequests' = projectRequests + 1
  /\ orgRequests' = orgRequests + 1
  /\ counted' = counted \union {r}
  /\ recording' = [recording EXCEPT ![r] = "again"]
  /\ UNCHANGED <<request, stream, copy, faults, countedAgain, contested>>

\* Mutant of CommitFails: the writes are no batch, and only the first is done.
CommitHalf(r) ==
  /\ recording[r] = "commit" /\ Fault
  /\ usage' = [usage EXCEPT ![IdOf[r]] = r]
  /\ recording' = [recording EXCEPT ![r] = "again"]
  /\ UNCHANGED <<request, stream, projectRequests, orgRequests, counted, countedAgain,
                 contested, copy>>

\* A batch that fails is logged, and the recording goes on.
CommitFails(r) ==
  /\ recording[r] = "commit" /\ Fault
  /\ recording' = [recording EXCEPT ![r] = "again"]
  /\ UNCHANGED <<request, stream, ledger, copy>>

\* incrementOrganizationRequests, which updates the same field.
CountAgain(r) ==
  /\ recording[r] = "again"
  /\ orgRequests' = orgRequests + 1
  /\ countedAgain' = countedAgain \union {r}
  /\ recording' = [recording EXCEPT ![r] = "over"]
  /\ UNCHANGED <<request, stream, usage, projectRequests, copy, faults, counted,
                 contested>>

\* Mutant of CountAgainFails: a recording that fails is taken back.
CountBack(r) ==
  /\ recording[r] = "again" /\ Fault
  /\ orgRequests' = orgRequests - 1
  /\ recording' = [recording EXCEPT ![r] = "over"]
  /\ UNCHANGED <<request, stream, usage, projectRequests, counted, countedAgain,
                 contested, copy>>

CountAgainFails(r) ==
  /\ recording[r] = "again" /\ Fault
  /\ recording' = [recording EXCEPT ![r] = "over"]
  /\ UNCHANGED <<request, stream, ledger, copy>>

-----------------------------------------------------------------------------

\* The process dies, with what it was doing and its cache; the documents stay.
Crash ==
  /\ Fault
  /\ request' = [r \in Requests |->
       IF request[r] \in {"serving", "streaming"} THEN "lost" ELSE request[r]]
  /\ stream' = [r \in Requests |->
       [stream[r] EXCEPT !.loop = "over",
          !.cancel = IF @ = "waiting" THEN "lost" ELSE @]]
  /\ recording' = [r \in Requests |->
       IF recording[r] \in {"lookup", "commit", "again"} THEN "lost" ELSE recording[r]]
  /\ copy' = NoCopy
  /\ UNCHANGED ledger

Reply(r) == TurnAway(r) \/ Answer(r) \/ OpenStream(r)

Recording(r) ==
  \/ LookUp(r) \/ LookUpFails(r) \/ Commit(r) \/ CommitFails(r)
  \/ CountAgain(r) \/ CountAgainFails(r)

Next ==
  \/ \E r \in Requests :
       Admit(r) \/ Reply(r) \/ LoopEnds(r) \/ ClientLeaves(r) \/ CancelEnds(r)
       \/ Recording(r)
  \/ Expire
  \/ Crash

Spec == Init /\ [][Next]_vars

\* A reply of a provider ends, a cancelled reader settles, and the background
\* work of the process gets its turns.  Nobody has to send a request or leave.
Fairness == \A r \in Requests :
  /\ WF_vars(LoopEnds(r)) /\ WF_vars(CancelEnds(r))
  /\ WF_vars(LookUp(r)) /\ WF_vars(Commit(r)) /\ WF_vars(CountAgain(r))

FairSpec == Spec /\ Fairness

-----------------------------------------------------------------------------

Streams ==
  [loop : {"reading", "over"}, client : {"there", "gone"},
   cancel : {"none", "waiting", "over", "lost"}, streamClosed : BOOLEAN, finals : Nat]

\* Every request, stream and recording is in a state the code can put it in.
TypeOK ==
  /\ request \in [Requests -> {"new", "refused", "serving", "streaming", "over", "lost"}]
  /\ stream \in [Requests -> Streams]
  /\ recording \in [Requests -> {"none", "lookup", "commit", "again", "over", "lost"}]
  /\ usage \in [Ids -> Requests \union {NoUsage}]
  /\ projectRequests \in Nat /\ orgRequests \in Nat
  /\ copy \in Nat \union {NoCopy} /\ faults \in 0..MaxFaults
  /\ counted \subseteq Requests /\ countedAgain \subseteq Requests
  /\ contested \subseteq Requests

\* A request id is counted once, whatever is sent again: two requests of one id
\* are both counted only when their recordings overlapped, the later one having
\* looked for the document before the earlier one committed it.
CountedOnce ==
  \A r, q \in counted : r # q /\ IdOf[r] = IdOf[q] => r \in contested \/ q \in contested

\* The counters and the documents stay in step over failures and crashes: no
\* document is without its count, the organization's counter is never behind
\* the project's, and it is at most twice the recordings that were started.
Begun == {r \in Requests : recording[r] # "none"}
Documented == {i \in Ids : usage[i] # NoUsage}

CountersInStep ==
  /\ Cardinality(Documented) <= projectRequests
  /\ projectRequests <= orgRequests
  /\ orgRequests <= 2 * Cardinality(Begun)

\* router.ts:421: "If monthly requests exceed monthlyRequestQuota, reject with
\* 429": nobody is refused before as many requests as the plan grants have at
\* least begun to be recorded.
QuotaIsGranted ==
  \A r \in Requests : request[r] = "refused" => Cardinality(Begun) >= Quota

\* The end of the provider's reply and the client's leaving both finalize the
\* usage of a stream.  Whichever comes first, and whatever the other throws,
\* it is finalized at most once, and once both are through, exactly once.
StreamsAreMetered ==
  \A r \in Requests :
    /\ stream[r].finals <= 1
    /\ request[r] = "streaming" /\ stream[r].loop = "over" /\ stream[r].cancel # "waiting"
         => stream[r].finals = 1

\* The usage of every stream is recorded, given up on by a failing read, or
\* lost in a crash; none is left open.
StreamsAreSettled ==
  \A r \in Requests :
    request[r] = "streaming" ~> recording[r] = "over" \/ request[r] = "lost"
                                \/ recording[r] = "lost"
=============================================================================
