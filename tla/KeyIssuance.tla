----------------------------- MODULE KeyIssuance -----------------------------
(***************************************************************************)
(* How an organization is issued API keys: the four routes that create     *)
(* one, the idempotency records of POST /api/v1/api-keys, the limit of the *)
(* plan on active keys, which two of the routes check, revocation and      *)
(* rotation.  Several server processes serve the requests; each keeps      *)
(* records and keys in its memory beside Firestore.                        *)
(*                                                                         *)
(* Each step is one Firestore access or the code up to the next await; any *)
(* access may fail and any process may crash.  Each request creates at     *)
(* most one key, which is named after it.                                  *)
(*                                                                         *)
(* Abstracted: authentication, choice of organization and project, the     *)
(* secrets (never the same twice), the audit log and the hash of a body,   *)
(* which is the body.  The organization has one project, whose keys one    *)
(* query lists; when it cannot be read it counts as one of the free plan,  *)
(* which only refuses earlier.                                             *)
(***************************************************************************)
EXTENDS Integers, FiniteSets

CONSTANTS
  Requests,   \* requests for a key
  Keys,       \* values of the Idempotency-Key header
  Bodies,     \* request bodies
  Unkeyed,    \* no header, or one of the three routes that read none
  Servers,    \* server processes
  MaxKeys,    \* maxGatewayKeys of the plan
  MaxFaults   \* bound: Firestore accesses that fail, and crashes

NoBody == "no body"      \* requestHash ""
Nobody == "no request"

ASSUME IssuanceAssumption ==
  /\ IsFiniteSet(Requests) /\ Nobody \notin Requests
  /\ NoBody \notin Bodies
  /\ Unkeyed \notin Keys
  /\ MaxKeys \in Nat /\ MaxFaults \in Nat

VARIABLES
  sent,         \* sent[r]: what request r carries, and the process serving it
  pc,           \* pc[r]: where r is
  answer,       \* answer[r]: the request whose key the reply names
  memory,       \* memory[s][k]: inMemoryIdempotencyStore of process s
  record,       \* record[k]: the document idempotencyKeys/{k}
  result,       \* result[r]: the completed record r is about to persist
  stored,       \* stored[r]: status of the key document of r
  registered,   \* registered[s]: simulatedApiKeys of process s
  faults,       \* bounded by MaxFaults
  contested,    \* history: keys two requests carried at the same time
  interrupted,  \* history: keys of a request that did not complete its record
  retries,      \* history: requests that arrived after one of their key was
                \* answered with 201 and while none of it was under way
  unwritten     \* history: requests whose key document could not be written

vars == <<sent, pc, answer, memory, record, result, stored, registered, faults,
          contested, interrupted, retries, unwritten>>

keys == <<stored, registered, unwritten>>
records == <<memory, record, result>>
history == <<contested, interrupted, retries>>

Sent == [key : Keys \union {Unkeyed}, body : Bodies, server : Servers]
KeyOf(r) == sent[r].key
BodyOf(r) == sent[r].body
ServerOf(r) == sent[r].server

NoRecord == [status |-> "none", body |-> NoBody, by |-> Nobody]

Processing(r) == [status |-> "PROCESSING", body |-> BodyOf(r), by |-> Nobody]

Init ==
  /\ sent \in [Requests -> Sent]
  /\ pc = [r \in Requests |-> "new"]
  /\ answer = [r \in Requests |-> Nobody]
  /\ memory = [s \in Servers |-> [k \in Keys |-> NoRecord]]
  /\ record = [k \in Keys |-> NoRecord]
  /\ result = [r \in Requests |-> NoRecord]
  /\ stored = [r \in Requests |-> "none"]
  /\ registered = [s \in Servers |-> {}]
  /\ faults = 0
  /\ contested = {} /\ interrupted = {} /\ retries = {} /\ unwritten = {}

Waiting == {"looking", "claiming", "marking", "counting", "creating", "registering",
            "saving", "persisting"}
InFlight == {r \in Requests : pc[r] \in Waiting}

Goto(r, to) == pc' = [pc EXCEPT ![r] = to]
Fault == faults < MaxFaults /\ faults' = faults + 1

\* The request replies with the key of q.
Reply(r, to, q) == Goto(r, to) /\ answer' = [answer EXCEPT ![r] = q]

-----------------------------------------------------------------------------
(* checkIdempotency. *)

\* Mutant of Found: the fingerprint is not compared.
FoundAnyBody(r, rec, working) ==
  \/ /\ rec.status = "COMPLETED"
     /\ Reply(r, "replayed", rec.by)
  \/ /\ rec.status = "PROCESSING"
     /\ Goto(r, working) /\ UNCHANGED answer

\* Request r finds the record rec: one of another body makes the route fail
\* with status 500, and one that is being processed does not stop r.
Found(r, rec, working) ==
  \/ /\ rec.body # BodyOf(r)
     /\ Goto(r, "failed") /\ UNCHANGED answer
  \/ /\ rec.body = BodyOf(r) /\ rec.status = "COMPLETED"
     /\ Reply(r, "replayed", rec.by)
  \/ /\ rec.body = BodyOf(r) /\ rec.status = "PROCESSING"
     /\ Goto(r, working) /\ UNCHANGED answer

\* A request with a header is first looked up in the memory of its process.
Arrive(r) ==
  LET k == KeyOf(r)
      rec == memory[ServerOf(r)][k]
      underway == \E q \in InFlight : KeyOf(q) = k
      answered == \E q \in Requests : KeyOf(q) = k /\ pc[q] = "created"
  IN  /\ pc[r] = "new" /\ k # Unkeyed
      /\ IF rec = NoRecord
         THEN Goto(r, "looking") /\ UNCHANGED answer
         ELSE Found(r, rec, "counting")
      /\ contested' = IF underway THEN contested \union {k} ELSE contested
      /\ retries' = IF answered /\ ~underway THEN retries \union {r} ELSE retries
      /\ UNCHANGED <<sent, records, keys, faults, interrupted>>

\* The two routes under a project go on to create the key without a check.
ArriveUnkeyed(r) ==
  /\ pc[r] = "new" /\ KeyOf(r) = Unkeyed
  /\ Goto(r, "counting") \/ Goto(r, "creating")
  /\ UNCHANGED <<sent, answer, records, keys, faults, history>>

\* The document is read ...
LookUp(r) ==
  LET rec == record[KeyOf(r)] IN
  /\ pc[r] = "looking"
  /\ IF rec = NoRecord
     THEN Goto(r, "claiming") /\ UNCHANGED answer
     ELSE Found(r, rec, "marking")
  /\ UNCHANGED <<sent, records, keys, faults, history>>

\* ... or cannot be, which counts as if there were none.
LookUpFails(r) ==
  /\ pc[r] = "looking" /\ Fault
  /\ Goto(r, "marking")
  /\ interrupted' = interrupted \union {KeyOf(r)}
  /\ UNCHANGED <<sent, answer, records, keys, contested, retries>>

\* The missing document is set, over one that was set since.
Claim(r) ==
  /\ pc[r] = "claiming"
  /\ record' = [record EXCEPT ![KeyOf(r)] = Processing(r)]
  /\ Goto(r, "marking")
  /\ UNCHANGED <<sent, answer, memory, result, keys, faults, history>>

ClaimFails(r) ==
  /\ pc[r] = "claiming" /\ Fault
  /\ Goto(r, "marking")
  /\ UNCHANGED <<sent, answer, records, keys, history>>

\* So is the record in memory.
Mark(r) ==
  /\ pc[r] = "marking"
  /\ memory' = [memory EXCEPT ![ServerOf(r)][KeyOf(r)] = Processing(r)]
  /\ Goto(r, "counting")
  /\ UNCHANGED <<sent, answer, record, result, keys, faults, history>>

-----------------------------------------------------------------------------
(* checkCanCreateKey. *)

Active == {q \in Requests : stored[q] = "active"}

\* The keys a process counts: the active documents and its own keys that have
\* none; without the listing, its own keys alone.
Listed(s) == Active \union {q \in registered[s] : stored[q] = "none"}

Full(n) == n >= MaxKeys

\* The limit refuses r, or r goes on to create its key.  A refused request
\* leaves the records of its idempotency key as they are.
Count(r, seen) ==
  IF Full(Cardinality(seen))
  THEN /\ Goto(r, "refused")
       /\ interrupted' = IF KeyOf(r) = Unkeyed THEN interrupted
                         ELSE interrupted \union {KeyOf(r)}
  ELSE Goto(r, "creating") /\ UNCHANGED interrupted

CountKeys(r) ==
  /\ pc[r] = "counting"
  /\ Count(r, Listed(ServerOf(r)))
  /\ UNCHANGED <<sent, answer, records, keys, faults, contested, retries>>

CountBlindly(r) ==
  /\ pc[r] = "counting" /\ Fault
  /\ Count(r, registered[ServerOf(r)])
  /\ UNCHANGED <<sent, answer, records, keys, contested, retries>>

-----------------------------------------------------------------------------
(* createProjectApiKey and saveIdempotencyResult. *)

Store(r) ==
  /\ pc[r] = "creating"
  /\ stored' = [stored EXCEPT ![r] = "active"]
  /\ Goto(r, "registering")
  /\ UNCHANGED <<sent, answer, records, registered, unwritten, faults, history>>

\* A document that cannot be written is left to the registry in memory.
StoreFails(r) ==
  /\ pc[r] = "creating" /\ Fault
  /\ unwritten' = unwritten \union {r}
  /\ Goto(r, "registering")
  /\ UNCHANGED <<sent, answer, records, stored, registered, history>>

Register(r) ==
  /\ pc[r] = "registering"
  /\ registered' = [registered EXCEPT ![ServerOf(r)] = @ \union {r}]
  /\ IF KeyOf(r) = Unkeyed THEN Reply(r, "created", r)
                           ELSE Goto(r, "saving") /\ UNCHANGED answer
  /\ UNCHANGED <<sent, records, stored, unwritten, faults, history>>

\* Mutant of Completed: the record is left as it was found.
CompletedStill(r, rec) == rec

\* Mutant of Completed: the record names no body.
CompletedBlank(r, rec) == [status |-> "COMPLETED", body |-> NoBody, by |-> r]

\* The completed record keeps the fingerprint of the one in memory.
Completed(r, rec) == [status |-> "COMPLETED", body |-> rec.body, by |-> r]

Save(r) ==
  LET rec == Completed(r, memory[ServerOf(r)][KeyOf(r)]) IN
  /\ pc[r] = "saving"
  /\ memory' = [memory EXCEPT ![ServerOf(r)][KeyOf(r)] = rec]
  /\ result' = [result EXCEPT ![r] = rec]
  /\ Goto(r, "persisting")
  /\ UNCHANGED <<sent, answer, record, keys, faults, history>>

Persist(r) ==
  /\ pc[r] = "persisting"
  /\ record' = [record EXCEPT ![KeyOf(r)] = result[r]]
  /\ Reply(r, "created", r)
  /\ UNCHANGED <<sent, memory, result, keys, faults, history>>

PersistFails(r) ==
  /\ pc[r] = "persisting" /\ Fault
  /\ interrupted' = interrupted \union {KeyOf(r)}
  /\ Reply(r, "created", r)
  /\ UNCHANGED <<sent, records, keys, contested, retries>>

-----------------------------------------------------------------------------

\* A member revokes a key, which keeps its document.
Revoke(r) ==
  /\ stored[r] = "active"
  /\ stored' = [stored EXCEPT ![r] = "revoked"]
  /\ UNCHANGED <<sent, pc, answer, records, registered, unwritten, faults, history>>

\* A member rotates a key, which gives it a new secret and makes it active,
\* a revoked one too.
Rotate(r) ==
  /\ stored[r] # "none"
  /\ stored' = [stored EXCEPT ![r] = "active"]
  /\ UNCHANGED <<sent, pc, answer, records, registered, unwritten, faults, history>>

\* A process dies, with its requests and its memory.
Crash(s) ==
  LET lost == {r \in InFlight : ServerOf(r) = s} IN
  /\ Fault
  /\ pc' = [r \in Requests |-> IF r \in lost THEN "lost" ELSE pc[r]]
  /\ memory' = [memory EXCEPT ![s] = [k \in Keys |-> NoRecord]]
  /\ registered' = [registered EXCEPT ![s] = {}]
  /\ interrupted' = interrupted \union {k \in Keys : \E r \in lost : KeyOf(r) = k}
  /\ UNCHANGED <<sent, answer, record, result, stored, unwritten, contested, retries>>

Check(r) ==
  Arrive(r) \/ ArriveUnkeyed(r) \/ LookUp(r) \/ LookUpFails(r) \/ Claim(r)
  \/ ClaimFails(r) \/ Mark(r)

Create(r) ==
  CountKeys(r) \/ CountBlindly(r) \/ Store(r) \/ StoreFails(r) \/ Register(r)
  \/ Save(r) \/ Persist(r) \/ PersistFails(r)

Next ==
  \/ \E r \in Requests : Check(r) \/ Create(r) \/ Revoke(r) \/ Rotate(r)
  \/ \E s \in Servers : Crash(s)

Spec == Init /\ [][Next]_vars

-----------------------------------------------------------------------------

\* Every request, record and key is in a state the code can put it in; no
\* completed record lacks the fingerprint of its body (idempotency.ts:162).
Records ==
  {NoRecord} \union [status : {"PROCESSING"}, body : Bodies, by : {Nobody}]
             \union [status : {"COMPLETED"}, body : Bodies, by : Requests]

TypeOK ==
  /\ pc \in [Requests -> Waiting \union {"new", "created", "replayed", "failed",
                                         "refused", "lost"}]
  /\ sent \in [Requests -> Sent]
  /\ answer \in [Requests -> Requests \union {Nobody}]
  /\ memory \in [Servers -> [Keys -> Records]]
  /\ record \in [Keys -> Records]
  /\ result \in [Requests -> Records]
  /\ stored \in [Requests -> {"none", "active", "revoked"}]
  /\ registered \in [Servers -> SUBSET Requests]
  /\ faults \in 0..MaxFaults
  /\ contested \subseteq Keys /\ interrupted \subseteq Keys
  /\ retries \subseteq Requests /\ unwritten \subseteq Requests

\* A retry creates nothing.  Once a request of an idempotency key has been
\* answered with 201 and none is under way any more, whoever sends the key
\* again gets a stored reply or an error, on whatever process, after whatever
\* restart, and even when earlier requests of the key overlapped and both
\* created (docs/api/idempotency.md:3 "to prevent duplicate execution during
\* network retries").  A request that did not complete its records voids this
\* for its key; one that overlaps another is no retry in this sense, and
\* idempotency.ts:57 lets it through.
RetriesCreateNothing ==
  \A r \in retries :
    KeyOf(r) \notin interrupted => pc[r] \in {"looking", "replayed", "failed"}

\* The reply of a retry is the first one.  When no two requests of a key
\* overlapped, a later one with the same body gets the reply of the one that
\* created the key, and one with another body fails and creates nothing
\* (docs/api/idempotency.md:24-25; its status is 500, api-keys/route.ts:197).
RetriesReplay ==
  \A q, r \in Requests :
    /\ q # r /\ KeyOf(q) = KeyOf(r) /\ KeyOf(q) # Unkeyed
    /\ KeyOf(q) \notin contested \union interrupted
    /\ pc[q] = "created" /\ pc[r] \notin Waiting \union {"new"}
    => IF BodyOf(q) = BodyOf(r) THEN pc[r] = "replayed" /\ answer[r] = q
                                ELSE pc[r] = "failed"

\* The keys of which this is promised, and their requests that have ended.
Void == contested \union interrupted
Quiet == Keys \ (contested \union interrupted)
Ended(r) == KeyOf(r) \in Quiet /\ pc[r] \in {"created", "replayed", "failed"}

Once == INSTANCE OnceOnly WITH
  outcome <- [r \in Requests |-> IF Ended(r) THEN pc[r] ELSE "open"],
  named <- [r \in Requests |-> IF Ended(r) THEN answer[r] ELSE Nobody],
  winner <- [k \in Keys |-> IF k \in Quiet THEN record[k].by ELSE Nobody],
  void <- Void

\* Lookups, claims, marks and documents of a kept key amount to OnceOnly: its
\* first request is executed in one step and the others are served from it
\* (checkIdempotency and saveIdempotencyResult around createProjectApiKey).
OnceSpec == Once!Spec

\* docs/disaster-recovery.md:22 promises of API keys: "Fully preserved; zero
\* credential loss".  A key a client was given exists, as a document or in the
\* memory of a process.
AnsweredKeysSurvive ==
  \A r \in Requests :
    answer[r] # Nobody => \/ stored[answer[r]] # "none"
                         \/ \E s \in Servers : answer[r] \in registered[s]
=============================================================================
