-------------------------- MODULE KeyIssuanceProofs --------------------------
(***************************************************************************)
(* What KeyIssuance promises, proved for all requests, idempotency keys,   *)
(* bodies, processes and limits.                                           *)
(***************************************************************************)
EXTENDS KeyIssuance, FiniteSetTheorems, TLAPS

USE DEF KeyOf, BodyOf, ServerOf, keys, records, history, Goto, Reply

-----------------------------------------------------------------------------
(* Types. *)

Stages == Waiting \union {"new", "created", "replayed", "failed", "refused", "lost"}

\* The steps that touch the records of an idempotency key are those of a
\* request that carries one.
HasKey == \A r \in Requests :
  pc[r] \in {"looking", "claiming", "marking", "saving", "persisting"} => KeyOf(r) \in Keys

\* From its mark to its end a request finds a record in its process.
Marked == \A r \in Requests :
  pc[r] \in {"counting", "creating", "registering", "saving"} /\ KeyOf(r) # Unkeyed
  => memory[ServerOf(r)][KeyOf(r)] # NoRecord

Typed == TypeOK /\ HasKey /\ Marked

LEMMA SentTyped ==
  ASSUME TypeOK, NEW r \in Requests
  PROVE  /\ KeyOf(r) \in Keys \union {Unkeyed}
         /\ BodyOf(r) \in Bodies /\ ServerOf(r) \in Servers
  BY DEF TypeOK, Sent

LEMMA RecordsTyped ==
  ASSUME TypeOK, NEW r \in Requests
  PROVE  /\ NoRecord \in Records
         /\ Processing(r) \in Records /\ Processing(r) # NoRecord
         /\ \A rec \in Records \ {NoRecord} :
              /\ Completed(r, rec) \in Records /\ Completed(r, rec) # NoRecord
         /\ \A rec \in Records : rec.by \in Requests \union {Nobody}
  BY SentTyped DEF Records, Processing, Completed, NoRecord

\* What one step of request r may change.
Effect(r) ==
  /\ sent' = sent
  /\ pc' \in [Requests -> Stages] /\ answer' \in [Requests -> Requests \union {Nobody}]
  /\ \A q \in Requests \ {r} : pc'[q] = pc[q] /\ answer'[q] = answer[q] /\ result'[q] = result[q]
  /\ memory' \in [Servers -> [Keys -> Records]]
  /\ \A s \in Servers, k \in Keys :
       memory'[s][k] = memory[s][k]
       \/ (s = ServerOf(r) /\ k = KeyOf(r) /\ memory'[s][k] # NoRecord)
  /\ record' \in [Keys -> Records]
  /\ \A k \in Keys : record'[k] = record[k] \/ k = KeyOf(r)
  /\ result' \in [Requests -> Records]
  /\ stored' \in [Requests -> {"none", "active", "revoked"}]
  /\ registered' \in [Servers -> SUBSET Requests]
  /\ faults' \in 0..MaxFaults
  /\ contested' \subseteq Keys /\ contested \subseteq contested'
  /\ interrupted' \subseteq Keys /\ interrupted \subseteq interrupted'
  /\ retries' \subseteq Requests /\ retries \subseteq retries'
  /\ unwritten' \subseteq Requests
  /\ pc'[r] \in {"looking", "claiming", "marking", "saving", "persisting"} => KeyOf(r) \in Keys
  /\ pc'[r] \in {"counting", "creating", "registering", "saving"} /\ KeyOf(r) # Unkeyed
     => memory'[ServerOf(r)][KeyOf(r)] # NoRecord

LEMMA FaultTyped ==
  ASSUME TypeOK, Fault
  PROVE  faults' \in 0..MaxFaults
  BY IssuanceAssumption DEF TypeOK, Fault

\* What finding a record does to the request that looked.
LEMMA FoundEffect ==
  ASSUME TypeOK, NEW r \in Requests, NEW rec \in Records, NEW working \in Stages,
         Found(r, rec, working)
  PROVE  /\ pc' \in [Requests -> Stages] /\ answer' \in [Requests -> Requests \union {Nobody}]
         /\ \A q \in Requests \ {r} : pc'[q] = pc[q] /\ answer'[q] = answer[q]
         /\ pc'[r] \in {"failed", "replayed", working}
<1>1. CASE \E to \in {"failed", working} : pc' = [pc EXCEPT ![r] = to] /\ answer' = answer
  BY <1>1 DEF TypeOK, Stages
<1>2. CASE /\ rec.status = "COMPLETED"
           /\ pc' = [pc EXCEPT ![r] = "replayed"] /\ answer' = [answer EXCEPT ![r] = rec.by]
  <2>1. rec.by \in Requests
    BY <1>2 DEF Records, NoRecord
  <2> QED  BY <1>2, <2>1 DEF TypeOK, Stages
<1> QED  BY <1>1, <1>2 DEF Found

LEMMA CheckEffect ==
  ASSUME Typed, NEW r \in Requests, Check(r)
  PROVE  Effect(r)
<1> USE DEF Typed, HasKey, Marked
<1>1. CASE Arrive(r)
  <2>1. KeyOf(r) \in Keys /\ ServerOf(r) \in Servers
    BY <1>1, SentTyped DEF Arrive
  <2>2. memory[ServerOf(r)][KeyOf(r)] \in Records
    BY <2>1 DEF TypeOK
  <2>3. /\ pc' \in [Requests -> Stages] /\ answer' \in [Requests -> Requests \union {Nobody}]
        /\ \A q \in Requests \ {r} : pc'[q] = pc[q] /\ answer'[q] = answer[q]
        /\ pc'[r] \in {"failed", "replayed", "counting", "looking"}
        /\ pc'[r] = "counting" => memory[ServerOf(r)][KeyOf(r)] # NoRecord
    <3>1. CASE memory[ServerOf(r)][KeyOf(r)] = NoRecord
      BY <1>1, <3>1 DEF Arrive, TypeOK, Stages, Waiting
    <3>2. CASE memory[ServerOf(r)][KeyOf(r)] # NoRecord
      <4>1. Found(r, memory[ServerOf(r)][KeyOf(r)], "counting") /\ "counting" \in Stages
        BY <1>1, <3>2 DEF Arrive, Stages, Waiting
      <4> QED  BY <2>2, <3>2, <4>1, FoundEffect
    <3> QED  BY <3>1, <3>2
  <2>4. UNCHANGED <<sent, memory, record, result, stored, registered, unwritten,
                    faults, interrupted>>
        /\ contested' \in {contested, contested \union {KeyOf(r)}}
        /\ retries' \in {retries, retries \union {r}}
    BY <1>1 DEF Arrive
  <2> QED  BY <2>1, <2>3, <2>4 DEF Effect, TypeOK
<1>2. CASE ArriveUnkeyed(r)
  BY <1>2 DEF ArriveUnkeyed, Effect, TypeOK, Stages, Waiting
<1>3. CASE LookUp(r)
  <2>1. KeyOf(r) \in Keys
    BY <1>3 DEF LookUp
  <2>2. record[KeyOf(r)] \in Records
    BY <2>1 DEF TypeOK
  <2>3. /\ pc' \in [Requests -> Stages] /\ answer' \in [Requests -> Requests \union {Nobody}]
        /\ \A q \in Requests \ {r} : pc'[q] = pc[q] /\ answer'[q] = answer[q]
        /\ pc'[r] \in {"failed", "replayed", "marking", "claiming"}
    <3>1. CASE record[KeyOf(r)] = NoRecord
      BY <1>3, <3>1 DEF LookUp, TypeOK, Stages, Waiting
    <3>2. CASE record[KeyOf(r)] # NoRecord
      <4>1. Found(r, record[KeyOf(r)], "marking") /\ "marking" \in Stages
        BY <1>3, <3>2 DEF LookUp, Stages, Waiting
      <4> QED  BY <2>2, <4>1, FoundEffect
    <3> QED  BY <3>1, <3>2
  <2>4. UNCHANGED <<sent, memory, record, result, stored, registered, unwritten,
                    faults, contested, interrupted, retries>>
    BY <1>3 DEF LookUp
  <2> QED  BY <2>1, <2>3, <2>4 DEF Effect, TypeOK
<1>4. CASE LookUpFails(r)
  BY <1>4, FaultTyped DEF LookUpFails, Effect, TypeOK, Stages, Waiting
<1>5. CASE Claim(r)
  BY <1>5, RecordsTyped DEF Claim, Effect, TypeOK, Stages, Waiting
<1>6. CASE ClaimFails(r)
  BY <1>6, FaultTyped DEF ClaimFails, Effect, TypeOK, Stages, Waiting
<1>7. CASE Mark(r)
  <2>1. KeyOf(r) \in Keys /\ ServerOf(r) \in Servers
    BY <1>7, SentTyped DEF Mark
  <2> DEFINE p == Processing(r)
  <2>2. p \in Records /\ p # NoRecord
    BY RecordsTyped
  <2>3. memory' = [memory EXCEPT ![ServerOf(r)][KeyOf(r)] = p]
    BY <1>7 DEF Mark
  <2>4. pc' = [pc EXCEPT ![r] = "counting"]
        /\ UNCHANGED <<sent, answer, record, result, stored, registered, unwritten,
                       faults, contested, interrupted, retries>>
    BY <1>7 DEF Mark
  <2> HIDE DEF p
  <2> QED  BY <2>1, <2>2, <2>3, <2>4 DEF Effect, TypeOK, Stages, Waiting
<1> QED  BY <1>1, <1>2, <1>3, <1>4, <1>5, <1>6, <1>7 DEF Check

LEMMA CreateEffect ==
  ASSUME Typed, NEW r \in Requests, Create(r)
  PROVE  Effect(r)
<1> USE DEF Typed, HasKey, Marked
<1>1. ASSUME NEW seen, pc[r] = "counting", Count(r, seen),
             UNCHANGED <<sent, answer, records, stored, registered, unwritten, contested,
                        retries>>,
             faults' \in 0..MaxFaults
      PROVE  Effect(r)
  <2>1. /\ pc' \in {[pc EXCEPT ![r] = "refused"], [pc EXCEPT ![r] = "creating"]}
        /\ interrupted' = interrupted
           \/ (KeyOf(r) # Unkeyed /\ interrupted' = interrupted \union {KeyOf(r)})
    BY <1>1, Zenon DEF Count
  <2>2. interrupted' \subseteq Keys /\ interrupted \subseteq interrupted'
    BY <2>1, SentTyped DEF TypeOK
  <2>3. UNCHANGED <<sent, answer, memory, record, result, stored, registered, unwritten,
                    contested, retries>>
    BY <1>1
  <2>4. CASE pc' = [pc EXCEPT ![r] = "refused"]
    BY <1>1, <2>2, <2>3, <2>4 DEF Effect, TypeOK, Stages, Waiting
  <2>5. CASE pc' = [pc EXCEPT ![r] = "creating"]
    BY <1>1, <2>2, <2>3, <2>5 DEF Effect, TypeOK, Stages, Waiting
  <2> QED  BY <2>1, <2>4, <2>5
<1>2. CASE CountKeys(r)
  <2>1. faults' \in 0..MaxFaults
    BY <1>2 DEF CountKeys, TypeOK
  <2> QED  BY <1>1, <1>2, <2>1, Zenon DEF CountKeys
<1>3. CASE CountBlindly(r)
  <2>1. faults' \in 0..MaxFaults
    BY <1>3, FaultTyped DEF CountBlindly
  <2> QED  BY <1>1, <1>3, <2>1, Zenon DEF CountBlindly
<1>4. CASE Store(r)
  BY <1>4 DEF Store, Effect, TypeOK, Stages, Waiting
<1>5. CASE StoreFails(r)
  BY <1>5, FaultTyped DEF StoreFails, Effect, TypeOK, Stages, Waiting
<1>6. CASE Register(r)
  <2>1. ServerOf(r) \in Servers
    BY SentTyped
  <2>2. registered' = [registered EXCEPT ![ServerOf(r)] = @ \union {r}]
        /\ UNCHANGED <<sent, memory, record, result, stored, unwritten, faults,
                       contested, interrupted, retries>>
    BY <1>6 DEF Register
  <2>3. registered' \in [Servers -> SUBSET Requests]
    BY <2>1, <2>2 DEF TypeOK
  <2>4. pc[r] = "registering" /\ (KeyOf(r) # Unkeyed => KeyOf(r) \in Keys)
    BY <1>6, SentTyped DEF Register
  <2>5. CASE KeyOf(r) = Unkeyed
    <3>1. pc' = [pc EXCEPT ![r] = "created"] /\ answer' = [answer EXCEPT ![r] = r]
      BY <1>6, <2>5 DEF Register
    <3> QED  BY <2>2, <2>3, <2>4, <2>5, <3>1 DEF Effect, TypeOK, Stages, Waiting
  <2>6. CASE KeyOf(r) # Unkeyed
    <3>1. pc' = [pc EXCEPT ![r] = "saving"] /\ answer' = answer
      BY <1>6, <2>6 DEF Register
    <3> QED  BY <2>2, <2>3, <2>4, <2>6, <3>1 DEF Effect, TypeOK, Stages, Waiting
  <2> QED  BY <2>5, <2>6
<1>7. CASE Save(r)
  <2>1. KeyOf(r) \in Keys /\ ServerOf(r) \in Servers
    BY <1>7, SentTyped DEF Save
  <2> DEFINE c == Completed(r, memory[ServerOf(r)][KeyOf(r)])
  <2>2. KeyOf(r) # Unkeyed
    BY <2>1, IssuanceAssumption
  <2>3. memory[ServerOf(r)][KeyOf(r)] \in Records \ {NoRecord}
    BY <1>7, <2>1, <2>2 DEF Save, TypeOK
  <2>4. c \in Records /\ c # NoRecord
    BY <2>3, RecordsTyped
  <2>5. memory' = [memory EXCEPT ![ServerOf(r)][KeyOf(r)] = c] /\ result' = [result EXCEPT ![r] = c]
    BY <1>7 DEF Save
  <2>6. pc' = [pc EXCEPT ![r] = "persisting"]
        /\ UNCHANGED <<sent, answer, record, stored, registered, unwritten,
                       faults, contested, interrupted, retries>>
    BY <1>7 DEF Save
  <2> HIDE DEF c
  <2> QED  BY <2>1, <2>4, <2>5, <2>6 DEF Effect, TypeOK, Stages, Waiting
<1>8. CASE Persist(r)
  BY <1>8 DEF Persist, Effect, TypeOK, Stages, Waiting
<1>9. CASE PersistFails(r)
  BY <1>9, FaultTyped DEF PersistFails, Effect, TypeOK, Stages, Waiting
<1> QED  BY <1>2, <1>3, <1>4, <1>5, <1>6, <1>7, <1>8, <1>9 DEF Create

LEMMA TypedInductive == Typed /\ [Next]_vars => Typed'
<1> SUFFICES ASSUME Typed, [Next]_vars PROVE Typed'
  OBVIOUS
<1>1. ASSUME NEW r \in Requests, Check(r) \/ Create(r)
      PROVE  Typed'
  <2>1. Effect(r)
    BY <1>1, CheckEffect, CreateEffect
  <2>2. TypeOK'
    BY <2>1 DEF Effect, Typed, TypeOK, Stages
  <2>3. HasKey'
    BY <2>1 DEF Effect, Typed, HasKey
  <2>4. Marked'
    <3>1. ASSUME NEW q \in Requests \ {r},
                 pc'[q] \in {"counting", "creating", "registering", "saving"}, KeyOf(q) # Unkeyed
          PROVE  memory'[ServerOf(q)][KeyOf(q)] # NoRecord
      <4>1. KeyOf(q) \in Keys /\ ServerOf(q) \in Servers
        BY <3>1, SentTyped DEF Typed
      <4>2. memory[ServerOf(q)][KeyOf(q)] # NoRecord
        BY <2>1, <3>1 DEF Effect, Typed, Marked
      <4> QED  BY <2>1, <4>1, <4>2 DEF Effect
    <3> QED  BY <2>1, <3>1 DEF Effect, Marked
  <2> QED  BY <2>2, <2>3, <2>4 DEF Typed
<1>2. ASSUME NEW r \in Requests, Revoke(r) \/ Rotate(r)
      PROVE  Typed'
  BY <1>2 DEF Revoke, Rotate, Typed, TypeOK, HasKey, Marked
<1>3. ASSUME NEW s \in Servers, Crash(s)
      PROVE  Typed'
  <2>1. /\ sent' = sent /\ UNCHANGED <<answer, record, result, stored, unwritten, contested, retries>>
        /\ pc' = [r \in Requests |-> IF r \in InFlight /\ ServerOf(r) = s THEN "lost" ELSE pc[r]]
        /\ memory' = [memory EXCEPT ![s] = [k \in Keys |-> NoRecord]]
        /\ registered' = [registered EXCEPT ![s] = {}]
        /\ interrupted' \subseteq Keys /\ faults' \in 0..MaxFaults
    BY <1>3, FaultTyped DEF Crash, Typed, TypeOK
  <2>2. TypeOK'
    <3>1. [k \in Keys |-> NoRecord] \in [Keys -> Records]
      BY DEF Records
    <3>2. pc' \in [Requests -> Stages]
      BY <2>1 DEF Typed, TypeOK, Stages
    <3> QED  BY <2>1, <3>1, <3>2 DEF Typed, TypeOK, Stages
  <2>3. HasKey'
    BY <2>1 DEF Typed, HasKey
  <2>4. Marked'
    BY <2>1, SentTyped DEF Typed, Marked, TypeOK, InFlight, Waiting
  <2> QED  BY <2>2, <2>3, <2>4 DEF Typed
<1>4. CASE UNCHANGED vars
  BY <1>4 DEF vars, Typed, TypeOK, HasKey, Marked
<1> QED  BY <1>1, <1>2, <1>3, <1>4 DEF Next

LEMMA TypedAlways == Spec => []Typed
<1>1. Init => Typed
  BY IssuanceAssumption DEF Init, Typed, TypeOK, HasKey, Marked, Records, Waiting
<1> QED  BY <1>1, TypedInductive, PTL DEF Spec

\* Every variable of KeyIssuance keeps its type.
THEOREM TypeCorrect == Spec => []TypeOK
<1>1. Typed => TypeOK
  BY DEF Typed
<1> QED  BY <1>1, TypedAlways, PTL

-----------------------------------------------------------------------------
(* AnsweredKeysWereMade. *)

\* No reply, first or replayed, names a key before the attempt to write its
\* document (api-key.service.ts:183); a key whose write failed was answered
\* with all the same, and AnsweredKeysSurvive says what becomes of it.
AnsweredKeysWereMade ==
  \A r \in Requests :
    answer[r] # Nobody => stored[answer[r]] # "none" \/ answer[r] \in unwritten

Issued == {q \in Requests : stored[q] # "none" \/ q \in unwritten}
Names == Issued \union {Nobody}

\* Whatever names a key names one that was issued.
NamesIssued ==
  /\ \A r \in Requests :
       /\ pc[r] \in {"registering", "saving", "persisting", "created"} => r \in Issued
       /\ answer[r] \in Names /\ result[r].by \in Names
  /\ \A k \in Keys : record[k].by \in Names /\ \A s \in Servers : memory[s][k].by \in Names

LEMMA IssuedKept ==
  ASSUME TypeOK, [Next]_vars
  PROVE  Issued \subseteq Issued' /\ Names \subseteq Names'
<1>1. ASSUME NEW r \in Requests, Check(r)
      PROVE  UNCHANGED <<stored, unwritten>>
  BY <1>1 DEF Check, Arrive, ArriveUnkeyed, LookUp, LookUpFails, Claim, ClaimFails, Mark
<1>2. ASSUME NEW r \in Requests, Create(r), ~Store(r), ~StoreFails(r)
      PROVE  UNCHANGED <<stored, unwritten>>
  BY <1>2 DEF Create, CountKeys, CountBlindly, Register, Save, Persist, PersistFails
<1>3. ASSUME NEW r \in Requests, Store(r) \/ StoreFails(r) \/ Revoke(r) \/ Rotate(r)
      PROVE  Issued \subseteq Issued'
  BY <1>3 DEF Store, StoreFails, Revoke, Rotate, Issued, TypeOK
<1>4. ASSUME NEW s \in Servers, Crash(s)
      PROVE  UNCHANGED <<stored, unwritten>>
  BY <1>4 DEF Crash
<1> QED  BY <1>1, <1>2, <1>3, <1>4 DEF Next, vars, Issued, Names

\* A step of request r that puts only names of issued keys where it writes.
LEMMA NamesKept ==
  ASSUME TypeOK, NamesIssued, Issued \subseteq Issued', Names \subseteq Names',
         NEW r \in Requests, Effect(r),
         pc'[r] \in {"registering", "saving", "persisting", "created"} => r \in Issued',
         answer'[r] \in Names',
         result'[r] # result[r] => result'[r].by \in Names',
         \A k \in Keys : record'[k] # record[k] => record'[k].by \in Names',
         \A k \in Keys, s \in Servers :
           memory'[s][k] # memory[s][k] => memory'[s][k].by \in Names'
  PROVE  NamesIssued'
<1>1. ASSUME NEW q \in Requests
      PROVE  /\ pc'[q] \in {"registering", "saving", "persisting", "created"} => q \in Issued'
             /\ answer'[q] \in Names' /\ result'[q].by \in Names'
  <2>1. CASE q = r
    BY <2>1 DEF NamesIssued
  <2>2. CASE q # r
    <3>1. pc'[q] = pc[q] /\ answer'[q] = answer[q] /\ result'[q] = result[q]
      BY <2>2 DEF Effect
    <3> QED  BY <3>1 DEF NamesIssued
  <2> QED  BY <2>1, <2>2
<1>2. ASSUME NEW k \in Keys
      PROVE  record'[k].by \in Names' /\ \A s \in Servers : memory'[s][k].by \in Names'
  BY DEF NamesIssued
<1> QED  BY <1>1, <1>2 DEF NamesIssued

LEMMA CheckNames ==
  ASSUME Typed, NamesIssued, NEW r \in Requests, Check(r),
         Issued \subseteq Issued', Names \subseteq Names'
  PROVE  NamesIssued'
<1>1. Effect(r) /\ TypeOK
  BY CheckEffect DEF Typed
<1>2. pc'[r] \notin {"registering", "saving", "persisting", "created"}
  BY <1>1 DEF Check, Arrive, ArriveUnkeyed, LookUp, LookUpFails, Claim, ClaimFails, Mark,
              Found, TypeOK
<1>3. result' = result
  BY DEF Check, Arrive, ArriveUnkeyed, LookUp, LookUpFails, Claim, ClaimFails, Mark
<1>4. answer'[r] \in Names'
  <2>1. ASSUME NEW rec, rec.by \in Names, NEW working, Found(r, rec, working)
        PROVE  answer'[r] \in Names'
    BY <1>1, <2>1 DEF Found, TypeOK, NamesIssued
  <2>2. CASE Arrive(r)
    <3>1. memory[ServerOf(r)][KeyOf(r)].by \in Names
      BY <1>1, <2>2, SentTyped DEF NamesIssued, Arrive
    <3>2. answer' = answer \/ Found(r, memory[ServerOf(r)][KeyOf(r)], "counting")
      BY <2>2 DEF Arrive
    <3> QED  BY <2>1, <3>1, <3>2 DEF NamesIssued
  <2>3. CASE LookUp(r)
    <3>1. record[KeyOf(r)].by \in Names
      BY <2>3 DEF NamesIssued, LookUp, Typed, HasKey
    <3>2. answer' = answer \/ Found(r, record[KeyOf(r)], "marking")
      BY <2>3 DEF LookUp
    <3> QED  BY <2>1, <3>1, <3>2 DEF NamesIssued
  <2>4. CASE answer' = answer
    BY <2>4 DEF NamesIssued
  <2> QED  BY <2>2, <2>3, <2>4 DEF Check, ArriveUnkeyed, LookUpFails, Claim, ClaimFails, Mark
<1>5. \A k \in Keys : record'[k] # record[k] => record'[k] = Processing(r)
  BY <1>1 DEF Check, Arrive, ArriveUnkeyed, LookUp, LookUpFails, Claim, ClaimFails, Mark, TypeOK
<1>6. \A k \in Keys, s \in Servers : memory'[s][k] # memory[s][k] => memory'[s][k] = Processing(r)
  BY <1>1 DEF Check, Arrive, ArriveUnkeyed, LookUp, LookUpFails, Claim, ClaimFails, Mark, TypeOK
<1>7. Processing(r).by \in Names'
  BY DEF Processing, Names
<1> QED  BY <1>1, <1>2, <1>3, <1>4, <1>5, <1>6, <1>7, NamesKept

LEMMA CreateNames ==
  ASSUME Typed, NamesIssued, NEW r \in Requests, Create(r),
         Issued \subseteq Issued', Names \subseteq Names'
  PROVE  NamesIssued'
<1>1. Effect(r) /\ TypeOK
  BY CreateEffect DEF Typed
<1>2. answer[r] \in Names'
  BY DEF NamesIssued
<1>3. ASSUME pc[r] \in {"registering", "saving", "persisting"}
      PROVE  r \in Issued' /\ r \in Names'
  BY <1>3 DEF NamesIssued, Names
<1>4. CASE CountKeys(r) \/ CountBlindly(r)
  <2>1. /\ pc' \in {[pc EXCEPT ![r] = "refused"], [pc EXCEPT ![r] = "creating"]}
        /\ UNCHANGED <<answer, memory, record, result>>
    BY <1>4, Zenon DEF CountKeys, CountBlindly, Count
  <2>2. pc'[r] \in {"refused", "creating"}
    BY <1>1, <2>1 DEF TypeOK
  <2> QED  BY <1>1, <1>2, <2>1, <2>2, NamesKept
<1>5. CASE Store(r) \/ StoreFails(r)
  <2>1. r \in Issued' /\ UNCHANGED <<answer, memory, record, result>>
    BY <1>1, <1>5 DEF Store, StoreFails, Issued, TypeOK
  <2> QED  BY <1>1, <1>2, <2>1, NamesKept
<1>6. CASE Register(r)
  <2>1. UNCHANGED <<memory, record, result>> /\ answer'[r] \in {answer[r], r}
    BY <1>1, <1>6 DEF Register, TypeOK
  <2>2. r \in Issued' /\ answer'[r] \in Names'
    BY <1>2, <1>3, <1>6, <2>1 DEF Register
  <2> QED  BY <1>1, <2>1, <2>2, NamesKept
<1>7. CASE Save(r)
  <2> DEFINE c == Completed(r, memory[ServerOf(r)][KeyOf(r)])
  <2>1. r \in Issued' /\ r \in Names' /\ UNCHANGED <<answer, record>>
    BY <1>3, <1>7 DEF Save
  <2>2. c.by = r
    BY DEF Completed
  <2>3. memory' = [memory EXCEPT ![ServerOf(r)][KeyOf(r)] = c] /\ result' = [result EXCEPT ![r] = c]
    BY <1>7 DEF Save
  <2> HIDE DEF c
  <2>4. /\ result'[r] = c
        /\ \A k \in Keys, s \in Servers : memory'[s][k] # memory[s][k] => memory'[s][k] = c
    BY <1>1, <2>3 DEF TypeOK
  <2> QED  BY <1>1, <1>2, <2>1, <2>2, <2>4, NamesKept
<1>8. CASE Persist(r) \/ PersistFails(r)
  <2>1. r \in Issued' /\ r \in Names' /\ UNCHANGED <<memory, result>> /\ answer'[r] = r
    BY <1>1, <1>3, <1>8 DEF Persist, PersistFails, TypeOK
  <2>2. \A k \in Keys : record'[k] # record[k] => record'[k] = result[r]
    BY <1>1, <1>8 DEF Persist, PersistFails, TypeOK
  <2>3. result[r].by \in Names'
    BY DEF NamesIssued
  <2> QED  BY <1>1, <2>1, <2>2, <2>3, NamesKept
<1> QED  BY <1>4, <1>5, <1>6, <1>7, <1>8 DEF Create

LEMMA NamesInductive == Typed /\ NamesIssued /\ [Next]_vars => NamesIssued'
<1> SUFFICES ASSUME Typed, NamesIssued, [Next]_vars PROVE NamesIssued'
  OBVIOUS
<1>1. TypeOK /\ Issued \subseteq Issued' /\ Names \subseteq Names'
  BY IssuedKept DEF Typed
<1>2. ASSUME NEW s \in Servers, Crash(s)
      PROVE  NamesIssued'
  <2>1. /\ UNCHANGED <<answer, record, result>>
        /\ \A r \in Requests : pc'[r] \in {pc[r], "lost"}
        /\ \A u \in Servers, k \in Keys : memory'[u][k] \in {memory[u][k], NoRecord}
    BY <1>1, <1>2 DEF Crash, TypeOK
  <2>2. NoRecord.by \in Names'
    BY DEF NoRecord, Names
  <2> QED  BY <1>1, <2>1, <2>2 DEF NamesIssued
<1>3. ASSUME UNCHANGED <<pc, answer, memory, record, result>>
      PROVE  NamesIssued'
  BY <1>1, <1>3 DEF NamesIssued
<1> QED  BY <1>1, <1>2, <1>3, CheckNames, CreateNames DEF Next, Revoke, Rotate, vars

\* A reply names no key before its document was written or failed to be.
THEOREM AnswersWereMade == Spec => []AnsweredKeysWereMade
<1>1. Init => NamesIssued
  BY DEF Init, NamesIssued, Names, NoRecord
<1>2. NamesIssued => AnsweredKeysWereMade
  BY DEF NamesIssued, Names, Issued, AnsweredKeysWereMade
<1> QED  BY <1>1, <1>2, NamesInductive, TypedAlways, PTL DEF Spec

-----------------------------------------------------------------------------
(* RetriesCreateNothing. *)

\* The stages at which a request has read the records of its key and is going
\* to complete them, and those at which its process holds its mark.
Late == {"marking", "counting", "creating", "registering", "saving", "persisting"}
Local == {"counting", "creating", "registering", "saving"}

\* Records of key k that are being processed are so by somebody, a record that
\* is about to be persisted is complete, and an answered key has a record.
Live(k) ==
  /\ record[k].status = "PROCESSING"
     => \E q \in Requests : KeyOf(q) = k /\ pc[q] \in Late
  /\ \A s \in Servers : memory[s][k].status = "PROCESSING"
     => \E q \in Requests : KeyOf(q) = k /\ ServerOf(q) = s /\ pc[q] \in Local
  /\ \A q \in Requests : KeyOf(q) = k =>
       /\ pc[q] = "created" => record[k].status # "none"
       /\ pc[q] = "persisting" => result[q].status = "COMPLETED"

\* Key k is done with: whoever reads its records finds a complete one.
Final(k) ==
  /\ record[k].status = "COMPLETED"
  /\ \A s \in Servers : memory[s][k].status # "PROCESSING"
  /\ \A q \in Requests : KeyOf(q) = k => pc[q] \notin Late \union {"claiming"}

Retried(k) == \E r \in retries : KeyOf(r) = k

Orderly ==
  \A k \in Keys \ interrupted :
    /\ Live(k)
    /\ Retried(k) => Final(k)
    /\ \A r \in retries : KeyOf(r) = k => pc[r] \in {"looking", "replayed", "failed"}

LEMMA StatusTyped ==
  ASSUME NEW rec \in Records
  PROVE  /\ rec.status \in {"none", "PROCESSING", "COMPLETED"}
         /\ rec.status = "none" <=> rec = NoRecord
  BY DEF Records, NoRecord

\* A step of one request leaves the records of the other keys alone.
LEMMA OrderlyElsewhere ==
  ASSUME TypeOK, NEW r \in Requests, Effect(r), NEW k \in Keys, KeyOf(r) # k,
         Live(k)
  PROVE  Live(k)' /\ (Final(k) => Final(k)')
<1>1. /\ record'[k] = record[k] /\ \A s \in Servers : memory'[s][k] = memory[s][k]
      /\ sent' = sent
      /\ \A q \in Requests : KeyOf(q) = k => pc'[q] = pc[q] /\ result'[q] = result[q]
  BY DEF Effect
<1> QED  BY <1>1 DEF Live, Final

\* The steps of a request of key k keep its records live.
LEMMA LiveSteps ==
  ASSUME Typed, NEW r \in Requests, Check(r) \/ Create(r), NEW k \in Keys, KeyOf(r) = k,
         k \notin interrupted', Live(k)
  PROVE  Live(k)'
<1>1. /\ TypeOK /\ Effect(r) /\ sent' = sent /\ k # Unkeyed /\ ServerOf(r) \in Servers
      /\ \A q \in Requests \ {r} : pc'[q] = pc[q] /\ result'[q] = result[q]
  <2>1. TypeOK /\ Effect(r) /\ ServerOf(r) \in Servers
    BY CheckEffect, CreateEffect, SentTyped DEF Typed
  <2> QED  BY <2>1, IssuanceAssumption DEF Effect
<1> USE <1>1
<1>2. ASSUME UNCHANGED <<memory, record, result>>, pc[r] \notin Late,
             pc'[r] \notin {"created", "persisting"}
      PROVE  Live(k)'
  BY <1>2 DEF Live, Local, Late
<1>3. ASSUME UNCHANGED <<memory, record, result>>, pc[r] \in Local, pc'[r] \in Local
      PROVE  Live(k)'
  BY <1>3 DEF Live, Local, Late
<1>4. CASE Arrive(r) \/ LookUp(r) \/ ClaimFails(r)
  <2>1. UNCHANGED <<memory, record, result>> /\ pc[r] \in {"new", "looking", "claiming"}
    BY <1>4 DEF Arrive, LookUp, ClaimFails
  <2>2. pc'[r] \notin {"created", "persisting"}
    BY <1>4 DEF Arrive, LookUp, ClaimFails, Found, TypeOK
  <2> QED  BY <1>2, <2>1, <2>2 DEF Late
<1>5. CASE Claim(r)
  <2>1. /\ pc[r] = "claiming" /\ pc'[r] = "marking" /\ UNCHANGED <<memory, result>>
        /\ record'[k] = Processing(r)
    BY <1>5 DEF Claim, TypeOK
  <2>2. Processing(r).status = "PROCESSING"
    BY DEF Processing
  <2> QED  BY <2>1, <2>2 DEF Live, Local, Late
<1>6. CASE Mark(r)
  <2>1. pc[r] = "marking" /\ pc'[r] = "counting" /\ UNCHANGED <<record, result>>
    BY <1>6 DEF Mark, TypeOK
  <2>2. \A s \in Servers \ {ServerOf(r)} : memory'[s][k] = memory[s][k]
    BY DEF Effect
  <2> QED  BY <2>1, <2>2 DEF Live, Local, Late
<1>7. CASE CountKeys(r) \/ CountBlindly(r)
  <2>1. pc[r] = "counting" /\ UNCHANGED <<memory, record, result>>
    BY <1>7 DEF CountKeys, CountBlindly
  <2>2. \/ pc' = [pc EXCEPT ![r] = "creating"]
        \/ interrupted' = interrupted \union {k}
    BY <1>7, Zenon DEF CountKeys, CountBlindly, Count
  <2>3. pc'[r] = "creating"
    BY <2>2 DEF TypeOK
  <2> QED  BY <1>3, <2>1, <2>3 DEF Local
<1>8. CASE Store(r) \/ StoreFails(r) \/ Register(r)
  <2>1. /\ pc[r] \in {"creating", "registering"} /\ pc'[r] \in {"registering", "saving"}
        /\ UNCHANGED <<memory, record, result>>
    BY <1>8 DEF Store, StoreFails, Register, TypeOK
  <2> QED  BY <1>3, <2>1 DEF Local
<1>9. CASE Save(r)
  <2> DEFINE c == Completed(r, memory[ServerOf(r)][KeyOf(r)])
  <2>1. c.status = "COMPLETED"
    BY DEF Completed
  <2>2. /\ memory' = [memory EXCEPT ![ServerOf(r)][KeyOf(r)] = c]
        /\ result' = [result EXCEPT ![r] = c]
        /\ pc[r] = "saving" /\ pc'[r] = "persisting" /\ record' = record
    BY <1>9 DEF Save, TypeOK
  <2> HIDE DEF c
  <2>3. memory'[ServerOf(r)][k] = c /\ result'[r] = c
    BY <2>2 DEF TypeOK
  <2>4. \A s \in Servers \ {ServerOf(r)} : memory'[s][k] = memory[s][k]
    BY DEF Effect
  <2> QED  BY <2>1, <2>2, <2>3, <2>4 DEF Live, Local, Late
<1>10. CASE Persist(r)
  <2>1. /\ pc[r] = "persisting" /\ pc'[r] = "created" /\ UNCHANGED <<memory, result>>
        /\ record'[k] = result[r]
    BY <1>10 DEF Persist, TypeOK
  <2>2. record'[k].status = "COMPLETED"
    BY <2>1 DEF Live
  <2> QED  BY <2>1, <2>2 DEF Live, Local, Late
<1>11. ~LookUpFails(r) /\ ~PersistFails(r) /\ ~ArriveUnkeyed(r)
  BY DEF LookUpFails, PersistFails, ArriveUnkeyed
<1> QED  BY <1>4, <1>5, <1>6, <1>7, <1>8, <1>9, <1>10, <1>11 DEF Check, Create

\* Once a key is done with, its requests find that out and end.
LEMMA FinalSteps ==
  ASSUME Typed, NEW r \in Requests, Check(r) \/ Create(r), NEW k \in Keys, KeyOf(r) = k,
         k \notin interrupted', Final(k)
  PROVE  /\ Final(k)' /\ pc[r] \in {"new", "looking"}
         /\ pc'[r] \in {"looking", "replayed", "failed"}
<1>1. /\ TypeOK /\ Effect(r) /\ sent' = sent /\ k # Unkeyed /\ ServerOf(r) \in Servers
      /\ \A q \in Requests \ {r} : pc'[q] = pc[q]
  <2>1. TypeOK /\ Effect(r) /\ ServerOf(r) \in Servers
    BY CheckEffect, CreateEffect, SentTyped DEF Typed
  <2> QED  BY <2>1, IssuanceAssumption DEF Effect
<1> USE <1>1
<1>2. pc[r] \in {"new", "looking"}
  BY DEF Final, Late, Check, Create, Arrive, ArriveUnkeyed, LookUp, LookUpFails, Claim,
         ClaimFails, Mark, CountKeys, CountBlindly, Store, StoreFails, Register, Save,
         Persist, PersistFails
<1>3. Arrive(r) \/ LookUp(r)
  BY <1>2 DEF Check, Create, ArriveUnkeyed, LookUpFails, Claim, ClaimFails, Mark, CountKeys,
              CountBlindly, Store, StoreFails, Register, Save, Persist, PersistFails
<1>4. ASSUME NEW rec \in Records, NEW working, rec.status = "COMPLETED",
             Found(r, rec, working)
      PROVE  pc'[r] \in {"replayed", "failed"}
  BY <1>4 DEF Found, TypeOK
<1>5. pc'[r] \in {"looking", "replayed", "failed"}
  <2>1. CASE LookUp(r)
    <3>1. record[k] \in Records /\ record[k].status = "COMPLETED" /\ record[k] # NoRecord
      BY StatusTyped DEF Final, TypeOK, NoRecord
    <3> QED  BY <1>4, <2>1, <3>1 DEF LookUp
  <2>2. CASE Arrive(r)
    <3>1. memory[ServerOf(r)][k] \in Records
      BY DEF TypeOK
    <3>2. CASE memory[ServerOf(r)][k] = NoRecord
      BY <2>2, <3>2 DEF Arrive, TypeOK
    <3>3. CASE memory[ServerOf(r)][k] # NoRecord
      <4>1. memory[ServerOf(r)][k].status = "COMPLETED"
        BY <3>1, <3>3, StatusTyped DEF Final
      <4>2. Found(r, memory[ServerOf(r)][k], "counting")
        BY <2>2, <3>3 DEF Arrive
      <4> QED  BY <1>4, <3>1, <4>1, <4>2
    <3> QED  BY <3>2, <3>3
  <2> QED  BY <1>3, <2>1, <2>2
<1>6. UNCHANGED <<memory, record>>
  BY <1>3 DEF Arrive, LookUp
<1> QED  BY <1>2, <1>5, <1>6 DEF Final, Late

\* Who arrives when the key was answered and nobody is at it finds it done with.
LEMMA FinalNow ==
  ASSUME TypeOK, NEW k \in Keys, Live(k), ~\E q \in InFlight : KeyOf(q) = k,
         \E q \in Requests : KeyOf(q) = k /\ pc[q] = "created"
  PROVE  Final(k)
<1>1. \A q \in Requests : KeyOf(q) = k => pc[q] \notin Late \union Local \union {"claiming"}
  BY DEF InFlight, Waiting, Late, Local
<1>2. record[k].status \in {"none", "PROCESSING", "COMPLETED"}
  BY StatusTyped DEF TypeOK
<1> QED  BY <1>1, <1>2 DEF Live, Final

LEMMA OrderlyInductive == Typed /\ Orderly /\ [Next]_vars => Orderly'
<1> SUFFICES ASSUME Typed, Orderly, [Next]_vars, NEW k \in Keys, k \notin interrupted'
             PROVE  /\ Live(k)' /\ (Retried(k) => Final(k))'
                    /\ \A r \in retries' : KeyOf(r)' = k =>
                         pc'[r] \in {"looking", "replayed", "failed"}
  BY DEF Orderly
<1>1. ASSUME NEW r \in Requests, Check(r) \/ Create(r)
      PROVE  /\ Live(k)' /\ (Retried(k) => Final(k))'
             /\ \A q \in retries' : KeyOf(q)' = k =>
                  pc'[q] \in {"looking", "replayed", "failed"}
  <2>1. /\ Effect(r) /\ TypeOK /\ sent' = sent /\ retries \subseteq Requests
        /\ \A q \in Requests \ {r} : pc'[q] = pc[q]
    BY <1>1, CheckEffect, CreateEffect DEF Effect, Typed, TypeOK
  <2>2. /\ k \notin interrupted /\ Live(k) /\ (Retried(k) => Final(k))
        /\ \A q \in retries : KeyOf(q) = k => pc[q] \in {"looking", "replayed", "failed"}
    BY <2>1 DEF Effect, Orderly
  <2>3. \/ retries' = retries
        \/ /\ Arrive(r) /\ retries' = retries \union {r}
           /\ ~\E q \in InFlight : KeyOf(q) = KeyOf(r)
           /\ \E q \in Requests : KeyOf(q) = KeyOf(r) /\ pc[q] = "created"
    BY <1>1 DEF Check, Create, Arrive, ArriveUnkeyed, LookUp, LookUpFails, Claim, ClaimFails,
                Mark, CountKeys, CountBlindly, Store, StoreFails, Register, Save, Persist,
                PersistFails
  <2>4. CASE KeyOf(r) # k
    <3>1. Live(k)' /\ (Final(k) => Final(k)')
      BY <2>1, <2>2, <2>4, OrderlyElsewhere
    <3>2. \A q \in retries' : KeyOf(q)' = k => q \in retries /\ q # r /\ KeyOf(q) = k
      BY <2>1, <2>3, <2>4
    <3> QED  BY <2>1, <2>2, <3>1, <3>2 DEF Retried
  <2>5. CASE KeyOf(r) = k
    <3>1. Live(k)'
      BY <1>1, <2>2, <2>5, LiveSteps
    <3>2. ASSUME Retried(k)' PROVE Final(k)
      <4>1. CASE retries' = retries
        BY <2>1, <2>2, <3>2, <4>1 DEF Retried
      <4>2. CASE retries' # retries
        BY <2>1, <2>2, <2>3, <2>5, <4>2, FinalNow
      <4> QED  BY <4>1, <4>2
    <3>3. ASSUME Final(k)
          PROVE  Final(k)' /\ pc'[r] \in {"looking", "replayed", "failed"}
      BY <1>1, <2>5, <3>3, FinalSteps
    <3>4. ASSUME NEW q \in retries', KeyOf(q)' = k
          PROVE  pc'[q] \in {"looking", "replayed", "failed"}
      <4>1. Retried(k)' /\ q \in retries \union {r}
        BY <2>3, <3>4 DEF Retried
      <4>2. CASE q = r
        BY <3>2, <3>3, <4>1, <4>2
      <4>3. CASE q # r
        BY <2>1, <2>2, <3>4, <4>1, <4>3
      <4> QED  BY <4>2, <4>3
    <3> QED  BY <3>1, <3>2, <3>3, <3>4
  <2> QED  BY <2>4, <2>5
<1>2. ASSUME NEW s \in Servers, Crash(s)
      PROVE  /\ Live(k)' /\ (Retried(k) => Final(k))'
             /\ \A q \in retries' : KeyOf(q)' = k =>
                  pc'[q] \in {"looking", "replayed", "failed"}
  <2>1. /\ sent' = sent /\ UNCHANGED <<record, result, retries>> /\ TypeOK
        /\ memory' = [memory EXCEPT ![s] = [j \in Keys |-> NoRecord]]
        /\ pc' = [r \in Requests |-> IF r \in InFlight /\ ServerOf(r) = s THEN "lost" ELSE pc[r]]
        /\ \A r \in InFlight : ServerOf(r) = s => KeyOf(r) # k
        /\ k \notin interrupted
    BY <1>2 DEF Crash, Typed
  <2>2. /\ memory'[s][k] = NoRecord
        /\ \A u \in Servers \ {s} : memory'[u][k] = memory[u][k]
        /\ \A q \in Requests : KeyOf(q) = k => pc'[q] = pc[q]
    BY <2>1 DEF TypeOK
  <2>3. NoRecord.status = "none" /\ retries \subseteq Requests
    BY <2>1 DEF NoRecord, TypeOK
  <2>4. /\ Live(k) /\ (Retried(k) => Final(k))
        /\ \A q \in retries : KeyOf(q) = k => pc[q] \in {"looking", "replayed", "failed"}
    BY <2>1 DEF Orderly
  <2>5. Live(k)'
    BY <2>1, <2>2, <2>3, <2>4 DEF Live
  <2>6. Final(k) => Final(k)'
    BY <2>1, <2>2, <2>3 DEF Final
  <2> QED  BY <2>1, <2>2, <2>3, <2>4, <2>5, <2>6 DEF Retried
<1>3. ASSUME UNCHANGED <<sent, pc, memory, record, result, interrupted, retries>>
      PROVE  /\ Live(k)' /\ (Retried(k) => Final(k))'
             /\ \A q \in retries' : KeyOf(q)' = k =>
                  pc'[q] \in {"looking", "replayed", "failed"}
  BY <1>3 DEF Orderly, Live, Final, Retried
<1> QED  BY <1>1, <1>2, <1>3 DEF Next, Revoke, Rotate, vars

\* Retries carry an idempotency key.
Retrying == \A r \in retries : KeyOf(r) \in Keys

LEMMA RetryingInductive == Typed /\ Retrying /\ [Next]_vars => Retrying'
<1> SUFFICES ASSUME Typed, Retrying, [Next]_vars PROVE Retrying'
  OBVIOUS
<1>1. ASSUME NEW r \in Requests, Arrive(r) PROVE Retrying'
  <2>1. sent' = sent /\ retries' \subseteq retries \union {r} /\ KeyOf(r) \in Keys
    BY <1>1, SentTyped DEF Arrive, Typed
  <2> QED  BY <2>1 DEF Retrying
<1>2. CASE sent' = sent /\ retries' = retries
  BY <1>2 DEF Retrying
<1> QED
  BY <1>1, <1>2
  DEF Next, vars, Check, Create, Revoke, Rotate, Crash, ArriveUnkeyed, LookUp, LookUpFails,
      Claim, ClaimFails, Mark, CountKeys, CountBlindly, Store, StoreFails, Register, Save,
      Persist, PersistFails

\* An idempotency key that was answered, that nobody is at and that no failure
\* interrupted makes nothing more, overlaps of its earlier requests included.
THEOREM RetriesAreIdle == Spec => []RetriesCreateNothing
<1>1. Init => Orderly /\ Retrying
  BY DEF Init, Orderly, Live, Retried, NoRecord, Retrying
<1>2. Orderly /\ Retrying => RetriesCreateNothing
  <2> SUFFICES ASSUME Orderly, Retrying, NEW r \in retries, KeyOf(r) \notin interrupted
               PROVE  pc[r] \in {"looking", "replayed", "failed"}
    BY DEF RetriesCreateNothing
  <2>1. KeyOf(r) \in Keys
    BY DEF Retrying
  <2> QED  BY <2>1 DEF Orderly
<1> QED  BY <1>1, <1>2, OrderlyInductive, RetryingInductive, TypedAlways, PTL DEF Spec

-----------------------------------------------------------------------------
(* RetriesReplay. *)

\* The record a request leaves for its retries.
Done(r) == [status |-> "COMPLETED", body |-> BodyOf(r), by |-> r]

\* A key nobody has used.
Idle(k) ==
  /\ record[k] = NoRecord /\ \A s \in Servers : memory[s][k] = NoRecord
  /\ \A q \in Requests : KeyOf(q) = k => pc[q] = "new"

\* Request r is the only one of its key so far: what it has written.
Written(k, r) ==
  /\ record[k] \in {NoRecord, Processing(r)}
  /\ pc[r] \in {"looking", "claiming"} => record[k] = NoRecord
  /\ \A s \in Servers \ {ServerOf(r)} : memory[s][k] = NoRecord
  /\ pc[r] \in {"looking", "claiming", "marking"} => memory[ServerOf(r)][k] = NoRecord
  /\ pc[r] \in {"counting", "creating", "registering", "saving"}
     => memory[ServerOf(r)][k] = Processing(r)
  /\ pc[r] = "persisting" => memory[ServerOf(r)][k] = Done(r) /\ result[r] = Done(r)

Busy(k, r) ==
  /\ KeyOf(r) = k /\ pc[r] \in Waiting
  /\ \A q \in Requests \ {r} : KeyOf(q) = k => pc[q] = "new"
  /\ Written(k, r)

\* Request r is complete: the others of its key replay it or fail.
Settled(q, r) ==
  \/ BodyOf(q) = BodyOf(r) /\ pc[q] = "replayed" /\ answer[q] = r
  \/ BodyOf(q) # BodyOf(r) /\ pc[q] = "failed"

Over(k, r) ==
  /\ KeyOf(r) = k /\ pc[r] = "created" /\ record[k] = Done(r)
  /\ \A s \in Servers : memory[s][k] \in {NoRecord, Done(r)}
  /\ \A q \in Requests \ {r} :
       KeyOf(q) = k => pc[q] \in {"new", "looking"} \/ Settled(q, r)

Sound(k) == Idle(k) \/ \E r \in Requests : Busy(k, r) \/ Over(k, r)

Clean == \A k \in Quiet : Sound(k)

LEMMA RecordsDiffer ==
  ASSUME NEW r
  PROVE  /\ Processing(r) # NoRecord /\ Done(r) # NoRecord
         /\ Completed(r, Processing(r)) = Done(r)
  BY DEF Processing, Done, NoRecord, Completed

\* A step that touches nothing of key k.
LEMMA SoundKept ==
  ASSUME TypeOK, NEW k \in Keys, Sound(k), sent' = sent, record'[k] = record[k],
         \A s \in Servers : memory'[s][k] = memory[s][k],
         \A q \in Requests : KeyOf(q) = k =>
           pc'[q] = pc[q] /\ answer'[q] = answer[q] /\ result'[q] = result[q]
  PROVE  Sound(k)'
<1>1. CASE Idle(k)
  BY <1>1 DEF Idle, Sound
<1>2. ASSUME NEW r \in Requests, Busy(k, r)
      PROVE  Sound(k)'
  <2>1. Processing(r)' = Processing(r) /\ Done(r)' = Done(r)
    BY DEF Processing, Done
  <2>2. pc'[r] = pc[r] /\ result'[r] = result[r]
    BY <1>2 DEF Busy
  <2>3. Written(k, r)'
    <3>1. ServerOf(r) \in Servers /\ memory'[ServerOf(r)][k] = memory[ServerOf(r)][k]
      BY SentTyped
    <3> QED  BY <1>2, <2>1, <2>2, <3>1 DEF Busy, Written
  <2> QED  BY <1>2, <2>2, <2>3 DEF Busy, Sound
<1>3. ASSUME NEW r \in Requests, Over(k, r)
      PROVE  Sound(k)'
  <2>1. Over(k, r)'
    BY <1>3 DEF Over, Settled, Done
  <2> QED  BY <2>1 DEF Sound
<1> QED  BY <1>1, <1>2, <1>3 DEF Sound

\* What a request does that finds the record of a completed one.
LEMMA FoundDone ==
  ASSUME TypeOK, NEW q \in Requests, NEW r \in Requests, NEW working, sent' = sent,
         Found(q, Done(r), working)
  PROVE  Settled(q, r)' /\ \A p \in Requests \ {q} : pc'[p] = pc[p] /\ answer'[p] = answer[p]
<1>1. /\ Done(r).status = "COMPLETED" /\ Done(r).body = BodyOf(r) /\ Done(r).by = r
      /\ BodyOf(q)' = BodyOf(q) /\ BodyOf(r)' = BodyOf(r)
  BY DEF Done
<1>2. CASE BodyOf(r) # BodyOf(q)
  <2>1. pc' = [pc EXCEPT ![q] = "failed"] /\ answer' = answer
    BY <1>1, <1>2 DEF Found
  <2> QED  BY <1>1, <1>2, <2>1 DEF Settled, TypeOK
<1>3. CASE BodyOf(r) = BodyOf(q)
  <2>1. pc' = [pc EXCEPT ![q] = "replayed"] /\ answer' = [answer EXCEPT ![q] = r]
    BY <1>1, <1>3 DEF Found
  <2> QED  BY <1>1, <1>3, <2>1 DEF Settled, TypeOK
<1> QED  BY <1>2, <1>3

\* The steps of the only request of a key.
LEMMA BusySteps ==
  ASSUME Typed, NEW k \in Keys, NEW r \in Requests, Busy(k, r), Check(r) \/ Create(r),
         k \in Quiet'
  PROVE  Busy(k, r)' \/ Over(k, r)'
<1> USE DEF Busy
<1>1. /\ TypeOK /\ Effect(r) /\ sent' = sent /\ KeyOf(r) = k /\ k # Unkeyed
      /\ ServerOf(r) \in Servers
      /\ \A q \in Requests \ {r} : KeyOf(q) = k => pc'[q] = "new"
      /\ \A s \in Servers \ {ServerOf(r)} : memory'[s][k] = NoRecord
  <2>1. TypeOK /\ Effect(r) /\ ServerOf(r) \in Servers
    BY CheckEffect, CreateEffect, SentTyped DEF Typed
  <2>2. sent' = sent /\ KeyOf(r) = k /\ k # Unkeyed
    BY <2>1, IssuanceAssumption DEF Effect
  <2>3. \A q \in Requests \ {r} : KeyOf(q) = k => pc'[q] = "new"
    BY <2>1 DEF Effect
  <2>4. \A s \in Servers \ {ServerOf(r)} : memory[s][k] = NoRecord
    BY DEF Written
  <2>5. \A s \in Servers \ {ServerOf(r)} : memory'[s][k] = NoRecord
    BY <2>1, <2>4 DEF Effect
  <2> QED  BY <2>1, <2>2, <2>3, <2>5
<1>2. Processing(r)' = Processing(r) /\ Done(r)' = Done(r)
  BY <1>1 DEF Processing, Done
<1> USE <1>1, <1>2
<1>3. CASE LookUp(r)
  <2>1. record[k] = NoRecord
    BY <1>3 DEF LookUp, Written
  <2>2. pc' = [pc EXCEPT ![r] = "claiming"] /\ UNCHANGED <<memory, record, result>>
    BY <1>3, <2>1 DEF LookUp
  <2>3. pc[r] = "looking" /\ pc'[r] = "claiming"
    BY <1>3, <2>2 DEF LookUp, TypeOK
  <2> QED  BY <2>1, <2>2, <2>3 DEF Written, Waiting
<1>4. CASE Claim(r)
  <2>1. /\ pc[r] = "claiming" /\ pc'[r] = "marking" /\ UNCHANGED <<memory, result>>
        /\ record'[k] = Processing(r)
    BY <1>4 DEF Claim, TypeOK
  <2> QED  BY <2>1 DEF Written, Waiting
<1>5. CASE ClaimFails(r)
  <2>1. pc[r] = "claiming" /\ pc'[r] = "marking" /\ UNCHANGED <<memory, record, result>>
    BY <1>5 DEF ClaimFails, TypeOK
  <2> QED  BY <2>1 DEF Written, Waiting
<1>6. CASE Mark(r)
  <2>1. memory' = [memory EXCEPT ![ServerOf(r)][k] = Processing(r)]
    BY <1>6 DEF Mark
  <2>2. memory'[ServerOf(r)][k] = Processing(r)
    BY <2>1 DEF TypeOK
  <2>3. pc[r] = "marking" /\ pc'[r] = "counting" /\ UNCHANGED <<record, result>>
    BY <1>6 DEF Mark, TypeOK
  <2> QED  BY <2>2, <2>3 DEF Written, Waiting
<1>7. CASE CountKeys(r) \/ CountBlindly(r)
  <2>1. pc[r] = "counting" /\ UNCHANGED <<memory, record, result>>
    BY <1>7 DEF CountKeys, CountBlindly
  <2>2. \/ pc' = [pc EXCEPT ![r] = "creating"]
        \/ interrupted' = interrupted \union {k}
    BY <1>7, Zenon DEF CountKeys, CountBlindly, Count
  <2>3. pc'[r] = "creating"
    BY <2>2 DEF Quiet, TypeOK
  <2> QED  BY <2>1, <2>3 DEF Written, Waiting
<1>8. CASE Store(r) \/ StoreFails(r)
  <2>1. pc[r] = "creating" /\ pc'[r] = "registering" /\ UNCHANGED <<memory, record, result>>
    BY <1>8 DEF Store, StoreFails, TypeOK
  <2> QED  BY <2>1 DEF Written, Waiting
<1>9. CASE Register(r)
  <2>1. pc[r] = "registering" /\ pc'[r] = "saving" /\ UNCHANGED <<memory, record, result>>
    BY <1>9 DEF Register, TypeOK
  <2> QED  BY <2>1 DEF Written, Waiting
<1>10. CASE Save(r)
  <2>1. memory[ServerOf(r)][k] = Processing(r)
    BY <1>10 DEF Save, Written
  <2>2. /\ memory' = [memory EXCEPT ![ServerOf(r)][k] = Done(r)]
        /\ result' = [result EXCEPT ![r] = Done(r)]
    BY <1>10, <2>1, RecordsDiffer DEF Save
  <2>3. memory'[ServerOf(r)][k] = Done(r) /\ result'[r] = Done(r)
    BY <2>2 DEF TypeOK
  <2>4. pc[r] = "saving" /\ pc'[r] = "persisting" /\ record' = record
    BY <1>10 DEF Save, TypeOK
  <2> QED  BY <2>3, <2>4 DEF Written, Waiting
<1>11. CASE Persist(r)
  <2>1. pc[r] = "persisting" /\ result[r] = Done(r) /\ memory[ServerOf(r)][k] = Done(r)
    BY <1>11 DEF Persist, Written
  <2>2. pc'[r] = "created" /\ memory' = memory /\ record'[k] = Done(r)
    BY <1>11, <2>1 DEF Persist, TypeOK
  <2>3. \A s \in Servers : memory'[s][k] \in {NoRecord, Done(r)}
    BY <2>1, <2>2 DEF Written
  <2> QED  BY <2>2, <2>3 DEF Over
<1>12. ~LookUpFails(r) /\ ~PersistFails(r)
  BY DEF LookUpFails, PersistFails, Quiet
<1>13. ~Arrive(r) /\ ~ArriveUnkeyed(r)
  BY DEF Arrive, ArriveUnkeyed, Waiting
<1> QED  BY <1>3, <1>4, <1>5, <1>6, <1>7, <1>8, <1>9, <1>10, <1>11, <1>12, <1>13
         DEF Check, Create

\* The steps of another request of a key whose request r is complete.
LEMMA OverSteps ==
  ASSUME Typed, NEW k \in Keys, NEW r \in Requests, Over(k, r),
         NEW q \in Requests, KeyOf(q) = k, Check(q) \/ Create(q), k \in Quiet'
  PROVE  Over(k, r)'
<1>1. /\ TypeOK /\ Effect(q) /\ sent' = sent /\ k # Unkeyed /\ ServerOf(q) \in Servers
      /\ Done(r)' = Done(r) /\ Done(r) # NoRecord
  <2>1. TypeOK /\ Effect(q) /\ ServerOf(q) \in Servers
    BY CheckEffect, CreateEffect, SentTyped DEF Typed
  <2> QED  BY <2>1, RecordsDiffer, IssuanceAssumption DEF Effect, Done
<1> USE <1>1
<1>2. q # r /\ pc[q] \in {"new", "looking"}
  BY DEF Over, Settled, Check, Create, Arrive, ArriveUnkeyed, LookUp, LookUpFails, Claim,
         ClaimFails, Mark, CountKeys, CountBlindly, Store, StoreFails, Register, Save,
         Persist, PersistFails
<1>3. Arrive(q) \/ LookUp(q)
  BY <1>2 DEF Check, Create, ArriveUnkeyed, LookUpFails, Claim, ClaimFails, Mark, CountKeys,
              CountBlindly, Store, StoreFails, Register, Save, Persist, PersistFails, Quiet
<1>4. UNCHANGED <<memory, record>>
  BY <1>3 DEF Arrive, LookUp
<1>5. pc'[q] = "looking" \/ Settled(q, r)'
  <2>1. CASE LookUp(q)
    <3>1. Found(q, Done(r), "marking")
      BY <2>1 DEF LookUp, Over
    <3> QED  BY <3>1, FoundDone
  <2>2. CASE Arrive(q)
    <3>1. CASE memory[ServerOf(q)][k] = NoRecord
      BY <2>2, <3>1 DEF Arrive, TypeOK
    <3>2. CASE memory[ServerOf(q)][k] = Done(r)
      <4>1. Found(q, Done(r), "counting")
        BY <2>2, <3>2 DEF Arrive
      <4> QED  BY <4>1, FoundDone
    <3> QED  BY <3>1, <3>2 DEF Over
  <2> QED  BY <1>3, <2>1, <2>2
<1>6. ASSUME NEW p \in Requests \ {r, q}, KeyOf(p) = k
      PROVE  pc'[p] \in {"new", "looking"} \/ Settled(p, r)'
  <2>1. pc'[p] = pc[p] /\ answer'[p] = answer[p]
    BY <1>6 DEF Effect
  <2> QED  BY <1>6, <2>1 DEF Over, Settled
<1>7. pc'[r] = "created"
  BY <1>2 DEF Effect, Over
<1> QED  BY <1>4, <1>5, <1>6, <1>7 DEF Over

LEMMA CleanInductive == Typed /\ Clean /\ [Next]_vars => Clean'
<1> SUFFICES ASSUME Typed, Clean, [Next]_vars, NEW k \in Keys, k \in Quiet'
             PROVE  Sound(k)'
  BY DEF Clean, Quiet
<1>1. ASSUME NEW r \in Requests, Check(r) \/ Create(r)
      PROVE  Sound(k)'
  <2>1. Effect(r) /\ sent' = sent /\ TypeOK /\ k # Unkeyed
    BY <1>1, CheckEffect, CreateEffect, IssuanceAssumption DEF Effect, Typed
  <2>2. Sound(k)
    BY <2>1 DEF Effect, Clean, Quiet
  <2>3. CASE KeyOf(r) # k
    BY <2>1, <2>2, <2>3, SoundKept DEF Effect, Quiet
  <2>4. CASE KeyOf(r) = k /\ Idle(k)
    <3>1. pc[r] = "new" /\ Arrive(r)
      BY <1>1, <2>1, <2>4
      DEF Idle, Check, Create, ArriveUnkeyed, LookUp, LookUpFails, Claim, ClaimFails, Mark,
          CountKeys, CountBlindly, Store, StoreFails, Register, Save, Persist, PersistFails
    <3>2. memory[ServerOf(r)][k] = NoRecord
      BY <2>1, <2>4, SentTyped DEF Idle
    <3>3. pc'[r] = "looking" /\ UNCHANGED <<memory, record>>
      BY <2>1, <2>4, <3>1, <3>2 DEF Arrive, TypeOK
    <3>4. Busy(k, r)'
      BY <2>1, <2>4, <3>3, SentTyped DEF Idle, Busy, Written, Waiting, Effect
    <3> QED  BY <3>4 DEF Sound
  <2>5. ASSUME NEW x \in Requests, Busy(k, x), KeyOf(r) = k
        PROVE  Sound(k)'
    <3>1. x = r
      <4> SUFFICES ASSUME x # r PROVE FALSE
        OBVIOUS
      <4>1. pc[r] = "new" /\ x \in InFlight /\ KeyOf(x) = k
        BY <2>5 DEF Busy, InFlight
      <4>2. Arrive(r)
        BY <1>1, <2>1, <2>5, <4>1
        DEF Check, Create, ArriveUnkeyed, LookUp, LookUpFails, Claim, ClaimFails, Mark,
            CountKeys, CountBlindly, Store, StoreFails, Register, Save, Persist, PersistFails
      <4>3. k \in contested'
        BY <2>5, <4>1, <4>2 DEF Arrive
      <4> QED  BY <4>3 DEF Quiet
    <3> QED  BY <1>1, <2>5, <3>1, BusySteps DEF Sound
  <2>6. ASSUME NEW x \in Requests, Over(k, x), KeyOf(r) = k
        PROVE  Sound(k)'
    BY <1>1, <2>6, OverSteps DEF Sound
  <2> QED  BY <2>2, <2>3, <2>4, <2>5, <2>6 DEF Sound
<1>2. ASSUME NEW s \in Servers, Crash(s)
      PROVE  Sound(k)'
  <2>1. /\ sent' = sent /\ UNCHANGED <<answer, record, result>> /\ TypeOK
        /\ memory' = [memory EXCEPT ![s] = [j \in Keys |-> NoRecord]]
        /\ pc' = [r \in Requests |-> IF r \in InFlight /\ ServerOf(r) = s THEN "lost" ELSE pc[r]]
        /\ \A r \in InFlight : ServerOf(r) = s => KeyOf(r) # k
        /\ k \in Quiet
    BY <1>2 DEF Crash, Quiet, Typed
  <2>2. /\ memory'[s][k] = NoRecord
        /\ \A u \in Servers \ {s} : memory'[u][k] = memory[u][k]
        /\ \A q \in Requests : KeyOf(q) = k => pc'[q] = pc[q]
    BY <2>1 DEF TypeOK
  <2>3. CASE Idle(k)
    BY <2>1, <2>2, <2>3 DEF Idle, Sound
  <2>4. ASSUME NEW x \in Requests, Busy(k, x)
        PROVE  Sound(k)'
    <3>1. ServerOf(x) # s /\ ServerOf(x) \in Servers
      BY <2>1, <2>4, SentTyped DEF Busy, InFlight
    <3>2. memory'[ServerOf(x)][k] = memory[ServerOf(x)][k] /\ pc'[x] = pc[x]
      BY <2>2, <2>4, <3>1 DEF Busy
    <3>3. \A u \in Servers \ {ServerOf(x)} : memory'[u][k] = NoRecord
      BY <2>2, <2>4 DEF Busy, Written
    <3>4. Processing(x)' = Processing(x) /\ Done(x)' = Done(x)
      BY <2>1 DEF Processing, Done
    <3>5. Written(k, x)'
      BY <2>1, <2>4, <3>2, <3>3, <3>4 DEF Busy, Written
    <3>6. Busy(k, x)'
      BY <2>1, <2>2, <2>4, <3>5 DEF Busy
    <3> QED  BY <3>6 DEF Sound
  <2>5. ASSUME NEW x \in Requests, Over(k, x)
        PROVE  Sound(k)'
    <3>1. Done(x)' = Done(x)
      BY <2>1 DEF Done
    <3>2. Over(k, x)'
      BY <2>1, <2>2, <2>5, <3>1 DEF Over, Settled
    <3> QED  BY <3>2 DEF Sound
  <2> QED  BY <2>1, <2>3, <2>4, <2>5 DEF Clean, Sound
<1>3. ASSUME UNCHANGED <<sent, pc, answer, memory, record, result, contested, interrupted>>
      PROVE  Sound(k)'
  BY <1>3, SoundKept DEF Clean, Quiet, Typed
<1> QED  BY <1>1, <1>2, <1>3 DEF Next, Revoke, Rotate, vars

\* A key sent again after its request was completed creates nothing.
THEOREM RetriesAreReplayed == Spec => []RetriesReplay
<1>1. Init => Clean
  BY DEF Init, Clean, Quiet, Sound, Idle
<1>2. Typed /\ Clean => RetriesReplay
  <2> SUFFICES ASSUME Typed, Clean, NEW q \in Requests, NEW r \in Requests,
                      q # r, KeyOf(q) = KeyOf(r), KeyOf(q) # Unkeyed,
                      KeyOf(q) \notin contested \union interrupted,
                      pc[q] = "created", pc[r] \notin Waiting \union {"new"}
               PROVE  IF BodyOf(q) = BodyOf(r) THEN pc[r] = "replayed" /\ answer[r] = q
                                               ELSE pc[r] = "failed"
    BY DEF RetriesReplay
  <2>1. KeyOf(q) \in Quiet
    BY SentTyped DEF Typed, Quiet
  <2>2. Sound(KeyOf(q)) /\ ~Idle(KeyOf(q))
    BY <2>1 DEF Clean, Idle
  <2>3. ASSUME NEW x \in Requests, Busy(KeyOf(q), x)
        PROVE  FALSE
    BY <2>3 DEF Busy, Waiting
  <2>4. PICK x \in Requests : Over(KeyOf(q), x)
    BY <2>2, <2>3 DEF Sound
  <2>5. q = x
    BY <2>4 DEF Over, Settled
  <2>6. Settled(r, q)
    BY <2>4, <2>5 DEF Over, Waiting
  <2> QED  BY <2>6 DEF Settled
<1> QED  BY <1>1, <1>2, CleanInductive, TypedAlways, PTL DEF Spec
-----------------------------------------------------------------------------
(* The records implement OnceOnly: whatever the processes, their memories   *)
(* and the documents do in between, a key that is neither contested nor     *)
(* interrupted is used as if each of its requests were served in one step.  *)
\* A request names its own key when it created one, and none before it ends.
AnswerFits ==
  \A r \in Requests :
    /\ pc[r] = "created" => answer[r] = r
    /\ pc[r] \notin {"created", "replayed"} => answer[r] = Nobody

\* Only a request under way takes a step.
LEMMA UnderWay ==
  ASSUME NEW r \in Requests, Check(r) \/ Create(r)
  PROVE  pc[r] \in Waiting \union {"new"}
  BY DEF Check, Create, Arrive, ArriveUnkeyed, LookUp, LookUpFails, Claim, ClaimFails, Mark,
         CountKeys, CountBlindly, Store, StoreFails, Register, Save, Persist, PersistFails,
         Waiting

LEMMA FoundFits ==
  ASSUME TypeOK, NEW r \in Requests, pc[r] \notin {"created", "replayed"}, AnswerFits,
         NEW rec, NEW working \in {"marking", "counting"}, Found(r, rec, working)
  PROVE  /\ pc'[r] # "created"
         /\ pc'[r] # "replayed" => answer'[r] = Nobody
  BY DEF Found, TypeOK, AnswerFits

LEMMA StepFits ==
  ASSUME Typed, AnswerFits, NEW r \in Requests, Check(r) \/ Create(r)
  PROVE  AnswerFits'
<1>1. Effect(r) /\ TypeOK /\ pc[r] \notin {"created", "replayed"}
  BY CheckEffect, CreateEffect, UnderWay DEF Typed, Waiting
<1>2. /\ pc'[r] = "created" => answer'[r] = r
      /\ pc'[r] \notin {"created", "replayed"} => answer'[r] = Nobody
  <2>1. answer[r] = Nobody
    BY <1>1 DEF AnswerFits
  <2>2. CASE Arrive(r) \/ LookUp(r)
    <3>1. \/ Found(r, memory[ServerOf(r)][KeyOf(r)], "counting")
          \/ Found(r, record[KeyOf(r)], "marking")
          \/ pc' = [pc EXCEPT ![r] = "looking"] /\ answer' = answer
          \/ pc' = [pc EXCEPT ![r] = "claiming"] /\ answer' = answer
      BY <2>2, Zenon DEF Arrive, LookUp
    <3>2. ASSUME NEW rec, NEW working \in {"marking", "counting"}, Found(r, rec, working)
          PROVE  /\ pc'[r] # "created"
                 /\ pc'[r] # "replayed" => answer'[r] = Nobody
      BY <1>1, <3>2, FoundFits
    <3>3. ASSUME answer' = answer,
                 pc' = [pc EXCEPT ![r] = "looking"] \/ pc' = [pc EXCEPT ![r] = "claiming"]
          PROVE  pc'[r] # "created" /\ answer'[r] = Nobody
      BY <1>1, <2>1, <3>3 DEF TypeOK
    <3> QED  BY <3>1, <3>2, <3>3
  <2>3. CASE Persist(r) \/ PersistFails(r)
    BY <1>1, <2>3 DEF Persist, PersistFails, TypeOK
  <2>4. CASE Register(r)
    BY <1>1, <2>1, <2>4 DEF Register, TypeOK
  <2>5. CASE CountKeys(r) \/ CountBlindly(r)
    BY <1>1, <2>1, <2>5 DEF CountKeys, CountBlindly, Count, TypeOK
  <2>6. CASE \/ ArriveUnkeyed(r) \/ LookUpFails(r) \/ Claim(r) \/ ClaimFails(r) \/ Mark(r)
             \/ Store(r) \/ StoreFails(r) \/ Save(r)
    BY <1>1, <2>1, <2>6
    DEF ArriveUnkeyed, LookUpFails, Claim, ClaimFails, Mark, Store, StoreFails, Save, TypeOK
  <2> QED  BY <2>2, <2>3, <2>4, <2>5, <2>6 DEF Check, Create
<1>3. ASSUME NEW q \in Requests \ {r}
      PROVE  pc'[q] = pc[q] /\ answer'[q] = answer[q]
  BY <1>1 DEF Effect
<1> QED  BY <1>2, <1>3 DEF AnswerFits

LEMMA FitsInductive == Typed /\ AnswerFits /\ [Next]_vars => AnswerFits'
<1> SUFFICES ASSUME Typed, AnswerFits, [Next]_vars PROVE AnswerFits'
  OBVIOUS
<1>1. ASSUME NEW s \in Servers, Crash(s) PROVE AnswerFits'
  <2>1. /\ answer' = answer
        /\ pc' = [r \in Requests |-> IF r \in InFlight /\ ServerOf(r) = s
                                     THEN "lost" ELSE pc[r]]
    BY <1>1 DEF Crash
  <2>2. \A r \in InFlight : pc[r] \notin {"created", "replayed"}
    BY DEF InFlight, Waiting
  <2> QED  BY <2>1, <2>2 DEF AnswerFits
<1>2. ASSUME UNCHANGED <<pc, answer>> PROVE AnswerFits'
  BY <1>2 DEF AnswerFits
<1> QED  BY <1>1, <1>2, StepFits DEF Next, Revoke, Rotate, vars

-----------------------------------------------------------------------------
\* A step of request r voids no key but its own, and brings none back.
LEMMA StepVoids ==
  ASSUME Typed, NEW r \in Requests, Check(r) \/ Create(r)
  PROVE  Void \subseteq Void' /\ Void' \subseteq Void \union {KeyOf(r)}
<1>1. contested' \subseteq contested \union {KeyOf(r)}
  BY DEF Check, Create, Arrive, ArriveUnkeyed, LookUp, LookUpFails, Claim, ClaimFails, Mark,
         CountKeys, CountBlindly, Store, StoreFails, Register, Save, Persist, PersistFails
<1>2. interrupted' \subseteq interrupted \union {KeyOf(r)}
  <2>1. CASE CountKeys(r) \/ CountBlindly(r)
    BY <2>1 DEF CountKeys, CountBlindly, Count
  <2>2. CASE ~(CountKeys(r) \/ CountBlindly(r))
    BY <2>2
    DEF Check, Create, Arrive, ArriveUnkeyed, LookUp, LookUpFails, Claim, ClaimFails, Mark,
        Store, StoreFails, Register, Save, Persist, PersistFails
  <2> QED  BY <2>1, <2>2
<1>3. Void \subseteq Void'
  BY CheckEffect, CreateEffect DEF Effect, Void
<1> QED  BY <1>1, <1>2, <1>3 DEF Void

\* How far a kept key has come: nobody has ended, or exactly its winner has
\* created its key and the others that ended did so as OnceOnly says.
Before(k) ==
  /\ record[k].by = Nobody
  /\ \A q \in Requests : KeyOf(q) = k => pc[q] \in Waiting \union {"new"}

Shape == \A k \in Quiet : Before(k) \/ \E x \in Requests : Over(k, x)

LEMMA CleanIs == Clean => Shape
<1> SUFFICES ASSUME Clean, NEW k \in Quiet
             PROVE  Before(k) \/ \E x \in Requests : Over(k, x)
  BY DEF Shape
<1>1. NoRecord.by = Nobody /\ \A r : Processing(r).by = Nobody
  BY DEF NoRecord, Processing
<1>2. CASE Idle(k)
  BY <1>1, <1>2 DEF Idle, Before
<1>3. ASSUME NEW x \in Requests, Busy(k, x) PROVE Before(k)
  BY <1>1, <1>3 DEF Busy, Written, Before
<1> QED  BY <1>2, <1>3 DEF Clean, Sound

LEMMA OverIs ==
  ASSUME NEW k \in Keys, NEW x \in Requests, Over(k, x)
  PROVE  /\ record[k].by = x /\ KeyOf(x) = k /\ pc[x] = "created"
         /\ \A q \in Requests \ {x} : KeyOf(q) = k =>
              pc[q] \in {"new", "looking"} \/ Settled(q, x)
  BY DEF Over, Done

\* A step that changes nothing of a kept key is no step of OnceOnly.
LEMMA OnceSame ==
  ASSUME sent' = sent, Void' = Void,
         \A k \in Keys \ Void : record'[k].by = record[k].by,
         \A q \in Requests : KeyOf(q) \in Keys \ Void =>
           \/ pc'[q] = pc[q] /\ answer'[q] = answer[q]
           \/ /\ pc[q] \notin {"created", "replayed", "failed"}
              /\ pc'[q] \notin {"created", "replayed", "failed"}
  PROVE  UNCHANGED Once!vars
<1>1. \A q \in Requests : KeyOf(q)' = KeyOf(q)
  OBVIOUS
<1>2. Quiet = Keys \ Void /\ Quiet' = Quiet
  BY DEF Quiet, Void
<1>3. \A q \in Requests : (IF Ended(q) THEN pc[q] ELSE "open")'
                           = (IF Ended(q) THEN pc[q] ELSE "open")
  BY <1>1, <1>2 DEF Ended
<1>4. \A q \in Requests : (IF Ended(q) THEN answer[q] ELSE Nobody)'
                           = (IF Ended(q) THEN answer[q] ELSE Nobody)
  BY <1>1, <1>2 DEF Ended
<1>5. \A k \in Keys : (IF k \in Quiet THEN record[k].by ELSE Nobody)'
                       = (IF k \in Quiet THEN record[k].by ELSE Nobody)
  BY <1>2
<1> QED  BY <1>3, <1>4, <1>5 DEF Once!vars

\* A step that voids keys and touches nothing of the others forgets them.
LEMMA OnceForgets ==
  ASSUME sent' = sent, NEW K \in SUBSET Keys, Void' = Void \union K,
         \A k \in Keys \ Void' : record'[k].by = record[k].by,
         \A q \in Requests : KeyOf(q) \in Keys \ Void' =>
           pc'[q] = pc[q] /\ answer'[q] = answer[q]
  PROVE  Once!Forget(K)
<1>1. \A q \in Requests : KeyOf(q)' = KeyOf(q)
  OBVIOUS
<1>2. Quiet = Keys \ Void /\ Quiet' = Keys \ (Void \union K)
  BY DEF Quiet, Void
<1> DEFINE Outcome == [r \in Requests |-> IF Ended(r) THEN pc[r] ELSE "open"]
           Named == [r \in Requests |-> IF Ended(r) THEN answer[r] ELSE Nobody]
           Winner == [k \in Keys |-> IF k \in Quiet THEN record[k].by ELSE Nobody]
<1>3. \A q \in Requests : (IF Ended(q) THEN pc[q] ELSE "open")'
                           = IF sent[q].key \in K THEN "open" ELSE Outcome[q]
  BY <1>1, <1>2 DEF Ended
<1>4. \A q \in Requests : (IF Ended(q) THEN answer[q] ELSE Nobody)'
                           = IF sent[q].key \in K THEN Nobody ELSE Named[q]
  BY <1>1, <1>2 DEF Ended
<1>5. \A k \in Keys : (IF k \in Quiet THEN record[k].by ELSE Nobody)'
                       = IF k \in K THEN Nobody ELSE Winner[k]
  BY <1>2
<1>6. Outcome' = [r \in Requests |-> IF sent[r].key \in K THEN "open" ELSE Outcome[r]]
  BY <1>3
<1>7. Named' = [r \in Requests |-> IF sent[r].key \in K THEN Nobody ELSE Named[r]]
  BY <1>4
<1>8. Winner' = [k \in Keys |-> IF k \in K THEN Nobody ELSE Winner[k]]
  BY <1>5
<1> QED  BY <1>6, <1>7, <1>8 DEF Once!Forget

Finals == {"created", "replayed", "failed"}

\* One request of a kept key ends.
LEMMA OnceEnds ==
  ASSUME sent' = sent, Void' = Void, NEW r \in Requests, KeyOf(r) \in Keys \ Void,
         NEW how \in Finals, NEW by, pc[r] \notin Finals, pc'[r] = how, answer'[r] = by,
         \A q \in Requests \ {r} : pc'[q] = pc[q] /\ answer'[q] = answer[q]
  PROVE  Once!End(r, how, by)
<1>1. \A q \in Requests : KeyOf(q)' = KeyOf(q)
  OBVIOUS
<1>2. Quiet = Keys \ Void /\ Quiet' = Quiet
  BY DEF Quiet, Void
<1> DEFINE Outcome == [q \in Requests |-> IF Ended(q) THEN pc[q] ELSE "open"]
           Named == [q \in Requests |-> IF Ended(q) THEN answer[q] ELSE Nobody]
<1>3. \A q \in Requests : (IF Ended(q) THEN pc[q] ELSE "open")'
                           = IF q = r THEN how ELSE Outcome[q]
  BY <1>1, <1>2 DEF Ended, Finals
<1>4. \A q \in Requests : (IF Ended(q) THEN answer[q] ELSE Nobody)'
                           = IF q = r THEN by ELSE Named[q]
  BY <1>1, <1>2 DEF Ended, Finals
<1>5. Outcome' = [Outcome EXCEPT ![r] = how]
  BY <1>3
<1>6. Named' = [Named EXCEPT ![r] = by]
  BY <1>4
<1>7. Outcome[r] = "open"
  BY DEF Ended, Finals
<1> QED  BY <1>5, <1>6, <1>7 DEF Once!End

\* What a step of request r does to a kept key of its own.
LEMMA KeptStep ==
  ASSUME Typed, Typed', Clean, Clean', Shape, Shape', AnswerFits, AnswerFits',
         NEW r \in Requests, Check(r) \/ Create(r),
         NEW k \in Keys, k = KeyOf(r), k \notin Void'
  PROVE  [Once!Next]_(Once!vars)
<1>1. /\ Effect(r) /\ sent' = sent /\ TypeOK /\ Void' = Void
      /\ k \in Keys \ Void /\ k \in Quiet /\ k \in Quiet'
      /\ \A q \in Requests \ {r} : pc'[q] = pc[q] /\ answer'[q] = answer[q]
      /\ pc[r] \in Waiting \union {"new"} /\ pc[r] \notin Finals
  BY CheckEffect, CreateEffect, StepVoids, UnderWay
  DEF Effect, Typed, Quiet, Void, Waiting, Finals
<1>2. \A j \in Keys \ {k} : record'[j] = record[j]
  BY <1>1 DEF Effect
<1>3. Before(k) \/ \E x \in Requests : Over(k, x)
  BY <1>1 DEF Shape
<1>4. Before(k)' \/ \E x \in Requests : Over(k, x)'
  BY <1>1 DEF Shape
<1>5. CASE Before(k) /\ Before(k)'
  <2>1. record'[k].by = record[k].by /\ pc'[r] \notin Finals
    BY <1>1, <1>5 DEF Before, Waiting, Finals
  <2> QED  BY <1>1, <1>2, <2>1, OnceSame DEF Finals
<1>6. ASSUME Before(k), NEW x \in Requests, Over(k, x)'
      PROVE  Once!Create(r)
  <2>1. pc'[x] = "created" /\ record'[k].by = x /\ KeyOf(x) = k
    BY <1>1, <1>6 DEF Over, Done
  <2>2. x = r
    BY <1>1, <1>6, <2>1 DEF Before, Waiting
  <2>3. answer'[r] = r
    BY <2>1, <2>2 DEF AnswerFits
  <2>4. Once!End(r, "created", r)
    BY <1>1, <2>1, <2>2, <2>3, OnceEnds DEF Finals
  <2>5. Once!Kept(r) /\ Once!Winner(r) = Nobody
    BY <1>1, <1>6 DEF Before, Once!Kept, Once!Winner
  <2> DEFINE Winner == [j \in Keys |-> IF j \in Quiet THEN record[j].by ELSE Nobody]
  <2>6. \A j \in Keys : (IF j \in Quiet THEN record[j].by ELSE Nobody)'
                        = IF j = k THEN r ELSE Winner[j]
    BY <1>1, <1>2, <2>1, <2>2 DEF Quiet, Void
  <2>7. Winner' = [Winner EXCEPT ![k] = r]
    BY <2>6
  <2> QED  BY <2>4, <2>5, <2>7 DEF Once!Create
<1>7. ASSUME NEW x \in Requests, Over(k, x)
      PROVE  [Once!Next]_(Once!vars)
  <2>1. /\ record[k] = Done(x) /\ record[k].by = x /\ pc[x] = "created" /\ x # r
        /\ KeyOf(x) = k /\ pc[r] \in {"new", "looking"}
    BY <1>1, <1>7 DEF Over, Done, Waiting, Settled, Finals
  <2>2. Over(k, x)'
    BY <1>1, <1>7, OverSteps
  <2>3. record'[k].by = x /\ Done(x)' = Done(x)
    BY <1>1, <2>2 DEF Over, Done
  <2>4. CASE pc'[r] \in {"new", "looking"}
    BY <1>1, <1>2, <2>1, <2>3, <2>4, OnceSame DEF Finals
  <2>5. CASE pc'[r] \notin {"new", "looking"}
    <3>1. \/ BodyOf(r) = BodyOf(x) /\ pc'[r] = "replayed" /\ answer'[r] = x
          \/ BodyOf(r) # BodyOf(x) /\ pc'[r] = "failed" /\ answer'[r] = Nobody
      BY <1>1, <2>1, <2>2, <2>5 DEF Over, Settled, AnswerFits
    <3>3. Once!Kept(r) /\ Once!Winner(r) = x /\ x # Nobody
      BY <1>1, <2>1, IssuanceAssumption DEF Once!Kept, Once!Winner
    <3> DEFINE Winner == [j \in Keys |-> IF j \in Quiet THEN record[j].by ELSE Nobody]
    <3>4. \A j \in Keys : (IF j \in Quiet THEN record[j].by ELSE Nobody)' = Winner[j]
      BY <1>1, <1>2, <2>1, <2>3 DEF Quiet, Void
    <3>5. Winner' = Winner
      BY <3>4
    <3>6. CASE BodyOf(r) = BodyOf(x)
      <4>0. Once!End(r, "replayed", x)
        BY <1>1, <3>1, <3>6, OnceEnds DEF Finals
      <4>1. Once!Replay(r)
        BY <3>3, <3>5, <3>6, <4>0 DEF Once!Replay, Once!End
      <4> QED  BY <4>1 DEF Once!Next
    <3>7. CASE BodyOf(r) # BodyOf(x)
      <4>0. Once!End(r, "failed", Nobody)
        BY <1>1, <3>1, <3>7, OnceEnds DEF Finals
      <4>1. Once!Fail(r)
        BY <3>3, <3>5, <3>7, <4>0 DEF Once!Fail
      <4> QED  BY <4>1 DEF Once!Next
    <3> QED  BY <3>6, <3>7
  <2> QED  BY <2>4, <2>5
<1> QED  BY <1>3, <1>4, <1>5, <1>6, <1>7 DEF Once!Next

\* A step of request r, whatever its key.
LEMMA RequestRefines ==
  ASSUME Typed, Typed', Clean, Clean', Shape, Shape', AnswerFits, AnswerFits',
         NEW r \in Requests, Check(r) \/ Create(r)
  PROVE  [Once!Next]_(Once!vars)
<1>0. PICK k : k = KeyOf(r)
  OBVIOUS
<1>1. /\ Effect(r) /\ sent' = sent /\ k \in Keys \union {Unkeyed}
      /\ Void \subseteq Void' /\ Void' \subseteq Void \union {k}
      /\ \A q \in Requests \ {r} : pc'[q] = pc[q] /\ answer'[q] = answer[q]
      /\ \A j \in Keys \ {k} : record'[j] = record[j]
      /\ Void' \subseteq Keys
  BY <1>0, CheckEffect, CreateEffect, StepVoids, SentTyped DEF Effect, Typed, Void
<1>2. CASE k \in Keys \ Void'
  BY <1>0, <1>2, KeptStep
<1>3. CASE k \in Void'
  <2>1. {k} \in SUBSET Keys /\ Void' = Void \union {k}
    BY <1>1, <1>3
  <2>2. Once!Forget({k})
    BY <1>0, <1>1, <2>1, OnceForgets
  <2> QED  BY <2>1, <2>2 DEF Once!Next
<1>4. CASE k = Unkeyed
  <2>1. Void' = Void /\ k \notin Keys
    BY <1>1, <1>4, IssuanceAssumption
  <2> QED  BY <1>0, <1>1, <2>1, OnceSame
<1> QED  BY <1>1, <1>2, <1>3, <1>4

LEMMA OnceStep ==
  ASSUME Typed, Typed', Clean, Clean', Shape, Shape', AnswerFits, AnswerFits', [Next]_vars
  PROVE  [Once!Next]_(Once!vars)
<1>1. ASSUME NEW s \in Servers, Crash(s) PROVE Once!Next
  <2> DEFINE lost == {r \in InFlight : ServerOf(r) = s}
  <2>0. PICK K : K = {j \in Keys : \E r \in lost : KeyOf(r) = j}
    OBVIOUS
  <2>1. /\ sent' = sent /\ answer' = answer /\ record' = record
        /\ contested' = contested /\ interrupted' = interrupted \union K
        /\ pc' = [r \in Requests |-> IF r \in lost THEN "lost" ELSE pc[r]]
    BY <1>1, <2>0 DEF Crash
  <2>2. K \in SUBSET Keys /\ Void' = Void \union K
    BY <2>0, <2>1 DEF Void
  <2>3. \A q \in Requests : KeyOf(q) \in Keys \ Void' => q \notin lost
    BY <2>0, <2>2
  <2>4. Once!Forget(K)
    BY <2>1, <2>2, <2>3, OnceForgets
  <2> QED  BY <2>2, <2>4 DEF Once!Next
<1>2. ASSUME UNCHANGED <<sent, pc, answer, record, contested, interrupted>>
      PROVE  UNCHANGED Once!vars
  BY <1>2, OnceSame DEF Void
<1> QED  BY <1>1, <1>2, RequestRefines DEF Next, Revoke, Rotate, vars

\* The idempotency records implement OnceOnly: a key that is neither contested
\* nor interrupted has its first request executed, in one step, and the others
\* served from it, in whatever order processes, memories, documents, crashes
\* and failing calls take part (checkIdempotency, saveIdempotencyResult).
THEOREM RecordsImplementOnceOnly == Spec => OnceSpec
<1>1. Init => Clean /\ AnswerFits /\ Once!Init
  <2>1. Init => Clean
    BY DEF Init, Clean, Quiet, Sound, Idle
  <2>2. Init => AnswerFits
    BY DEF Init, AnswerFits
  <2>3. Init => Once!Init
    BY DEF Init, Once!Init, Ended, Void, Quiet, NoRecord
  <2> QED  BY <2>1, <2>2, <2>3
<1>2. Typed /\ AnswerFits /\ [Next]_vars => AnswerFits'
  BY FitsInductive
<1>3. Clean => Shape
  BY CleanIs
<1>4. /\ Typed /\ Clean /\ Shape /\ AnswerFits
      /\ (Typed /\ Clean /\ Shape /\ AnswerFits)' /\ [Next]_vars
      => [Once!Next]_(Once!vars)
  BY OnceStep
<1> QED  BY <1>1, <1>2, <1>3, <1>4, CleanInductive, TypedAlways, PTL
         DEF Spec, OnceSpec, Once!Spec

-----------------------------------------------------------------------------
(* One API key for an idempotency key. *)

\* No two requests of a kept idempotency key have an API key of their own.
IssuedOnce ==
  \A q, r \in Requests :
    /\ KeyOf(q) = KeyOf(r) /\ KeyOf(q) \in Quiet
    /\ stored[q] # "none" /\ stored[r] # "none"
    => q = r

\* A request whose key document exists is past its creation.
StoredLater ==
  \A r \in Requests :
    stored[r] # "none" => pc[r] \in {"registering", "saving", "persisting", "created", "lost"}

LEMMA StoredInductive == Typed /\ StoredLater /\ [Next]_vars => StoredLater'
<1> SUFFICES ASSUME Typed, StoredLater, [Next]_vars PROVE StoredLater'
  OBVIOUS
<1>1. ASSUME NEW r \in Requests, Check(r) \/ Create(r) PROVE StoredLater'
  <2>1. /\ Effect(r) /\ TypeOK /\ \A q \in Requests \ {r} : pc'[q] = pc[q]
    BY <1>1, CheckEffect, CreateEffect DEF Typed, Effect
  <2>2. CASE Store(r)
    BY <2>1, <2>2 DEF Store, StoredLater, TypeOK
  <2>3. CASE stored' = stored /\ pc[r] \notin {"registering", "saving", "persisting", "created", "lost"}
    BY <2>1, <2>3 DEF StoredLater
  <2>4. CASE Register(r) \/ Save(r) \/ Persist(r) \/ PersistFails(r)
    BY <2>1, <2>4 DEF Register, Save, Persist, PersistFails, StoredLater, TypeOK
  <2>5. CASE \/ Arrive(r) \/ ArriveUnkeyed(r) \/ LookUp(r) \/ LookUpFails(r) \/ Claim(r)
             \/ ClaimFails(r) \/ Mark(r) \/ CountKeys(r) \/ CountBlindly(r)
    BY <2>3, <2>5
    DEF Arrive, ArriveUnkeyed, LookUp, LookUpFails, Claim, ClaimFails, Mark, CountKeys,
        CountBlindly
  <2>6. CASE StoreFails(r)
    BY <2>1, <2>6 DEF StoreFails, StoredLater, TypeOK
  <2> QED  BY <1>1, <2>2, <2>4, <2>5, <2>6 DEF Check, Create
<1>2. ASSUME NEW r \in Requests, Revoke(r) \/ Rotate(r) PROVE StoredLater'
  BY <1>2 DEF Revoke, Rotate, StoredLater, Typed, TypeOK
<1>3. ASSUME NEW s \in Servers, Crash(s) PROVE StoredLater'
  BY <1>3 DEF Crash, StoredLater
<1>4. CASE UNCHANGED vars
  BY <1>4 DEF vars, StoredLater
<1> QED  BY <1>1, <1>2, <1>3, <1>4 DEF Next

\* An idempotency key that is neither contested nor interrupted never has two
\* API keys made for it (createProjectApiKey behind checkIdempotency).
THEOREM OneApiKeyPerIdempotencyKey == Spec => []IssuedOnce
<1>1. Init => Clean /\ StoredLater
  BY DEF Init, Clean, Quiet, Sound, Idle, StoredLater
<1>2. Clean /\ StoredLater => IssuedOnce
  <2> SUFFICES ASSUME Clean, StoredLater, NEW q \in Requests, NEW r \in Requests,
                      KeyOf(q) = KeyOf(r), KeyOf(q) \in Quiet,
                      stored[q] # "none", stored[r] # "none"
               PROVE  q = r
    BY DEF IssuedOnce
  <2>1. /\ pc[q] \notin {"new", "looking", "replayed", "failed"}
        /\ pc[r] \notin {"new", "looking", "replayed", "failed"}
    BY DEF StoredLater
  <2>2. Sound(KeyOf(q))
    BY DEF Clean
  <2>3. ~Idle(KeyOf(q))
    BY <2>1 DEF Idle
  <2>4. ASSUME NEW x \in Requests, Busy(KeyOf(q), x) PROVE q = r
    BY <2>1, <2>4 DEF Busy
  <2>5. ASSUME NEW x \in Requests, Over(KeyOf(q), x) PROVE q = r
    BY <2>1, <2>5 DEF Over, Settled
  <2> QED  BY <2>2, <2>3, <2>4, <2>5 DEF Sound
<1> QED  BY <1>1, <1>2, CleanInductive, StoredInductive, TypedAlways, PTL DEF Spec
=============================================================================
