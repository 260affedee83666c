------------------------------ MODULE OnceOnly ------------------------------
(***************************************************************************)
(* What an idempotency key promises, with processes, caches, documents and *)
(* the plan's limit left out: its first request is executed, in one step,  *)
(* and every later one gets that request's reply, or fails when it asks    *)
(* for something else.  For a key that is "void" (two requests of it ran   *)
(* at a time, or one was cut short) nothing is promised any more.          *)
(***************************************************************************)

CONSTANTS Requests, Keys, Nobody

VARIABLES
  sent,      \* sent[r]: what request r carries, its key and its body
  outcome,   \* outcome[r]: how r ended, or "open"
  named,     \* named[r]: the request whose reply r got
  winner,    \* winner[k]: the request executed for key k
  void       \* keys without a promise

vars == <<sent, outcome, named, winner, void>>

Kept(r) == sent[r].key \in Keys \ void
Winner(r) == winner[sent[r].key]

Init ==
  /\ outcome = [r \in Requests |-> "open"]
  /\ named = [r \in Requests |-> Nobody]
  /\ winner = [k \in Keys |-> Nobody]
  /\ void = {}

-----------------------------------------------------------------------------
\* An open request ends, with the reply of request q.
End(r, how, q) ==
  /\ outcome[r] = "open"
  /\ outcome' = [outcome EXCEPT ![r] = how]
  /\ named' = [named EXCEPT ![r] = q]
  /\ UNCHANGED <<sent, void>>

Create(r) ==
  /\ Kept(r) /\ Winner(r) = Nobody
  /\ winner' = [winner EXCEPT ![sent[r].key] = r]
  /\ End(r, "created", r)

Replay(r) ==
  /\ Kept(r) /\ Winner(r) # Nobody
  /\ sent[r].body = sent[Winner(r)].body
  /\ End(r, "replayed", Winner(r))
  /\ UNCHANGED winner

Fail(r) ==
  /\ Kept(r) /\ Winner(r) # Nobody
  /\ sent[r].body # sent[Winner(r)].body
  /\ End(r, "failed", Nobody)
  /\ UNCHANGED winner

\* The promise ends for some keys; nothing is told of them any more.
Forget(K) ==
  /\ void' = void \union K
  /\ winner' = [k \in Keys |-> IF k \in K THEN Nobody ELSE winner[k]]
  /\ outcome' = [r \in Requests |-> IF sent[r].key \in K THEN "open" ELSE outcome[r]]
  /\ named' = [r \in Requests |-> IF sent[r].key \in K THEN Nobody ELSE named[r]]
  /\ UNCHANGED sent

Next ==
  \/ \E r \in Requests : Create(r) \/ Replay(r) \/ Fail(r)
  \/ \E K \in SUBSET Keys : Forget(K)

Spec == Init /\ [][Next]_vars
=============================================================================
