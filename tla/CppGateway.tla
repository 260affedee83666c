----------------------------- MODULE CppGateway -----------------------------
(***************************************************************************)
(* The C++ gateway (gateway-cpp): one detached thread per connection, which *)
(* takes a chat completion through the sliding-window limiter, the budget   *)
(* preflight, the upstream call and the recording of its spend.  Limiter    *)
(* and budget manager each hold their own mutex for one call only, so an    *)
(* action is one such call and threads interleave between calls.            *)
(*                                                                         *)
(* The provider breaker of the C++ gateway is left out: the server calls    *)
(* record_success only, so every breaker is Closed and lets all through.    *)
(*                                                                         *)
(* set_budget copies the budget of the constructor into two maps, under its *)
(* project and under its organization: two entries that are charged apart.  *)
(* record_spend returns the alerts of a charge, but both callers drop them  *)
(* (gateway_server.cpp:439 and :472), so no alert leaves the process and    *)
(* there is none here.                                                      *)
(***************************************************************************)
EXTENDS Integers, Sequences, FiniteSets

CONSTANTS
    Threads,      \* connections served at once; nothing in the code bounds them
    Keys,         \* API keys
    Projects,     \* x-project-id and
    Orgs,         \* x-organization-id of a request
    Capped,       \* keys of project_budgets_ and org_budgets_
    Limit,        \* Limit[l]: limit_usd of l's entry, in cost units
    MaxCost,      \* largest cost of one completion, in cost units
    RateLimit,    \* requests per key and window, 120
    Window,       \* window_ms, 60 s
    MaxTime       \* bound of the clock (model checking only)

ASSUME CppAssumption ==
    /\ IsFiniteSet(Threads)
    /\ Projects # {} /\ Orgs # {}
    /\ Projects \cap Orgs = {}    \* the two maps are apart
    /\ Capped \subseteq Projects \cup Orgs
    /\ Limit \in [Capped -> Nat \ {0}]
    /\ MaxCost \in Nat
    /\ RateLimit \in Nat \ {0}
    /\ Window \in Nat \ {0}

VARIABLES
    now,       \* the steady clock
    window,    \* window[k]: deque of the limiter, oldest first
    spend,     \* spend[l]: current_spend_usd of l's entry
    thread,    \* thread[t]: what connection t is doing
    admitted   \* history: when requests of k were let through

vars == <<now, window, spend, thread, admitted>>

Thread == [pc : {"idle", "limited", "upstream"}, project : Projects, org : Orgs]

IdleThread == [pc |-> "idle", project |-> CHOOSE p \in Projects : TRUE,
               org |-> CHOOSE o \in Orgs : TRUE]

Init ==
    /\ now = 0
    /\ window = [k \in Keys |-> <<>>]
    /\ spend = [l \in Capped |-> 0]
    /\ thread = [t \in Threads |-> IdleThread]
    /\ admitted = [k \in Keys |-> <<>>]

-----------------------------------------------------------------------------
Goto(t, d) == thread' = [thread EXCEPT ![t] = d]

Finish(t) == Goto(t, IdleThread)

\* The entries a request is charged to: its project's and its organization's.
Charged(d) == {d.project, d.org} \cap Capped

\* Mutant of Recent: the window starts anew once its oldest entry is too old.
Restarted(w) == IF w # <<>> /\ Head(w) <= now - Window THEN <<>> ELSE w

\* The deque is in clock order: the entries that are left are a suffix.
Recent(w) ==
    LET old == Cardinality({i \in 1..Len(w) : w[i] <= now - Window})
    IN  SubSeq(w, old + 1, Len(w))

\* A chat completion with a valid key arrives and check_and_consume answers.
\* A refused request is not recorded in the window.
Consume(t, k, p, o) ==
    LET w == Recent(window[k]) IN
    /\ thread[t].pc = "idle"
    /\ \/ /\ Len(w) < RateLimit
          /\ window' = [window EXCEPT ![k] = Append(w, now)]
          /\ admitted' = [admitted EXCEPT ![k] = Append(@, now)]
          /\ Goto(t, [pc |-> "limited", project |-> p, org |-> o])
       \/ /\ Len(w) >= RateLimit
          /\ window' = [window EXCEPT ![k] = w]
          /\ UNCHANGED <<admitted, thread>>
    /\ UNCHANGED <<now, spend>>

\* Mutant of Affordable: only the project's budget is asked.
AffordableProject(d) ==
    d.project \in Capped => spend[d.project] < Limit[d.project]

\* check_preflight: the project's budget first, then the organization's.
Affordable(d) == \A l \in Charged(d) : spend[l] < Limit[l]

Preflight(t) ==
    /\ thread[t].pc = "limited"
    /\ IF Affordable(thread[t])
       THEN Goto(t, [thread[t] EXCEPT !.pc = "upstream"])
       ELSE Finish(t)
    /\ UNCHANGED <<now, window, spend, admitted>>

\* Mutant of SpentAfter: the entry holds what is left of the budget.
SpentAfterDown(l, c) == spend[l] - c

SpentAfter(l, c) == spend[l] + c

\* The upstream call returns and record_spend charges what it cost; a model
\* without a price costs nothing and record_spend returns at once.
RecordSpend(t) ==
    LET d == thread[t] IN
    /\ d.pc = "upstream"
    /\ \E c \in 0..MaxCost :
          spend' = [l \in Capped |-> IF l \in Charged(d) THEN SpentAfter(l, c)
                                                        ELSE spend[l]]
    /\ Finish(t)
    /\ UNCHANGED <<now, window, admitted>>

Tick ==
    /\ now < MaxTime
    /\ now' = now + 1
    /\ UNCHANGED <<window, spend, thread, admitted>>

\* The process ends and is started again: all of this is in its memory.
Restart ==
    /\ window' = [k \in Keys |-> <<>>]
    /\ spend' = [l \in Capped |-> 0]
    /\ thread' = [t \in Threads |-> IdleThread]
    /\ admitted' = [k \in Keys |-> <<>>]
    /\ UNCHANGED now

Next ==
    \/ \E t \in Threads :
          \/ \E k \in Keys, p \in Projects, o \in Orgs : Consume(t, k, p, o)
          \/ Preflight(t)
          \/ RecordSpend(t)
    \/ Tick
    \/ Restart

Spec == Init /\ [][Next]_vars

-----------------------------------------------------------------------------
\* Every variable has its type.
TypeOK ==
    /\ now \in Nat
    /\ window \in [Keys -> Seq(Nat)]
    /\ spend \in [Capped -> Nat]
    /\ thread \in [Threads -> Thread]
    /\ admitted \in [Keys -> Seq(Nat)]

\* Preflight and charge are two calls with the upstream call between them, so
\* a HARD budget is overspent; but by less than what the requests served at
\* once can cost (budget_manager.cpp:41 and :92).
SpendBounded ==
    \A l \in Capped : spend[l] < Limit[l] + MaxCost * Cardinality(Threads)

\* Of any RateLimit + 1 requests of a key let through one after another the
\* last comes at least a window after the first: the window slides, there is
\* no boundary at which two loads add up (rate_limiter.cpp:19-57).
WindowSlides ==
    \A k \in Keys : \A i \in 1..(Len(admitted[k]) - RateLimit) :
        admitted[k][i + RateLimit] - admitted[k][i] >= Window
=============================================================================
