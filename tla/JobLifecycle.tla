---------------------------- MODULE JobLifecycle ----------------------------
(***************************************************************************)
(* What the job queue promises about one job: it is attempted at most       *)
(* MaxAttempts times, then it is COMPLETED for good or waits in the dead    *)
(* letters for a replay.  A job that recoverInterruptedJobs or clear took   *)
(* from under its handler is "disturbed"; the promise ends for it until the *)
(* process is started anew.                                                 *)
(***************************************************************************)
EXTENDS Naturals

CONSTANTS Jobs, MaxAttempts

VARIABLES
    status,     \* status[j]: Job.status, "NEW" before enqueue
    attempt,    \* attempt[j]: Job.attempt
    disturbed

vars == <<status, attempt, disturbed>>

Init ==
    /\ status = [j \in Jobs |-> "NEW"]
    /\ attempt = [j \in Jobs |-> 0]
    /\ disturbed = {}

-----------------------------------------------------------------------------
\* Job j goes from one status to another, with n attempts made.
Move(j, from, to, n) ==
    /\ status[j] = from
    /\ status' = [status EXCEPT ![j] = to]
    /\ attempt' = [attempt EXCEPT ![j] = n]
    /\ UNCHANGED disturbed

Accept(j) == Move(j, "NEW", "PENDING", 0)

Start(j) ==
    /\ attempt[j] < MaxAttempts
    /\ Move(j, "PENDING", "PROCESSING", attempt[j] + 1)

\* No handler is registered for the job's type.
Reject(j) ==
    /\ attempt[j] < MaxAttempts
    /\ Move(j, "PENDING", "DEAD_LETTER", attempt[j] + 1)

Complete(j) == Move(j, "PROCESSING", "COMPLETED", attempt[j])

Retry(j) ==
    /\ attempt[j] < MaxAttempts
    /\ Move(j, "PROCESSING", "PENDING", attempt[j])

Bury(j) == Move(j, "PROCESSING", "DEAD_LETTER", attempt[j])

Replay(j) == Move(j, "DEAD_LETTER", "PENDING", 0)

\* Nothing is promised for disturbed jobs; the others are left alone.
Disturb ==
    /\ disturbed \subseteq disturbed'
    /\ disturbed' \subseteq Jobs
    /\ status' \in [Jobs -> {"NEW", "PENDING", "PROCESSING", "COMPLETED",
                             "DEAD_LETTER"}]
    /\ attempt' \in [Jobs -> Nat]
    /\ \A j \in Jobs \ disturbed' : /\ status'[j] = status[j]
                                    /\ attempt'[j] = attempt[j]

Restart ==
    /\ status' = [j \in Jobs |-> "NEW"]
    /\ attempt' = [j \in Jobs |-> 0]
    /\ disturbed' = {}

Next ==
    \/ \E j \in Jobs : \/ Accept(j) \/ Start(j) \/ Reject(j) \/ Complete(j)
                       \/ Retry(j) \/ Bury(j) \/ Replay(j)
    \/ Disturb
    \/ Restart

Spec == Init /\ [][Next]_vars
=============================================================================
