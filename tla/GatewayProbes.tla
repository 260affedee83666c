---------------------------- MODULE GatewayProbes ----------------------------
(***************************************************************************)
(* GatewayCalls with a history variable: how many upstream calls have been  *)
(* answered since a breaker last became HALF_OPEN, whatever the answer.     *)
(* The breaker never reads it.  Restarts are left out: one life of the      *)
(* process is enough to see a breaker close too early.                      *)
(***************************************************************************)
EXTENDS GatewayCalls, FiniteSetsExt

VARIABLE probes   \* probes[p]: answers since p became HALF_OPEN

probeVars == <<vars, probes>>

\* A refusal leaves "calling" out, so only real answers are counted.
Answered(p) ==
    Cardinality({r \in Requests : /\ req[r].pc = "calling"
                                  /\ req[r].target = p
                                  /\ req'[r].pc # "calling"})

\* Counts up to the number a breaker has to see.
CountProbes ==
    probes' = [p \in Providers |->
                 LET before == IF breaker[p].state = "HALF_OPEN" THEN probes[p] ELSE 0
                 IN  Min({before + Answered(p), HalfOpenSuccessThreshold})]

ProbesInit == Init /\ probes = [p \in Providers |-> 0]

ProbesSpec == ProbesInit /\ [][Serve /\ CountProbes]_probeVars

-----------------------------------------------------------------------------
\* docs/disaster-recovery.md:69 closes a HALF_OPEN breaker on "2 Consecutive
\* Successes?" of probe requests: a breaker that closes has seen at least that
\* many upstream answers since it became HALF_OPEN.
ClosesOnlyAfterProbes ==
    [][\A p \in Providers :
          /\ breaker[p].state # "CLOSED"
          /\ breaker'[p].state = "CLOSED"
          => probes'[p] >= HalfOpenSuccessThreshold]_probeVars
=============================================================================
