---------------------------- MODULE ProviderGate ----------------------------
(***************************************************************************)
(* What the breakers promise the gateway, with the counting left out: every *)
(* provider has a gate of its own, and a gate that shuts stays shut for at  *)
(* least RecoveryTime, whatever late answers arrive meanwhile.  Only a      *)
(* restart of the process forgets a shut gate.                              *)
(***************************************************************************)
EXTENDS Integers

CONSTANTS Providers, RecoveryTime

VARIABLES
    now,     \* the process clock
    gate,    \* gate[p]: "passing" or "shut"
    shutAt   \* shutAt[p]: when gate p was last shut; read only while shut

gateVars == <<now, gate, shutAt>>

GateInit ==
    /\ now = 0
    /\ gate = [p \in Providers |-> "passing"]
    /\ shutAt = [p \in Providers |-> 0]

Pass == now' = now + 1 /\ UNCHANGED <<gate, shutAt>>

Rested(p) == gate[p] = "shut" => now - shutAt[p] >= RecoveryTime

\* A passing gate may shut at any time; a shut one may only be shut anew
\* once its time is over (a probe that was let through has failed).
Shut(p) ==
    /\ Rested(p)
    /\ gate' = [gate EXCEPT ![p] = "shut"]
    /\ shutAt' = [shutAt EXCEPT ![p] = now]
    /\ UNCHANGED now

\* Several gates may be released at once, each after its own rest.
Release(P) ==
    /\ \A p \in P : gate[p] = "shut" /\ Rested(p)
    /\ gate' = [p \in Providers |-> IF p \in P THEN "passing" ELSE gate[p]]
    /\ shutAt' = [p \in Providers |-> IF p \in P THEN 0 ELSE shutAt[p]]
    /\ UNCHANGED now

\* A restart takes time, so it is never mistaken for a release.
Forget ==
    /\ gate' = [p \in Providers |-> "passing"]
    /\ shutAt' = [p \in Providers |-> 0]
    /\ now' = now + 1

GateNext ==
    \/ Pass
    \/ \E p \in Providers : Shut(p)
    \/ \E P \in SUBSET Providers : Release(P)
    \/ Forget

GateSpec == GateInit /\ [][GateNext]_gateVars
=============================================================================
