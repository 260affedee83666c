---------------------------- MODULE MCUsageLedger ----------------------------
EXTENDS UsageLedger, TLC

CONSTANTS r1, r2, r3, i1, i2

\* The client sends r2 with the id of r1.
MCIdOf == (r1 :> i1) @@ (r2 :> i1) @@ (r3 :> i2)
==============================================================================
