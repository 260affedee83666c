------------------------------ MODULE MCBilling ------------------------------
EXTENDS Billing

CONSTANTS i1

\* A status the code knows and one it reads as TRIALING.
MCReported == {"UNPAID", "PAUSED"}

\* A deletion writes what a member's cancellation writes and a checkout what
\* a reactivation writes; those about an invoice are about the same one.
MCEvents == {
  [id |-> 1, kind |-> "failed", invoice |-> i1],
  [id |-> 2, kind |-> "paid", invoice |-> i1],
  [id |-> 3, kind |-> "updated", status |-> "UNPAID"],
  [id |-> 4, kind |-> "updated", status |-> "PAUSED"] }
==============================================================================
