\* The instance of Billing.cfg, in which nothing fails.
CONSTANTS
  i1 = i1
  Events <- MCEvents
  Deliveries = {d1, d2}
  Invoices = {i1}
  Creators = {c1}
  Reported <- MCReported
  Asked = {"VOID"}
  MaxFaults = 0
  MaxEvents = 2

SPECIFICATION Spec

INVARIANT SingleExecution
