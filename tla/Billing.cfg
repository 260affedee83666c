\* Two of the events happen, on two deliveries at a time, one of which fails;
\* one invoice, which a member creates meanwhile.
CONSTANTS
  i1 = i1
  Events <- MCEvents
  Deliveries = {d1, d2}
  Invoices = {i1}
  Creators = {c1}
  Reported <- MCReported
  Asked = {"VOID"}
  MaxFaults = 1
  MaxEvents = 2

SPECIFICATION FairSpec

INVARIANTS
  TypeOK
  AckedWasApplied
  DuplicatesAreBounded

PROPERTIES
  EventsTakeEffect
