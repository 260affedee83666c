\* The instance of UsageLedger.cfg, in which nothing fails.
CONSTANTS
  r1 = r1
  r2 = r2
  r3 = r3
  i1 = i1
  i2 = i2
  Requests = {r1, r2, r3}
  Streaming = {r1}
  Ids = {i1, i2}
  IdOf <- MCIdOf
  Quota = 3
  MaxFaults = 0

SPECIFICATION Spec

INVARIANT QuotaIsGranted

\* Every request is answered and recorded, and no more come.
CHECK_DEADLOCK FALSE
