\* Two requests of one id, one of them a stream, and a third; two failures,
\* so that a crash can follow a failed batch.
CONSTANTS
  r1 = r1
  r2 = r2
  r3 = r3
  i1 = i1
  i2 = i2
  Requests = {r1, r2, r3}
  Streaming = {r1}
  Ids = {i1, i2}
  IdOf <- MCIdOf
  Quota = 3
  MaxFaults = 2

SPECIFICATION FairSpec

INVARIANTS
  TypeOK
  CountedOnce
  CountersInStep
  StreamsAreMetered

PROPERTIES
  StreamsAreSettled

\* Every request is answered and recorded, and no more come.
CHECK_DEADLOCK FALSE
