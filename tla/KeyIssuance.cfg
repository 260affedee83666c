CONSTANTS
  Requests = {r1, r2, r3}
  Keys = {k1}
  Bodies = {b1, b2}
  Unkeyed = Unkeyed
  Servers = {s1, s2}
  MaxKeys = 1
  MaxFaults = 1

SYMMETRY Symmetry

SPECIFICATION Spec

INVARIANTS
  TypeOK
  RetriesCreateNothing
  RetriesReplay

PROPERTY
  OnceSpec

\* Every request is answered, and no more come.
CHECK_DEADLOCK FALSE
