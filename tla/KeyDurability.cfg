\* A write that fails and a crash; one request of any route.
CONSTANTS
  Requests = {r1, r2}
  Keys = {k1}
  Bodies = {b1}
  Unkeyed = Unkeyed
  Servers = {s1, s2}
  MaxKeys = 2
  MaxFaults = 2

SYMMETRY Symmetry

SPECIFICATION Spec

INVARIANT
  AnsweredKeysSurvive

CHECK_DEADLOCK FALSE
