---------------------------- MODULE MCKeyIssuance ----------------------------
EXTENDS KeyIssuance, TLC

\* Requests, bodies and processes differ in nothing but their names.
Symmetry ==
  Permutations(Requests) \union Permutations(Bodies) \union Permutations(Servers)
==============================================================================
