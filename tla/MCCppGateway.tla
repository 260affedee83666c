----------------------------- MODULE MCCppGateway -----------------------------
EXTENDS CppGateway, TLC

CONSTANTS projA, projB, orgA

\* The one budget the server seeds, under its project and its organization.
MCLimit == (projA :> 2) @@ (orgA :> 2)
MCCapped == {projA, orgA}

Symmetry == Permutations(Threads) \cup Permutations(Keys)
=============================================================================
