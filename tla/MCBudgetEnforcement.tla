------------------------ MODULE MCBudgetEnforcement ------------------------
EXTENDS BudgetEnforcement, TLC

\* Tasks differ in nothing but their name.
Symmetry == Permutations(Tasks)
=============================================================================
