\* Three connections at once, two keys; the one budget is entered for
\* projA and for orgA, projB has none; a completion may cost most of a budget.
CONSTANTS
    projA = projA
    projB = projB
    orgA = orgA
    Threads = {t1, t2, t3}
    Keys = {k1, k2}
    Projects = {projA, projB}
    Orgs = {orgA}
    Capped <- MCCapped
    Limit <- MCLimit
    MaxCost = 2
    RateLimit = 2
    Window = 2
    MaxTime = 3
SYMMETRY Symmetry
SPECIFICATION Spec
INVARIANTS
    TypeOK
    SpendBounded
    WindowSlides
