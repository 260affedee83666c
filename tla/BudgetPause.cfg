\* The instance of BudgetVerdicts.cfg with verdicts of one instant, without symmetry.
CONSTANTS
    Budgets = {b1}
    OrgWide = {}
    Tasks = {t1, t2}
    Limits = {1}
    PageLimit = 2
    AllowedTTL = 0
    BlockedTTL = 0
    AnswerTime = 0
    MaxRecords = 1
    Periods = {0, 1}
SPECIFICATION Spec
PROPERTY PausedStaysPaused
