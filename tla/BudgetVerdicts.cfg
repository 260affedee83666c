\* One budget over two periods and two requests at once; an allowed verdict
\* lives longer than a blocked one and every answer arrives at once.
CONSTANTS
    Budgets = {b1}
    OrgWide = {}
    Tasks = {t1, t2}
    Limits = {1}
    PageLimit = 2
    AllowedTTL = 1
    BlockedTTL = 0
    AnswerTime = 0
    MaxRecords = 1
    Periods = {0, 1}
SYMMETRY Symmetry
SPECIFICATION Spec
INVARIANTS
    TypeOK
    PausedNeverBlocks
    AdmissionLag
    RefusalLag
PROPERTIES
    ExceededIsAnnounced
    DeletedStaysDeleted
