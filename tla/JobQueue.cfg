CONSTANTS
    MaxJobs = 2
    Keys = {k1}
    NoKey = NoKey
    Types = {t1}
    MaxAttempts = 2
    MaxRetained = 1
    PruneBatch = 1
    Callers = {c1}
    Shutdowns = {s1}
    BatchSize = 2
    Concurrency = 2
SPECIFICATION FairSpec
INVARIANTS
    TypeOK
    JobsAreFound
    OnePlace
    OneJobPerKey
PROPERTIES
    LifecycleSpec
    DrainEnds
    ShutdownSettles
