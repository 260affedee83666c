\* One provider with another model of its own to fall back to, the real
\* numbers of attempts, and a clock that passes two recoveries and more than
\* one monitoring window; no symmetry, which liveness does not allow.
CONSTANTS
    p1 = p1
    Providers = {p1}
    Requests = {r1, r2}
    Fallbacks <- MCFallbacks
    FailureThreshold = 3
    RecoveryTime = 1
    HalfOpenSuccessThreshold = 2
    MonitoringWindow = 1
    CompletionRetries = 2
    CandidateRetries = 1
    StreamAttempts = 4
    MaxTime = 3
SPECIFICATION FairSpec
INVARIANTS
    TypeOK
    BreakerConsistent
    OpensOnBursts
PROPERTIES
    AdmittedOnlyWhenNotOpen
    GateSpec
    EveryRequestEnds
