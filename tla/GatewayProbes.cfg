\* One provider that is its own fallback; one recovery is enough.
CONSTANTS
    p1 = p1
    Providers = {p1}
    Requests = {r1, r2}
    Fallbacks <- MCFallbacks
    FailureThreshold = 2
    RecoveryTime = 1
    HalfOpenSuccessThreshold = 2
    MonitoringWindow = 2
    CompletionRetries = 1
    CandidateRetries = 1
    StreamAttempts = 2
    MaxTime = 3
SPECIFICATION ProbesSpec
PROPERTY ClosesOnlyAfterProbes
