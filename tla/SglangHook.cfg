CONSTANTS
    r1 = r1
    r2 = r2
    r3 = r3
    Rid = {r1, r2, r3}
    ReuseIds = FALSE
    MaxId = 4
    Content <- MCContent
SPECIFICATION SglangFairSpec
INVARIANTS
    PhasesMatch
    FastPathSound
PROPERTIES
    SyncedAfterInput
    EventuallyTracked
