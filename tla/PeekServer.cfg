CONSTANTS
    r1 = r1
    r2 = r2
    r3 = r3
    Req = {r1, r2, r3}
    Prompt <- MCPrompt
    Output <- MCOutput
    Priority <- MCPriority
    Configs <- MCConfigs
    Page = {1, 2, 3, 4, 5, 6, 7, 8}
    PageSize = 2
    KeyTokens = 2
    TagTokens = 2
    CheckThreshold = 2
    DeprioritizeThreshold = 2
    MaxPrefillTokens = 12
    ChunkedPrefillSize = 6
    ClipMaxNewTokens = 4
    NewTokenRatios = {0, 1}
    PreemptionThreshold = 1
    MaxRunning = 2
    NoNode = NoNode
    NoPrev = NoPrev
    NoReq = NoReq
SPECIFICATION Spec
INVARIANTS
    PoolExact
    PrefixPinned
    TreeExact
    QueueRefsExact
    AllocationsSucceed
    QueueExact
PROPERTIES
    UnreferencedFirst
    EventuallyServed
