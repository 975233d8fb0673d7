CONSTANTS
    Prompt <- MCPrompt
    CheckThreshold = 1
    DeprioritizeThreshold = 2
    Policy = "clpm"
    Shares <- MCShares
    Hits = {0, 1, 3}
    Admit = 2
    FallbackLen = 128
SPECIFICATION Spec
INVARIANTS
    PioneersKeepLead
    LaneBounds
    GroupsContiguous
    LpmIsStock
