CONSTANTS
    Prompt <- MCPrompt
    CheckThreshold = 1
    DeprioritizeThreshold = 5
    Policy = "clpm"
    Shares <- DefaultShare
    Hits = {0}
    Admit = 2
    FallbackLen = 128
SPECIFICATION FairSpec
PROPERTY NoStarvation
