CONSTANTS
    p1 = p1
    p2 = p2
    Proc = {p1, p2}
    Configs <- MCRaceConfigs
    RevertAlone = TRUE
    NoFile = NoFile
SPECIFICATION Spec
INVARIANT OriginalsKept
