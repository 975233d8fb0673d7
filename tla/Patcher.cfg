CONSTANTS
    p1 = p1
    p2 = p2
    Proc = {p1, p2}
    Configs <- MCConfigs
    RevertAlone = TRUE
    NoFile = NoFile
SYMMETRY Symmetry
SPECIFICATION Spec
INVARIANTS
    Recoverable
PROPERTIES
    RevertRestores
    InstallComplete
