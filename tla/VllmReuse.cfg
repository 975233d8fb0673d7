CONSTANTS
    r1 = r1
    r2 = r2
    r3 = r3
    Rid = {r1, r2, r3}
    ReuseIds = TRUE
    MaxId = 3
    Content <- MCContent
    Hash <- MCHash
    BlockHashes <- MCBlockHashes
SYMMETRY RidSymmetry
SPECIFICATION Spec
PROPERTY ArrivalIndexed
