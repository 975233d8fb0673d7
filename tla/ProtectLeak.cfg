CONSTANTS
    r1 = r1
    r2 = r2
    r3 = r3
    r4 = r4
    r5 = r5
    r6 = r6
    r7 = r7
    r8 = r8
    Req = {r1, r2, r3, r4, r6, r8}
    Workloads <- MCLeakWorkloads
    BlockHashes <- MCBlockHashes
    Block = {b1, b2, b3, b4}
    Hash = {1, 2, 3, 4, 5, 6}
    Modes = {"engine"}
    ScanCap <- MCScanCap
    MinScanCap = 256
    MaxDepth = 3
    GroupKeyLen = 1
    BatchEst = 1
    ShallowDepth = 3
    DeepDepth = 3
    MediumGroup = 2
    DeepGroup = 3
    MaxPreempt = 1
    NoPrev = NoPrev
SPECIFICATION Spec
PROPERTIES
    ProtectionFresh
