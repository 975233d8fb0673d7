CONSTANTS
    r1 = r1
    r2 = r2
    r3 = r3
    r4 = r4
    Req = {r1, r2, r3, r4}
    Prompt <- MCPrompt
    MaxDepth = 2
    BatchEst = 1
    MaxAdmit = 2
    MaxConcurrent = 2
    MinDepth = 1
    NoReq = NoReq
SPECIFICATION Spec
INVARIANTS
    DispatcherExact
    StoreFresh
    QueriesExact
    OnTheirWayCounted
