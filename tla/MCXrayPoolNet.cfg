\* The last stopAll() of the command line program.
SPECIFICATION Spec
CONSTANTS
    w1 = w1
    w2 = w2
    x1 = x1
    x2 = x2
    x3 = x3
    Modes = {"gui", "cli"}
    Worker = {w1, w2}
    Inst = {x1, x2, x3}
    LastPort = 3
    Count = 2
    SocksBase = 0
    ApiBase = 1
    TenantSocks = 0
    TenantApi = 1
    Attempts = 1
SYMMETRY PoolSymmetry
INVARIANTS
    ManagerOutlivesTester
