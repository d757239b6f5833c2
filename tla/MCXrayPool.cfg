\* Two instances, two workers, four ports; both programs.
SPECIFICATION Spec
CONSTANTS
    w1 = w1
    w2 = w2
    x1 = x1
    x2 = x2
    x3 = x3
    Modes = {"gui", "cli"}
    Worker = {w1, w2}
    Inst = {x1, x2, x3}
    LastPort = 3
    Count = 2
    SocksBase = 0
    ApiBase = 2
    TenantSocks = 0
    TenantApi = 2
    Attempts = 2
SYMMETRY PoolSymmetry
INVARIANTS
    TypeOK
    PortsExclusive
    ReservationsAccounted
    NoOrphan
    ShutdownIsClean
