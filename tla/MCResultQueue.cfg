\* Three results in sub-batches of two, one retry, one history writer.
SPECIFICATION FairSpec
CONSTANTS
    r1 = r1
    r2 = r2
    r3 = r3
    s1 = s1
    Result = {r1, r2, r3}
    Session = {s1}
    SubBatch = 2
    MaxRetries = 1
INVARIANTS
    TypeOK
    InOnePlace
    DrainedByStop
    TransactionHasOwner
    DroppedWasRefused
    VerdictIsDurable
PROPERTIES
    StopReturns
    ImplementsDelivery
