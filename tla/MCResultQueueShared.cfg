\* What ProxyRuntimeHistory.h says of the detail row and the aggregate.
SPECIFICATION Spec
CONSTANTS
    r1 = r1
    s1 = s1
    Result = {r1}
    Session = {s1}
    SubBatch = 1
    MaxRetries = 0
INVARIANT DetailAndAggregateTogether
