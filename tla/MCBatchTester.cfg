\* Two workers share three profiles, the last one without a configuration.
SPECIFICATION Spec
CONSTANTS
    w1 = w1
    w2 = w2
    Worker = {w1, w2}
    N = 3
    PregenFailed <- Third
    ConfigBad <- None
    CliOnly <- None
    MaxPolls = 1
    MaxFlaps = 1
    MaxFaults = 1
SYMMETRY WorkerSymmetry
INVARIANTS
    TypeOK
    NoSilentRetirement
    BatchAccounted
    TestedOutboundIsOwn
