\* What the comment on StopWorkerAndLog says of a failed relaunch.
SPECIFICATION Spec
CONSTANTS
    w1 = w1
    w2 = w2
    Worker = {w1}
    N = 2
    PregenFailed <- None
    ConfigBad <- None
    CliOnly <- Second
    MaxPolls = 0
    MaxFlaps = 0
    MaxFaults = 0
INVARIANT FailedRelaunchStopsWorker
