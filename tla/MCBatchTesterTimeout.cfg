\* What the comment in waitInterruptible says of a timed-out network wait.
SPECIFICATION Spec
CONSTANTS
    w1 = w1
    w2 = w2
    Worker = {w1}
    N = 1
    PregenFailed <- None
    ConfigBad <- None
    CliOnly <- None
    MaxPolls = 1
    MaxFlaps = 1
    MaxFaults = 0
INVARIANT TimedOutDelayIsCancelled
