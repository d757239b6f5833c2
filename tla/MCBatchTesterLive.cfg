\* Two fair worker threads share three profiles: one without a configuration,
\* one that is deleted, one only the command line tool can inject.
SPECIFICATION FairSpec
CONSTANTS
    w1 = w1
    w2 = w2
    Worker = {w1, w2}
    N = 3
    PregenFailed <- First
    ConfigBad <- Second
    CliOnly <- Third
    MaxPolls = 1
    MaxFlaps = 1
    MaxFaults = 1
INVARIANTS
    ExactlyOnce
    CountersMatch
PROPERTIES
    ImplementsLedger
    Termination
