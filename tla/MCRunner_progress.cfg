\* One process: one job published twice under a key, one signal or kill, one redrive, a listener that may never come up.
CONSTANTS
    j1 = j1  j2 = j2  ch1 = ch1  ch2 = ch2  k = k
    Process = {p1}
    Job = {j1, j2}
    Worker <- Loops
    Channel = {ch1}
    Key = {k}
    NoKey = NoKey
    ChannelOf <- OneChannel
    KeyOf <- SharedKey
    MaxOf <- MixedAttempts
    Batch = 1
    Overrun = {}
    MaxRedrives = 1
    Concurrency = 1
    MaxStops = 1
SPECIFICATION RunnerFairSpec
INVARIANTS RunnerTypeOK BatchBounds
PROPERTIES PollFinishesBatch EveryJobSettles ShutdownCompletes
CHECK_DEADLOCK FALSE
