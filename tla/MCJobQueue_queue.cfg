\* Two publishers of one key; the lease of a job that is j2's may run out under it.
CONSTANTS
    j1 = j1  j2 = j2  ch = ch  k = k
    Job = {j1, j2}
    Worker = {w1, w2}
    Channel = {ch}
    Key = {k}
    NoKey = NoKey
    ChannelOf <- OneChannel
    KeyOf <- SharedKey
    MaxOf <- TwoAttempts
    Batch = 1
    Overrun = {j2}
    MaxRedrives = 1
SPECIFICATION Spec
SYMMETRY WorkerSymmetry
INVARIANTS TypeOK RetryBudget LeasedIffProcessing OutcomeIsEarned EnqueuedOnce ExclusiveRun
PROPERTY FollowsLifecycle
CHECK_DEADLOCK FALSE
