\* Against the claim of the tests that a leased job is not claimed twice.
CONSTANTS
    j1 = j1  j2 = j2  ch = ch  k = k
    Job = {j1}
    Worker = {w1, w2}
    Channel = {ch}
    Key = {k}
    NoKey = NoKey
    ChannelOf <- OneChannel
    KeyOf <- SharedKey
    MaxOf <- ThreeAttempts
    Batch = 1
    Overrun = {j1}
    MaxRedrives = 0
SPECIFICATION Spec
SYMMETRY WorkerSymmetry
INVARIANTS LeasedOnce
CHECK_DEADLOCK FALSE
