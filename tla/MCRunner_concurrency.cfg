\* Two jobs reach the two loops of a process with one permit each.
CONSTANTS
    j1 = j1  j2 = j2  ch1 = ch1  ch2 = ch2  k = k
    Process = {p1}
    Job = {j1, j2}
    Worker <- Loops
    Channel = {ch1}
    Key = {k}
    NoKey = NoKey
    ChannelOf <- OneChannel
    KeyOf <- NoKeys
    MaxOf <- OneAttempt
    Batch = 1
    Overrun = {}
    MaxRedrives = 0
    Concurrency = 1
    MaxStops = 0
SPECIFICATION RunnerSpec
INVARIANTS ProcessConcurrency
CHECK_DEADLOCK FALSE
