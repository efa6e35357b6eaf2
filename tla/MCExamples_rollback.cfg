\* A create that fails after its job was inserted.
CONSTANTS
    c = c  p = p  created = created  asked = asked  k = k
    Job = {c}
    Example = {c}
    Worker = {w1}
    Channel = {created, asked}
    Key = {k}
    NoKey = NoKey
    ChannelOf <- Channels
    KeyOf <- Keys
    MaxOf <- OneAttempt
    Target <- Targets
    Batch = 1
    Overrun = {}
    MaxRedrives = 0
SPECIFICATION ExamplesSpec
INVARIANTS FailedCreateLeavesNothing
CHECK_DEADLOCK FALSE
