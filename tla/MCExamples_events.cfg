\* The created-event has one attempt, and another by a redrive; the loop may claim it
\* again while it still holds it.  The request to publish has two, exclusively.
CONSTANTS
    c = c  p = p  created = created  asked = asked  k = k
    Job = {c, p}
    Example = {c}
    Worker = {w1}
    Channel = {created, asked}
    Key = {k}
    NoKey = NoKey
    ChannelOf <- Channels
    KeyOf <- Keys
    MaxOf <- TwoForRequests
    Target <- Targets
    Batch = 1
    Overrun = {c}
    MaxRedrives = 1
SPECIFICATION ExamplesFairSpec
INVARIANTS ExamplesTypeOK AnnouncedIfCommitted DoneIsSeen
PROPERTIES UnpublishSticks OrphanIsBuried
CHECK_DEADLOCK FALSE
