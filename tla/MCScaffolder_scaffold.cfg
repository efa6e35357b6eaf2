\* Two terminals, two runs that may overlap, be killed and be repeated.
CONSTANTS
    t1 = t1  order = order  mailer = mailer
    order_published = order_published  example = example  example_created = example_created  a = a
    Name = {order, mailer}
    Example = Example
    Channel = {order_published, example, example_created, a}
    Existing = {example_created}
    NoChannel = NoChannel
    Published <- PublishedOf
    Begins <- BeginsOf
    InAll = {a}
    Asked <- AskedEach
    Terminal = {t1, t2}
    MaxRuns = 2
    Editable = {"api/service", "worker/service"}
SPECIFICATION Spec
INVARIANTS TypeOK NoneTwice DeclaredHasFiles DoneIsWired CleanBuilds
PROPERTIES EditsKept
CHECK_DEADLOCK FALSE
