\* One run of a worker whose channel another one's name begins with.
CONSTANTS
    t1 = t1  order = order  mailer = mailer
    order_published = order_published  example = example  example_created = example_created  a = a
    Name = {order, mailer}
    Example = Example
    Channel = {order_published, example, example_created, a}
    Existing = {example_created}
    NoChannel = NoChannel
    Published <- PublishedOf
    Begins <- BeginsOf
    InAll = {a}
    Asked <- AskedEach
    Terminal = {t1, t2}
    MaxRuns = 1
    Editable = {"api/service", "worker/service"}
SPECIFICATION Spec
INVARIANT Compiles
CHECK_DEADLOCK FALSE
