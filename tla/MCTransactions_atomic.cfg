\* Two bulk methods and a nested one over the same two rows.
CONSTANTS
    bulk = bulk  gone = gone  nested = nested  a = a  b = b
    Call = {bulk, gone, nested}
    NoCall = NoCall
    Id = {a, b}
    NoId = NoId
    Body <- Bodies
    Removes = {gone}
    Attempts <- TwoAttempts
SPECIFICATION FairSpec
INVARIANTS TypeOK AnswerMatchesTable NothingLeftOpen
PROPERTIES WholeBody EveryCallReturns
CHECK_DEADLOCK FALSE
