SPECIFICATION Spec
CONSTANTS
    Screens = {"examples", "users"}
    CanManage = TRUE
    MaxRows = 3
    FirstRows = 2
    Search = {"", "old"}
    Finds <- FindsOldest
    SortKey = {"published", "email"}
    Value <- SomeEqual
    PageSizes = {1, 2}
    DefaultPerPage = 1
    MaxPerPage = 2
    MaxActs = 4
INVARIANTS ScreenTypeOK NoEmptyPage FooterTrue OneAtATime
PROPERTIES ClosesOnlyWhenDone DeletedLeaveScreen SearchSettles
CHECK_DEADLOCK FALSE
