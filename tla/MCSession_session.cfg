SPECIFICATION Spec
CONSTANTS
    a = a  b = b
    User = {a, b}
    NoUser = NoUser
    Tab = {1, 2}
    Entry = {"/dashboard", "/admin/users"}
    MaxTokens = 2
    MaxActs = 4
INVARIANTS SessionTypeOK CallsInContract
PROPERTIES VisitSettles NotTrapped NobodyReachesTheApp
CHECK_DEADLOCK FALSE
