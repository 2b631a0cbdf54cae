SPECIFICATION Spec
CONSTANTS
    p1 = p1
    p2 = p2
    Plates = {p1, p2}
    Names = {"plate"}
    Name <- MCName
    Orgs = {o1}
    Personal = personal
    None = none
    Starts <- MCStarts
    Keys = {"plates"}
    Hooks <- MCHooks
    NoData = noData
    MaxCalls = 2
INVARIANTS
    ErrorIsRecent
    ListsAgree
PROPERTY
    TypedInItsDialog
CHECK_DEADLOCK FALSE
