SPECIFICATION Spec
CONSTANTS
    o1 = o1
    o2 = o2
    Orgs = {o1, o2}
    None = none
    Starts <- MCStarts
    Keys <- MCKeys
    Hooks = {"create", "update", "remove", "leave", "invite", "removeMember", "revoke", "accept", "decline"}
    NoData = noData
    MaxCalls = 2
INVARIANTS
    ListsAgree
    ErrorOfDialog
PROPERTY
    ClosesNoOlderForm
CHECK_DEADLOCK FALSE
