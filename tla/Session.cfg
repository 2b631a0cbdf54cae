SPECIFICATION Spec
CONSTANTS
    a = a
    b = b
    n1 = n1
    n2 = n2
    Accounts = {a, b}
    Names = {n1, n2}
    None = None
    Starts <- MCStarts
    MaxCalls = 2
CONSTRAINT
    Bound
INVARIANT
    MeAgrees
PROPERTY
    DeletesTheConfirmed
