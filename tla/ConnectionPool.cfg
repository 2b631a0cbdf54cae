SPECIFICATION FairPoolSpec
CONSTANTS
    Handlers = {r1, r2, r3}
    None = none
    Limit = 2
    Attempts = 2
    Statements = 3
INVARIANT
    SomebodyGoesOn
PROPERTIES
    EndsBelowLimit
    ChecksEnd
