SPECIFICATION FairSpec
CONSTANTS
    Orgs = {o1}
    PrivateOrgs = {o1}
    NoOrg = noOrg
    Revs = {m1}
    NoRev = noRev
    Interval = 1
    MaxFailures = 1
    Workers = {w1}
    Requests = {r1}
    Kinds = {"move", "archive", "verify", "remove"}
    Outcomes = {"match", "mismatch", "unencodable", "unreachable"}
    MaxRequests = 1
    MaxFaults = 1
INVARIANTS
    TypeOK
    SyncColumnsCoherent
    UnprovenPlateUntouched
PROPERTIES
    OnlyMatchPublishes
    MatchPublishes
    MatchRestoresTags
    MismatchHides
    UnreachableUnverifies
