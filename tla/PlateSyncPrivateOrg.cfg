SPECIFICATION Spec
CONSTANTS
    Orgs = {o1}
    PrivateOrgs = {o1}
    NoOrg = noOrg
    Revs = {m1}
    NoRev = noRev
    Interval = 1
    MaxFailures = 1
    Workers = {w1}
    Requests = {}
    Kinds = {}
    Outcomes = {"match", "mismatch", "unencodable", "unreachable"}
    MaxRequests = 0
    MaxFaults = 0
INVARIANT
    PrivateOrgStaysPrivate
